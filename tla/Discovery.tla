------------------------------ MODULE Discovery ------------------------------
(***************************************************************************)
(* comports() and SysFsLinux (serial/tools): a scan for serial ports while *)
(* devices come and go.  One step is one look at /dev or /sys.  A device   *)
(* keeps its canonical path in /sys, so that a path that was resolved      *)
(* leads to the device it was resolved for, or nowhere.                    *)
(***************************************************************************)
EXTENDS Naturals, FiniteSets, Sequences, Functions

CONSTANTS
    Entries,      \* the entries of /dev, in the order of the names in a family
    FamilyOf,     \* the pattern that each name matches
    Families,     \* the patterns in the order of comports()
    Devices,
    SubsystemOf,  \* of each device; NoLink for one without a "device" link
    NoLink,
    Nothing,      \* no device
    MaxChanges    \* how often a device comes or goes while a scan runs

ASSUME ScanAssumption ==
    /\ Entries \subseteq Nat /\ IsFiniteSet(Entries)
    /\ Families \in Seq(Range(Families))
    /\ \A j, k \in 1 .. Len(Families) : Families[j] = Families[k] => j = k
    /\ FamilyOf \in [Entries -> Range(Families)]
    /\ Nothing \notin Devices

VARIABLES
    plugged,      \* the device behind each name
    phase,        \* "idle", "glob", "find", "subsystem", "numbers", "details", "threw"
    sought,       \* the families that this scan looks for
    left,         \* the families that the scan did not come to yet
    devices,      \* the names found and not yet looked at
    dev,          \* the device that the SysFsLinux being constructed resolved to
    ret,          \* the results: a name, its device, and whether every line was read
    changed,      \* history: the names whose device came or went during the scan
    changes

scan == <<phase, sought, left, devices, dev, ret>>
scanVars == <<plugged, scan, changed, changes>>

ScanInit ==
    /\ plugged \in [Entries -> Devices \cup {Nothing}]
    /\ \A m, n \in Entries : m # n => plugged[m] # plugged[n] \/ plugged[m] = Nothing
    /\ phase = "idle" /\ sought = {} /\ left = <<>> /\ devices = <<>>
    /\ dev = Nothing /\ ret = <<>> /\ changed = {} /\ changes = 0

Present(d) == d # Nothing /\ \E n \in Entries : plugged[n] = d

-----------------------------------------------------------------------------
(* The system around the scan.                                             *)

Change(n, d) ==
    /\ phase # "idle" /\ changes < MaxChanges
    /\ plugged[n] = Nothing \/ d = Nothing
    /\ ~Present(d) /\ plugged[n] # d
    /\ plugged' = [plugged EXCEPT ![n] = d]
    /\ changed' = changed \cup {n}
    /\ changes' = changes + 1
    /\ UNCHANGED scan

-----------------------------------------------------------------------------
(* The scan.                                                               *)

Begin(wanted) ==
    /\ phase \in {"idle", "threw"}
    /\ phase' = "glob"
    /\ sought' = wanted
    /\ left' = Families
    /\ devices' = <<>> /\ ret' = <<>> /\ changed' = {}
    /\ UNCHANGED <<plugged, dev, changes>>

\* The names in a set, as glob sorts them.
Sorted(names) ==
    CHOOSE s \in [1 .. Cardinality(names) -> names] :
        \A i, j \in 1 .. Cardinality(names) : i < j => s[i] < s[j]

\* _glob and UPDATE_VECTOR, for one family.
Glob ==
    /\ phase = "glob" /\ left # <<>>
    /\ left' = Tail(left)
    /\ devices' = IF Head(left) \in sought
                  THEN devices \o Sorted({n \in Entries :
                          plugged[n] # Nothing /\ FamilyOf[n] = Head(left)})
                  ELSE devices
    /\ UNCHANGED <<plugged, phase, sought, dev, ret, changed, changes>>

Globbed ==
    /\ phase = "glob" /\ left = <<>>
    /\ phase' = "find"
    /\ UNCHANGED <<plugged, sought, left, devices, dev, ret, changed, changes>>

\* fs::canonical throws when there is nothing, and nobody catches it.
ThrowUnless(found, next) == phase' = IF found THEN next ELSE "threw"

\* The constructor, as far as canonical(/sys/class/tty/name/device).
Find ==
    /\ phase = "find" /\ devices # <<>>
    /\ LET d == plugged[Head(devices)]
       IN  /\ ThrowUnless(d # Nothing /\ SubsystemOf[d] # NoLink, "subsystem")
           /\ dev' = d
    /\ UNCHANGED <<plugged, sought, left, devices, ret, changed, changes>>

Subsystem ==
    /\ phase = "subsystem"
    /\ ThrowUnless(Present(dev),
                   IF SubsystemOf[dev] \in {"usb", "usb-serial"} THEN "numbers" ELSE "details")
    /\ UNCHANGED <<plugged, sought, left, devices, dev, ret, changed, changes>>

\* The directory that _fill_usb_dev_info reads is that of the device for "usb";
\* for "usb-serial" it is the parent of /sys/class/tty/name, which has no files
\* of these names.
HasNumbers(d) == SubsystemOf[d] = "usb" /\ Present(d)

\* bNumInterfaces may be missing; std::stoull throws for an idVendor or
\* idProduct that is.
Numbers ==
    /\ phase = "numbers"
    /\ ThrowUnless(HasNumbers(dev), "details")
    /\ UNCHANGED <<plugged, sought, left, devices, dev, ret, changed, changes>>

\* Fault: the devices of the platform are listed as well.
Listed_All(d) == TRUE

Listed(d) == SubsystemOf[d] # "platform"

\* The lines that may be empty: serial, manufacturer, product and interface of
\* usb, id of pnp; other subsystems have none.  Then comports() keeps the object.
Details ==
    /\ phase = "details"
    /\ phase' = "find"
    /\ devices' = Tail(devices)
    /\ LET whole == SubsystemOf[dev] \in {"usb", "pnp"} => Present(dev)
       IN  ret' = IF Listed(dev) THEN Append(ret, [name |-> Head(devices), device |-> dev, whole |-> whole])
                  ELSE ret
    /\ UNCHANGED <<plugged, sought, left, dev, changed, changes>>

Finish ==
    /\ phase = "find" /\ devices = <<>>
    /\ phase' = "idle"
    /\ dev' = Nothing
    /\ UNCHANGED <<plugged, sought, left, devices, ret, changed, changes>>

ScanNext ==
    \/ \E n \in Entries, d \in Devices \cup {Nothing} : Change(n, d)
    \/ \E wanted \in SUBSET Range(Families) : Begin(wanted)
    \/ Glob \/ Globbed \/ Find \/ Subsystem \/ Numbers \/ Details \/ Finish

ScanSpec == ScanInit /\ [][ScanNext]_scanVars

-----------------------------------------------------------------------------
(* Correctness.                                                            *)

IsSought(n) == FamilyOf[n] \in sought
Place(n) == CHOOSE f \in DOMAIN Families : Families[f] = FamilyOf[n]
Precedes(m, n) == Place(m) < Place(n) \/ (Place(m) = Place(n) /\ m < n)

\* A scan that returns has listed every port of the families it was asked for
\* that stayed, with all its lines, and no other port that stayed; each name is
\* there once, by family.  A scan ends with an exception only because a port
\* came or went, has no link, or is on the usb-serial bus.
ScanIsTrue ==
    /\ phase = "idle" =>
          \A n \in Entries \ changed :
              LET entries == {i \in DOMAIN ret : ret[i].name = n}
              IN  IF IsSought(n) /\ plugged[n] # Nothing /\ SubsystemOf[plugged[n]] # "platform"
                  THEN \E i \in entries : entries = {i} /\ ret[i].device = plugged[n] /\ ret[i].whole
                  ELSE entries = {}
    /\ \A i, j \in DOMAIN ret : i < j => Precedes(ret[i].name, ret[j].name)
    /\ phase = "threw" /\ changed = {} =>
          \E n \in Entries : IsSought(n) /\ plugged[n] # Nothing
                           /\ SubsystemOf[plugged[n]] \in {"usb-serial", NoLink}

\* A scan for ttyUSB* devices finds them (sys_fs_linux.hpp:25): unless a port
\* comes or goes, or has no link, no scan ends with an exception.
UsbSerialIsFound ==
    phase = "threw" /\ changed = {} =>
        \E n \in Entries : IsSought(n) /\ plugged[n] # Nothing /\ SubsystemOf[plugged[n]] = NoLink
=============================================================================
