------------------------------ MODULE MCLibrary ------------------------------
(***************************************************************************)
(* The small parts of the library, each on an instance of its own: a run   *)
(* begins with one of them and stays with it.                              *)
(***************************************************************************)
EXTENDS MCSerial, Task, UnboundedQueue, Logger, Discovery, SList, Terminal, Values

CONSTANTS u1, u2, u3, la, lb, n1, n2, n3, n4, ma, mb, na,
          acm, ftdi, pnp, soc, bare

MCNameOf == [m \in {ma, mb} |-> na]

MCSubsystemOf == [d \in {acm, ftdi, pnp, soc, bare} |->
    CASE d = acm -> "usb" [] d = ftdi -> "usb-serial" [] d = pnp -> "pnp"
      [] d = soc -> "platform" [] d = bare -> "no link"]
MCFamilies == <<"ttyS", "ttyUSB">>
MCFamilyOf == <<"ttyS", "ttyUSB", "ttyUSB">>

\* Any flags for parity, with all of the others or none.
ParityFlags == {"PARENB", "PARODD", "CMSPAR"}
MCInitially ==
    {[speed |-> 9600, size |-> 5, flags |-> f \cup g, vmin |-> 0, vtime |-> 7] :
        f \in SUBSET ParityFlags, g \in {{}, Flags \ ParityFlags}}

\* A bound: what one call configures differs from Plain in one group of
\* attributes.
Plain == [baudrate |-> 13, bytesize |-> 3, parity |-> "EVEN", stopbits |-> 0,
          xonxoff |-> FALSE, rtscts |-> FALSE, inter_byte_timeout |-> 25]
MCRequests ==
    {[Plain EXCEPT !.parity = p, !.stopbits = s] : p \in Parities, s \in StopBits}
    \cup {[Plain EXCEPT !.xonxoff = x, !.rtscts = r] : x \in BOOLEAN, r \in BOOLEAN}
    \cup {[Plain EXCEPT !.baudrate = b, !.bytesize = s] :
              b \in {0, BAUD_INVALID, 31}, s \in {3, 4}}
    \cup {[Plain EXCEPT !.inter_byte_timeout = t] : t \in {-1, 0, 25, 26, 60}}

\* The calls of Values, by their kinds.
Upto(S, n) == UNION {[1 .. k -> S] : k \in 0 .. n}

FieldCalls(w) ==
    UNION {[kind : {"field"}, width : {w}, word : SUBSET Word(w), lsb : {lsb},
            n : 1 .. w - lsb, value : SUBSET Word(w)] : lsb \in Word(w)}
BitCalls(w) ==
    [kind : {"bit"}, width : {w}, word : SUBSET Word(w), bit : 0 .. w, value : BOOLEAN]
BufferCalls ==
    [kind : {"buffer"}, buffer : Upto({0, 1}, 2), items : Upto(Upto({0, 1}, 2), 2)]
BlockCalls == [kind : {"block"}, align : {1, 2, 3, 4, 8}, n : 0 .. 31, size : 1 .. 8]
Zones == {[s \in -4 .. 4 |-> IF s < change THEN before_it ELSE after_it] :
             change \in -4 .. 5, before_it \in 0 .. 2, after_it \in 0 .. 2}
DateCalls == [kind : {"date"}, zone : Zones, instant : -12 .. 12]
ArgumentsCalls ==
    [kind : {"arguments"}, names : {<<"x", "y">>}, struct : [{"x", "y"} -> {0, 1}],
     other : [{"x", "y"} -> {0, 1}], checked : SUBSET {"x", "y"},
     kwargs : UNION {[S -> {0, 1, None, Bad}] : S \in SUBSET {"x", "y"}}]
MountCalls ==
    {c \in [kind : {"mount"}, hidden : {{}, {"/"}}, dir : {"/", "/data"},
            mounts : Upto({[dir |-> place, name |-> disk, dev |-> disk] :
                              place \in {"/", "/data"}, disk \in {"nvme", "sda"}}, 3)] :
        \E i \in DOMAIN c.mounts : c.mounts[i].dir = c.dir}
MCCalls ==
    FieldCalls(2) \cup FieldCalls(4) \cup BitCalls(2) \cup BitCalls(4) \cup BufferCalls
        \cup BlockCalls \cup DateCalls \cup ArgumentsCalls \cup MountCalls

LibraryInit ==
    /\ subject \in SerialSubjects
           \cup {"task", "queue", "lists", "logger", "scan", "terminal", "values"}
    /\ SerialInit /\ TaskInit /\ QueueInit /\ ListInit /\ LoggerInit /\ ScanInit
    /\ TerminalInit /\ ValuesInit
    /\ subject # "scan" => plugged = [n \in 1 .. 3 |-> Nothing]
    /\ subject # "logger" => outside = [n \in Names |-> 30]
    /\ subject # "terminal" => settings.flags = {}

\* The parts that are not the subject stand still.
LibraryNext ==
    /\ UNCHANGED subject
    /\ \/ SerialNext
       \/ subject = "task" /\ TaskNext
       \/ subject = "queue" /\ QueueNext
       \/ subject = "lists" /\ ListNext
       \/ subject = "logger" /\ LoggerNext
       \/ subject = "scan" /\ ScanNext
       \/ subject = "terminal" /\ TerminalNext
       \/ subject = "values" /\ given = NoCall /\ Evaluate
    /\ subject \notin SerialSubjects => UNCHANGED <<vars, ioVars>>
    /\ subject # "task" => UNCHANGED taskVars
    /\ subject # "queue" => UNCHANGED queueVars
    /\ subject # "lists" => UNCHANGED listVars
    /\ subject # "logger" => UNCHANGED loggerVars
    /\ subject # "scan" => UNCHANGED scanVars
    /\ subject # "terminal" => UNCHANGED terminalVars
    /\ subject # "values" => UNCHANGED given
LibrarySpec ==
    LibraryInit /\ [][LibraryNext]_<<subject, vars, ioVars, taskVars, queueVars, listVars,
                                     loggerVars, scanVars, terminalVars, given>>

=============================================================================
