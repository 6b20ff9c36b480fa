------------------------------- MODULE Termios -------------------------------
(***************************************************************************)
(* serial_posix.c: what configure_port does to the settings of a terminal. *)
(* Settings are a record: the speed, the number of data bits, VMIN, VTIME, *)
(* and the set of the flags that are on, of all four flag words together.  *)
(***************************************************************************)
EXTENDS Integers, Sequences

CONSTANT IntWidth    \* the width of int32_t

ASSUME WidthAssumption ==
    /\ IntWidth \in Nat \ {0} /\ 2 ^ (IntWidth - 1) \in Nat \ {0}
    /\ 2 ^ IntWidth = 2 * 2 ^ (IntWidth - 1)

Speeds == <<0, 50, 75, 110, 134, 150, 200, 300, 600, 1200, 1800, 2400, 4800,
            9600, 19200, 38400, 57600, 115200, 230400, 460800, 500000, 576000,
            921600, 1000000, 1152000, 1500000, 2000000, 2500000, 3000000,
            3500000, 4000000>>

\* Enumerators as their positions, parities by their names.  The last position,
\* and OTHER, stand for the values that an enum of C may hold beside them.
BaudRates == 0 .. Len(Speeds)
ByteSizes == 0 .. 4
StopBits == 0 .. 3
Parities == {"NONE", "EVEN", "ODD", "MARK", "SPACE", "OTHER"}

\* ..._INVALID is declared behind the alias ..._DEFAULT and is one more than it:
\* BAUD_230400, PARITY_EVEN and STOPBITS_1P5, and no byte size.
BAUD_INVALID == 18
PARITY_INVALID == "EVEN"
SIZE_INVALID == 4
STOPBITS_INVALID == 1

ControlFlags == {"PARENB", "PARODD", "CMSPAR", "CSTOPB", "CRTSCTS", "CLOCAL", "CREAD"}
FlowFlags == {"IXON", "IXOFF", "IXANY"}
Translations == {"INLCR", "IGNCR", "ICRNL", "IGNBRK"}
Cooking == {"LFLAG", "OFLAG"}       \* whatever is on in c_lflag, in c_oflag
Flags == ControlFlags \cup FlowFlags \cup Translations \cup Cooking

ValidBauds == 0 .. Len(Speeds) - 1

Settings == [speed : {Speeds[b + 1] : b \in ValidBauds}, size : 5 .. 8,
             flags : SUBSET Flags, vmin : 0 .. 1, vtime : 0 .. 255]

-----------------------------------------------------------------------------
Turn(flags, on, off) == (flags \ off) \cup on

\* What the switch of set_parity turns on and off.
ParityOn(parity) ==
    CASE parity = "NONE"  -> {}
      [] parity = "EVEN"  -> {"PARENB"}
      [] parity = "ODD"   -> {"PARENB", "PARODD"}
      [] parity = "MARK"  -> {"PARENB", "CMSPAR", "PARODD"}
      [] parity = "SPACE" -> {"PARENB", "CMSPAR"}

\* Fault: even parity leaves PARODD as it was.
ParityOff_Space(parity) ==
    CASE parity = "NONE" -> {"PARENB"} [] parity = "SPACE" -> {"PARODD"} [] OTHER -> {}

ParityOff(parity) ==
    CASE parity = "NONE" -> {"PARENB"}
      [] parity \in {"EVEN", "SPACE"} -> {"PARODD"}
      [] OTHER -> {}

SetParity(flags, parity) == Turn(flags, ParityOn(parity), ParityOff(parity))

\* One stop bit or more: 1.5 and 2 are the same flag.
SetStopbits(flags, bits) ==
    IF bits = 0 THEN flags \ {"CSTOPB"} ELSE flags \cup {"CSTOPB"}

SetXonxoff(flags, on) ==
    IF on THEN flags \cup {"IXON", "IXOFF"} ELSE flags \ FlowFlags

SetRtscts(flags, on) ==
    IF on THEN flags \cup {"CRTSCTS"} ELSE flags \ {"CRTSCTS"}

\* The values that the switches know, some of them by another name as well.
Known(config) ==
    /\ config.baudrate \in ValidBauds
    /\ config.parity \in Parities \ {"OTHER"}
    /\ config.stopbits \in 0 .. 2
    /\ config.bytesize \in 0 .. 3

\* An int32_t that holds n, where the build wraps around.
Wrapped(n) == ((n + 2 ^ (IntWidth - 1)) % (2 ^ IntWidth)) - 2 ^ (IntWidth - 1)

\* The pairs of VMIN and VTIME that set_ic_timeout may write; with none it
\* returns -EINVAL.  A product that does not fit is undefined: the build may
\* wrap it around, and leave out the comparison with 0.
IcTimeouts(timeout) ==
    IF timeout < 0 THEN {<<0, 0>>}
    ELSE LET product == Wrapped(timeout * 10)
         IN  IF product <= 255 THEN {<<1, (product % 256)>>} ELSE {}

\* The settings that configure_port may write, given those that tcgetattr
\* returned; with none it returns -EINVAL and writes nothing.
Configured(tty, config) ==
    IF ~Known(config) THEN {}
    ELSE {[speed |-> Speeds[config.baudrate + 1],
           size  |-> config.bytesize + 5,
           flags |-> SetRtscts(SetXonxoff(SetStopbits(SetParity(
                        Turn(tty.flags, {"CLOCAL", "CREAD"}, Cooking \cup Translations),
                        config.parity), config.stopbits), config.xonxoff), config.rtscts),
           vmin  |-> ic[1],
           vtime |-> ic[2]] : ic \in IcTimeouts(config.inter_byte_timeout)}

-----------------------------------------------------------------------------
(* What settings mean, to compare with what was asked for.                 *)

ParityOf(flags) ==
    CASE "PARENB" \notin flags -> "NONE"
      [] {"PARENB", "CMSPAR"} \subseteq flags -> IF "PARODD" \in flags THEN "MARK" ELSE "SPACE"
      [] OTHER -> IF "PARODD" \in flags THEN "ODD" ELSE "EVEN"

\* set_parity never turns CMSPAR off: even and odd parity after mark or space
\* are space and mark.
Stuck(flags, config) == "CMSPAR" \in flags /\ config.parity \in {"EVEN", "ODD"}

Agrees(tty, config) ==
    /\ tty.speed = Speeds[config.baudrate + 1]
    /\ tty.size = config.bytesize + 5
    /\ ParityOf(tty.flags) = config.parity \/ Stuck(tty.flags, config)
    /\ "CSTOPB" \in tty.flags <=> config.stopbits # 0
    /\ "CRTSCTS" \in tty.flags <=> config.rtscts
    /\ {"IXON", "IXOFF"} \cap tty.flags = IF config.xonxoff THEN {"IXON", "IXOFF"} ELSE {}
    /\ {"CLOCAL", "CREAD"} \subseteq tty.flags /\ tty.flags \cap (Cooking \cup Translations) = {}
    /\ tty.vmin = IF config.inter_byte_timeout < 0 THEN 0 ELSE 1
=============================================================================
