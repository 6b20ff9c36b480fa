------------------------------ MODULE MCSerial ------------------------------
(***************************************************************************)
(* Serial ports on small instances.  A run begins with the life of a few   *)
(* port objects (SerialPort), or with the bytes that one of them receives, *)
(* or sends (SerialIO), and stays there: the three share no variable.      *)
(***************************************************************************)
EXTENDS SerialPort, SerialIO, TLC

CONSTANTS o1, o2, o3, p1, p2, usb

MCHost == [o \in {o1, o2, o3} |-> IF o = o3 THEN p2 ELSE p1]

Named(port) ==
    [port |-> port, baudrate |-> 13, bytesize |-> 3, parity |-> "ODD", stopbits |-> 0,
     xonxoff |-> FALSE, rtscts |-> FALSE, dsrdtr |-> FALSE, inter_byte_timeout |-> -1,
     exclusive |-> FALSE, rts |-> TRUE, dtr |-> TRUE]
MCAttributes == {Named(NoPort), Named(usb)}
MCSettable == [parity |-> {"MARK", "ODD"}, exclusive |-> BOOLEAN]
MCSymmetry == Permutations({o1, o2})

MCEndings == {<<>>, <<2>>, <<1, 2>>}

VARIABLE subject

\* A bound: of the objects, only the one alone in its process may lack a port.
OnlyO3Unnamed == \A o \in alive \ {o3} : attr[o].port # NoPort

SerialInit ==
    /\ Init /\ IOInit
    /\ subject \notin {"reading", "writing"} => ready /\ vmin = 0
SerialNext ==
    \/ subject = "life" /\ Next /\ OnlyO3Unnamed' /\ UNCHANGED ioVars
    \/ subject = "reading" /\ IONext /\ UNCHANGED <<vars, output, writer>>
    \/ subject = "writing" /\ IONext /\ UNCHANGED <<vars, input, reader>>

SerialSubjects == {"life", "reading", "writing"}
MCSpec ==
    /\ subject \in SerialSubjects /\ SerialInit
    /\ [][SerialNext /\ UNCHANGED subject]_<<subject, vars, ioVars>>

=============================================================================
