----------------------------- MODULE SerialPort -----------------------------
(***************************************************************************)
(* SerialPosix and SerialBase (serial/core): the life of serial port       *)
(* objects, the descriptors they open, and what they do to the terminals   *)
(* behind them.  Several objects, in several processes, may name one port. *)
(* Each call is one step; a system call inside it may fail.                *)
(***************************************************************************)
EXTENDS Termios, FiniteSets

CONSTANTS
    Objects,      \* places for SerialPosix objects
    Processes,
    Host,         \* the process of each object
    Ports,        \* terminals
    NoPort,       \* the empty name; an entry of a descriptor table not in use
    Nobody,       \* the owner of a file lock that is not held
    Descriptors,  \* the numbers a process may use for its terminals, from 0
    Attributes,   \* what constructors are given
    Settable,      \* for each attribute that Set sets, the values it is set to
    Dsrdtr,       \* the values dsrdtr is set to
    States,       \* the values rts and dtr are set to
    OneOpener     \* a process opens a port through one object at a time

\* The attributes of a port and what they may be.
Types == [port |-> Ports \cup {NoPort}, baudrate |-> BaudRates, bytesize |-> ByteSizes,
          parity |-> Parities, stopbits |-> StopBits, xonxoff |-> BOOLEAN, rtscts |-> BOOLEAN,
          dsrdtr |-> BOOLEAN, inter_byte_timeout |-> Int, exclusive |-> BOOLEAN,
          rts |-> BOOLEAN, dtr |-> BOOLEAN]

IsConfig(config) ==
    DOMAIN config = DOMAIN Types /\ \A field \in DOMAIN Types : config[field] \in Types[field]

ASSUME SerialAssumption ==
    /\ Host \in [Objects -> Processes]
    /\ Descriptors \subseteq Nat /\ IsFiniteSet(Descriptors)
    /\ NoPort \notin Ports /\ Nobody \notin Processes \cup Objects
    /\ Attributes # {} /\ \A config \in Attributes : IsConfig(config)
    /\ DOMAIN Settable \subseteq DOMAIN Types
    /\ \A field \in DOMAIN Settable : \A value \in Settable[field] : value \in Types[field]
    /\ Dsrdtr \subseteq BOOLEAN /\ States \subseteq BOOLEAN
    /\ OneOpener \in BOOLEAN

VARIABLES
    alive,        \* the objects that were constructed
    attr,         \* port_, baudrate_, ..., rts_state_, dtr_state_
    isOpen,       \* is_open_
    fd,           \* _fd
    files,        \* descriptor tables
    tty,          \* settings of a terminal
    lines,        \* the lines a terminal raises, of RTS and DTR
    locks,        \* the process that holds the file lock of a terminal
    synced,       \* history: the last call that had to apply attr[o] did not throw
    setter        \* history: the object that last touched the settings of a terminal

object == <<alive, attr, isOpen, fd, synced>>
terminal == <<tty, lines, locks, setter>>
vars == <<object, files, terminal>>

\* The attributes and the descriptor of an object that is not there.
Unset == CHOOSE config \in Attributes : TRUE

Fresh == [speed |-> 9600, size |-> 8, flags |-> {"ICRNL", "LFLAG", "OFLAG"},
          vmin |-> 1, vtime |-> 0]

Init ==
    /\ alive = {}
    /\ attr = [o \in Objects |-> Unset]
    /\ isOpen = [o \in Objects |-> FALSE]
    /\ fd = [o \in Objects |-> -1]
    /\ files = [p \in Processes |-> [n \in Descriptors |-> NoPort]]
    /\ tty = [d \in Ports |-> Fresh]
    /\ lines = [d \in Ports |-> {"RTS", "DTR"}]      \* as open(2) leaves them
    /\ locks = [d \in Ports |-> Nobody]
    /\ synced = [o \in Objects |-> FALSE]
    /\ setter = [d \in Ports |-> Nobody]

-----------------------------------------------------------------------------
\* What the descriptor of an object stands for: with -1, or one that was
\* closed, nothing; but a number that was closed may be in use again.
Device(o) == IF fd[o] = -1 THEN NoPort ELSE files[Host[o]][fd[o]]

\* Fault: locks are asked for and never refused.
Grants_Always(p, d, exclusive) == TRUE

\* F_SETLK with F_WRLCK; F_UNLCK is never refused.
Grants(p, d, exclusive) == exclusive => locks[d] \in {p, Nobody}

\* port_update_file_lock
UpdateLock(p, d, exclusive) ==
    /\ Grants(p, d, exclusive)
    /\ locks' = [locks EXCEPT ![d] = IF exclusive THEN p
                                     ELSE IF @ = p THEN Nobody ELSE @]

\* configure_port: the lock first, then the settings, all at once.  Without
\* `done` it failed, at the lock or after it.
ConfigurePort(o, d, config, done) ==
    \/ ~done /\ UNCHANGED <<locks, tty, setter>>
    \/ ~done /\ UpdateLock(Host[o], d, config.exclusive) /\ UNCHANGED <<tty, setter>>
    \/ /\ done
       /\ UpdateLock(Host[o], d, config.exclusive)
       /\ \E new \in Configured(tty[d], config) : tty' = [tty EXCEPT ![d] = new]
       /\ setter' = [setter EXCEPT ![d] = o]

Line(raised, line, state) == IF state THEN raised \cup {line} ELSE raised \ {line}

\* _init_flow_control sets DTR, then RTS, each unless the hardware does; what
\* either throws ends it, and is forgotten if the code is EINVAL or ENOTTY.
InitFlowControl(raised, config) ==
    LET dtr == IF config.dsrdtr THEN raised ELSE Line(raised, "DTR", config.dtr)
        rts == IF config.rtscts THEN dtr ELSE Line(dtr, "RTS", config.rts)
    IN  {raised, dtr, rts}

\* The rule OneOpener.
MayOpen(o, d) ==
    OneOpener =>
        \A q \in Objects \ {o} :
            isOpen[q] /\ Host[q] = Host[o] => Device(q) # d

\* open(), with the attributes `config`.  It may throw after configuring, at
\* the lines or the input queue, and close() in its catch block does nothing,
\* because is_open_ is not set yet: the descriptor stays.
OpenWith(o, config) ==
    /\ config.port # NoPort /\ ~isOpen[o] /\ MayOpen(o, config.port)
    /\ \/ /\ fd' = [fd EXCEPT ![o] = -1]
          /\ UNCHANGED <<isOpen, synced, files, terminal>>
       \/ \E n \in Descriptors :
          /\ files[Host[o]][n] = NoPort
          /\ \A k \in Descriptors : files[Host[o]][k] = NoPort => n <= k
          /\ fd' = [fd EXCEPT ![o] = n]
          /\ files' = [files EXCEPT ![Host[o]][n] = config.port]
          /\ \/ /\ ConfigurePort(o, config.port, config, FALSE)
                /\ UNCHANGED <<isOpen, synced, lines>>
             \/ /\ ConfigurePort(o, config.port, config, TRUE)
                /\ \E raised \in InitFlowControl(lines[config.port], config) :
                      lines' = [lines EXCEPT ![config.port] = raised]
                /\ \E opened \in BOOLEAN :
                      /\ isOpen' = [isOpen EXCEPT ![o] = opened]
                      /\ synced' = [synced EXCEPT ![o] = opened]

\* The constructor opens a port that has a name; if that throws there is no
\* object, and no destructor.
Construct(o, config) ==
    /\ o \notin alive
    /\ \/ /\ config.port = NoPort
          /\ alive' = alive \cup {o}
          /\ attr' = [attr EXCEPT ![o] = config]
          /\ UNCHANGED <<isOpen, fd, synced, files, terminal>>
       \/ /\ OpenWith(o, config)
          /\ alive' = alive \cup {q \in {o} : isOpen'[o]}
          /\ attr' = [attr EXCEPT ![o] = IF isOpen'[o] THEN config ELSE @]

Open(o) ==
    /\ o \in alive
    /\ OpenWith(o, attr[o])
    /\ UNCHANGED <<alive, attr>>

\* Fault: is_open_ is left as it is.
Closed_StillOpen(o) == isOpen

Closed(o) == [isOpen EXCEPT ![o] = FALSE]

\* close_port and the end of is_open_; _fd keeps the number.  When a process
\* closes any of its descriptors of a file its lock is gone.
CloseDescriptor(o) ==
    /\ isOpen' = Closed(o)
    /\ synced' = [synced EXCEPT ![o] = FALSE]
    /\ IF isOpen[o]
       THEN /\ files' = [files EXCEPT ![Host[o]][fd[o]] = NoPort]
            /\ locks' = [d \in Ports |-> IF d = Device(o) /\ locks[d] = Host[o]
                                         THEN Nobody ELSE locks[d]]
       ELSE UNCHANGED <<files, locks>>
    /\ UNCHANGED <<tty, lines, setter>>

Close(o) ==
    /\ o \in alive
    /\ CloseDescriptor(o)
    /\ UNCHANGED <<alive, attr, fd>>

Destroy(o) ==
    /\ o \in alive
    /\ CloseDescriptor(o)
    /\ alive' = alive \ {o}
    /\ attr' = [attr EXCEPT ![o] = Unset]
    /\ fd' = [fd EXCEPT ![o] = -1]

\* Fault: what could not be applied counts as applied.
Reconfigured_Anyway(done) == TRUE

Reconfigured(done) == done

\* The setters of port, baudrate, bytesize, exclusive, parity, stopbits,
\* inter_byte_timeout, xonxoff and rtscts: the attribute first, then, if the
\* port is open, the settings of its terminal, which may throw.
Set(o, field, value) ==
    /\ o \in alive
    /\ attr' = [attr EXCEPT ![o][field] = value]
    /\ \/ ~isOpen[o] /\ UNCHANGED <<synced, locks, tty, setter>>
       \/ \E done \in BOOLEAN :
             /\ isOpen[o]
             /\ ConfigurePort(o, Device(o), attr'[o], done)
             /\ synced' = [synced EXCEPT ![o] = Reconfigured(done)]
    /\ UNCHANGED <<alive, isOpen, fd, files, lines>>

\* The setter of dsrdtr.
SetDsrdtr(o, value) ==
    /\ o \in alive
    /\ attr' = [attr EXCEPT ![o].dsrdtr = value]
    /\ UNCHANGED <<alive, isOpen, fd, synced, files, terminal>>

\* The setters of rts and dtr do not ask whether the port is open.
SetLine(o, line, state) ==
    /\ o \in alive
    /\ attr' = [attr EXCEPT ![o] = IF line = "RTS" THEN [@ EXCEPT !.rts = state]
                                                  ELSE [@ EXCEPT !.dtr = state]]
    /\ \/ UNCHANGED lines
       \/ /\ Device(o) # NoPort
          /\ lines' = [lines EXCEPT ![Device(o)] = Line(@, line, state)]
    /\ UNCHANGED <<alive, isOpen, fd, synced, files, tty, locks, setter>>

-----------------------------------------------------------------------------
Next ==
    \E o \in Objects :
        \/ \E config \in Attributes : Construct(o, config)
        \/ Open(o) \/ Close(o) \/ Destroy(o)
        \/ \E field \in DOMAIN Settable : \E value \in Settable[field] : Set(o, field, value)
        \/ \E value \in Dsrdtr : SetDsrdtr(o, value)
        \/ \E line \in {"RTS", "DTR"}, state \in States : SetLine(o, line, state)

Spec == Init /\ [][Next]_vars

-----------------------------------------------------------------------------
(* Correctness.                                                            *)

\* Every open object has a descriptor that nobody else has: no call reaches a
\* terminal through a number that was closed, or that belongs to another
\* object, as long as it asks is_open_ first.
HandlesAreOwned ==
    \A o \in Objects : isOpen[o] =>
        /\ o \in alive
        /\ fd[o] # -1 /\ Device(o) \in Ports
        /\ \A q \in Objects \ {o} :
              isOpen[q] /\ Host[q] = Host[o] => fd[q] # fd[o]

\* An object that was opened or set to exclusive access without an exception
\* has it: its process holds the lock of the terminal, so that no object of
\* another process has it as well (serial_base.hpp:236-239).
ExclusiveIsHeld ==
    \A o \in Objects :
        isOpen[o] /\ synced[o] /\ attr[o].exclusive => locks[Device(o)] = Host[o]

\* After open() or a setter that did not throw, until another object configures
\* the same terminal, the terminal does what all the attributes say, also those
\* whose own setters threw before.
SettingsFollow ==
    \A o \in Objects :
        isOpen[o] /\ synced[o] /\ setter[Device(o)] = o => Agrees(tty[Device(o)], attr[o])
=============================================================================
