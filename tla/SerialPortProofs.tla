-------------------------- MODULE SerialPortProofs --------------------------
(***************************************************************************)
(* Theorems about SerialPort and Termios, for any number of port objects,  *)
(* processes and terminals, and about the bytes that SerialIO moves, for   *)
(* any number of them, with proofs for TLAPS.                              *)
(***************************************************************************)
EXTENDS SerialPort, SerialIO, Terminal, ListLemmas

-----------------------------------------------------------------------------
(* Terminal settings.                                                      *)

\* The parity that a terminal ends up with, whatever it had before.
LEMMA ParityIsSet ==
    ASSUME NEW flags, NEW parity \in Parities \ {"OTHER"}
    PROVE  LET new == SetParity(flags, parity)
           IN  ParityOf(new) = parity \/ ("CMSPAR" \in new /\ parity \in {"EVEN", "ODD"})
<1>1. CASE parity = "NONE"
    BY <1>1 DEF SetParity, Turn, ParityOn, ParityOff, ParityOf
<1>2. CASE parity = "EVEN"
    BY <1>2 DEF SetParity, Turn, ParityOn, ParityOff, ParityOf
<1>3. CASE parity = "ODD"
    BY <1>3 DEF SetParity, Turn, ParityOn, ParityOff, ParityOf
<1>4. CASE parity = "MARK"
    BY <1>4 DEF SetParity, Turn, ParityOn, ParityOff, ParityOf
<1>5. CASE parity = "SPACE"
    BY <1>5 DEF SetParity, Turn, ParityOn, ParityOff, ParityOf
<1> QED
    BY <1>1, <1>2, <1>3, <1>4, <1>5 DEF Parities

\* The flags that say the parity are those that set_parity moves, and no others.
LEMMA ParityStays ==
    ASSUME NEW flags, NEW more,
           \A f \in {"PARENB", "PARODD", "CMSPAR"} : f \in flags <=> f \in more
    PROVE  ParityOf(flags) = ParityOf(more)
BY DEF ParityOf

\* What configure_port writes does what it was asked for.
LEMMA ConfiguredAgrees ==
    ASSUME NEW tty0, NEW config, NEW new \in Configured(tty0, config),
           config.xonxoff \in BOOLEAN, config.rtscts \in BOOLEAN
    PROVE  Agrees(new, config)
<1> DEFINE f0 == Turn(tty0.flags, {"CLOCAL", "CREAD"}, Cooking \cup Translations)
           f1 == SetParity(f0, config.parity)
           f2 == SetStopbits(f1, config.stopbits)
           f3 == SetXonxoff(f2, config.xonxoff)
           f4 == SetRtscts(f3, config.rtscts)
<1>1. Known(config)
    BY DEF Configured
<1>2. PICK ic \in IcTimeouts(config.inter_byte_timeout) :
          new = [speed |-> Speeds[config.baudrate + 1], size |-> config.bytesize + 5,
                 flags |-> f4, vmin |-> ic[1], vtime |-> ic[2]]
    BY <1>1 DEF Configured
<1>3. /\ new.speed = Speeds[config.baudrate + 1] /\ new.size = config.bytesize + 5
      /\ new.flags = f4 /\ new.vmin = ic[1]
    BY <1>2
<1>4. new.vmin = IF config.inter_byte_timeout < 0 THEN 0 ELSE 1
    BY <1>3 DEF IcTimeouts
<1>5. ParityOf(f1) = config.parity \/ ("CMSPAR" \in f1 /\ config.parity \in {"EVEN", "ODD"})
    BY <1>1, ParityIsSet DEF Known
<1>6. \A f \in {"PARENB", "PARODD", "CMSPAR"} : f \in f4 <=> f \in f1
    BY DEF SetStopbits, SetXonxoff, SetRtscts, FlowFlags
<1>7. ParityOf(f4) = config.parity \/ Stuck(f4, config)
    <2>1. ParityOf(f1) = ParityOf(f4)
        <3> HIDE DEF f1, f4
        <3> QED
            BY <1>6, ParityStays
    <2> QED
        BY <1>5, <1>6, <2>1 DEF Stuck
<1>8. "CSTOPB" \in f4 <=> config.stopbits # 0
    BY DEF SetStopbits, SetXonxoff, SetRtscts, FlowFlags
<1>9. "CRTSCTS" \in f4 <=> config.rtscts
    BY DEF SetRtscts
<1>10. {"IXON", "IXOFF"} \cap f4 = IF config.xonxoff THEN {"IXON", "IXOFF"} ELSE {}
    <2> HIDE DEF f2
    <2> QED
        BY DEF SetXonxoff, SetRtscts, FlowFlags
<1>11. \A f \in {"CLOCAL", "CREAD"} \cup Cooking \cup Translations : f \in f4 <=> f \in f0
    <2>1. \A f \in {"CLOCAL", "CREAD"} \cup Cooking \cup Translations :
              f \notin {"PARENB", "PARODD", "CMSPAR", "CSTOPB", "CRTSCTS"} \cup FlowFlags
        BY DEF Cooking, Translations, FlowFlags
    <2>2. \A f : f \notin {"PARENB", "PARODD", "CMSPAR"} => (f \in f1 <=> f \in f0)
        <3> HIDE DEF f0
        <3>1. ParityOn(config.parity) \subseteq {"PARENB", "PARODD", "CMSPAR"}
            BY <1>1 DEF Known, Parities, ParityOn
        <3>2. ParityOff(config.parity) \subseteq {"PARENB", "PARODD", "CMSPAR"}
            BY <1>1 DEF Known, Parities, ParityOff
        <3> QED
            BY <3>1, <3>2 DEF SetParity, Turn
    <2> HIDE DEF f1
    <2>3. \A f : f \notin {"CSTOPB", "CRTSCTS"} \cup FlowFlags => (f \in f4 <=> f \in f1)
        BY DEF SetStopbits, SetXonxoff, SetRtscts, FlowFlags
    <2> QED
        BY <2>1, <2>2, <2>3
<1>12. {"CLOCAL", "CREAD"} \subseteq f0 /\ f0 \cap (Cooking \cup Translations) = {}
    BY DEF Turn, Cooking, Translations
<1> HIDE DEF f0, f1, f2, f3, f4
<1>13. {"CLOCAL", "CREAD"} \subseteq f4 /\ f4 \cap (Cooking \cup Translations) = {}
    BY <1>11, <1>12
<1> QED
    BY <1>3, <1>4, <1>7, <1>8, <1>9, <1>10, <1>13 DEF Agrees

\* A time of at least 0 whose tenths fit the type is not changed.
LEMMA TimeFits ==
    ASSUME NEW timeout \in Nat, timeout * 10 < 2 ^ (IntWidth - 1)
    PROVE  Wrapped(timeout * 10) = timeout * 10
<1>1. PICK half \in Nat \ {0} : half = 2 ^ (IntWidth - 1) /\ 2 ^ IntWidth = 2 * half
    BY WidthAssumption
<1>2. PICK n \in Nat : n = timeout * 10
    OBVIOUS
<1>3. Wrapped(n) = ((n + half) % (2 * half)) - half
    BY <1>1 DEF Wrapped
<1>4. n < half
    BY <1>1, <1>2
<1>5. (n + half) % (2 * half) = n + half
    <2>1. n + half \in Nat /\ 2 * half \in Nat \ {0} /\ n + half < 2 * half
        BY <1>4
    <2>2. \A a \in Nat, b \in Nat \ {0} : a < b => a % b = a
        OBVIOUS
    <2> QED
        BY <2>1, <2>2
<1> QED
    BY <1>2, <1>3, <1>5

\* The time between bytes that is written: none or one pair, and the pair that
\* was asked for if it fits.
LEMMA TimeIsSet ==
    ASSUME NEW timeout \in Int
    PROVE  /\ \A a, b \in IcTimeouts(timeout) : a = b
           /\ timeout * 10 < 2 ^ (IntWidth - 1) =>
                 /\ (IcTimeouts(timeout) = {}) <=> timeout > 25
                 /\ timeout >= 0 => \A ic \in IcTimeouts(timeout) : ic[2] = 10 * timeout
<1>1. CASE timeout < 0
    <2>1. PICK pair : IcTimeouts(timeout) = {pair}
        BY <1>1 DEF IcTimeouts
    <2>2. ~(timeout >= 0) /\ ~(timeout > 25)
        BY <1>1
    <2> QED
        BY <2>1, <2>2
<1>2. CASE timeout >= 0
    <2> DEFINE product == Wrapped(timeout * 10)
               pair == <<1, (product % 256)>>
    <2>1. IcTimeouts(timeout) = IF product <= 255 THEN {pair} ELSE {}
        BY <1>2 DEF IcTimeouts
    <2>2. pair[2] = product % 256
        OBVIOUS
    <2>3. \A n \in Nat : n <= 255 => n % 256 = n
        OBVIOUS
    <2>4. timeout * 10 < 2 ^ (IntWidth - 1) => product = 10 * timeout
        BY <1>2, TimeFits
    <2> HIDE DEF product, pair
    <2>5. ASSUME timeout * 10 < 2 ^ (IntWidth - 1)
          PROVE  (IcTimeouts(timeout) = {}) <=> timeout > 25
        <3>1. product <= 255 <=> timeout <= 25
            BY <1>2, <2>4, <2>5
        <3>2. CASE timeout <= 25
            BY <2>1, <3>1, <3>2
        <3>3. CASE timeout > 25
            BY <2>1, <3>1, <3>3
        <3> QED
            BY <3>2, <3>3
    <2>6. ASSUME timeout * 10 < 2 ^ (IntWidth - 1), NEW ic \in IcTimeouts(timeout)
          PROVE  ic[2] = 10 * timeout
        <3>1. product <= 255 /\ ic = pair
            BY <2>1, <2>6
        <3>2. product \in Nat
            BY <1>2, <2>4, <2>6
        <3> QED
            BY <2>2, <2>3, <2>4, <2>6, <3>1, <3>2
    <2>7. \A a, b \in IcTimeouts(timeout) : a = b
        BY <2>1
    <2> QED
        BY <2>5, <2>6, <2>7
<1> QED
    BY <1>1, <1>2

\* To ask again for what the flags already say changes none of them.
LEMMA FlagsRest ==
    ASSUME NEW flags, NEW config, Known(config),
           config.xonxoff \in BOOLEAN, config.rtscts \in BOOLEAN
    PROVE  LET Asked(f) == SetRtscts(SetXonxoff(SetStopbits(SetParity(
                  Turn(f, {"CLOCAL", "CREAD"}, Cooking \cup Translations),
                  config.parity), config.stopbits), config.xonxoff), config.rtscts)
           IN  Asked(Asked(flags)) = Asked(flags)
<1> DEFINE f0 == Turn(flags, {"CLOCAL", "CREAD"}, Cooking \cup Translations)
           f1 == SetParity(f0, config.parity)
           f2 == SetStopbits(f1, config.stopbits)
           f3 == SetXonxoff(f2, config.xonxoff)
           f4 == SetRtscts(f3, config.rtscts)
           old == {"CLOCAL", "CREAD"} \cup Cooking \cup Translations
           par == {"PARENB", "PARODD", "CMSPAR"}
<1>1. /\ ParityOn(config.parity) \subseteq par /\ ParityOff(config.parity) \subseteq par
      /\ ParityOn(config.parity) \cap ParityOff(config.parity) = {}
    BY DEF Known, Parities, ParityOn, ParityOff
<1>2. \A f \in old : f \notin par \cup {"CSTOPB", "CRTSCTS"} \cup FlowFlags
    BY DEF Cooking, Translations, FlowFlags
<1>3. \A f \in par : f \notin {"CSTOPB", "CRTSCTS"} \cup FlowFlags
    BY DEF FlowFlags
<1>4. \A f : f \notin {"CSTOPB", "CRTSCTS"} \cup FlowFlags => (f \in f4 <=> f \in f1)
    <2> HIDE DEF f1
    <2> QED
        BY DEF SetStopbits, SetXonxoff, SetRtscts, FlowFlags
<1>5. Turn(f4, {"CLOCAL", "CREAD"}, Cooking \cup Translations) = f4
    <2>1. {"CLOCAL", "CREAD"} \subseteq f0 /\ f0 \cap (Cooking \cup Translations) = {}
        BY DEF Turn, Cooking, Translations
    <2>2. \A f \in old : f \in f4 <=> f \in f0
        <3> HIDE DEF f0, f4
        <3>1. \A f \in old : f \in f1 <=> f \in f0
            BY <1>1, <1>2 DEF SetParity, Turn
        <3> QED
            BY <1>2, <1>4, <3>1
    <2> HIDE DEF f0, f4
    <2> QED
        BY <2>1, <2>2 DEF Turn
<1>6. SetParity(f4, config.parity) = f4
    <2>1. ParityOn(config.parity) \subseteq f1 /\ ParityOff(config.parity) \cap f1 = {}
        <3> HIDE DEF f0
        <3> QED
            BY <1>1 DEF SetParity, Turn
    <2> HIDE DEF f1, f4
    <2>2. ParityOn(config.parity) \subseteq f4 /\ ParityOff(config.parity) \cap f4 = {}
        BY <1>1, <1>3, <1>4, <2>1
    <2> QED
        BY <2>2 DEF SetParity, Turn
<1>7. SetStopbits(f4, config.stopbits) = f4
    <2>1. "CSTOPB" \in f4 <=> config.stopbits # 0
        BY DEF SetStopbits, SetXonxoff, SetRtscts, FlowFlags
    <2> HIDE DEF f4
    <2> QED
        BY <2>1 DEF SetStopbits
<1>8. SetXonxoff(f4, config.xonxoff) = f4
    <2> HIDE DEF f2
    <2>1. IF config.xonxoff THEN {"IXON", "IXOFF"} \subseteq f4 ELSE FlowFlags \cap f4 = {}
        BY DEF SetXonxoff, SetRtscts, FlowFlags
    <2> HIDE DEF f4
    <2> QED
        BY <2>1 DEF SetXonxoff
<1>9. SetRtscts(f4, config.rtscts) = f4
    <2> HIDE DEF f3
    <2>1. "CRTSCTS" \in f4 <=> config.rtscts
        BY DEF SetRtscts
    <2> HIDE DEF f4
    <2> QED
        BY <2>1 DEF SetRtscts
<1> HIDE DEF f4
<1>10. SetRtscts(SetXonxoff(SetStopbits(SetParity(
           Turn(f4, {"CLOCAL", "CREAD"}, Cooking \cup Translations),
           config.parity), config.stopbits), config.xonxoff), config.rtscts) = f4
    BY <1>5, <1>6, <1>7, <1>8, <1>9
<1> QED
    BY <1>10 DEF f4

\* What a call with a configuration does to a terminal.
Applied(tty0, config) ==
    LET fits == config.inter_byte_timeout * 10 < 2 ^ (IntWidth - 1)
        new == Configured(tty0, config)
    IN  /\ fits => (new = {} <=> ~Known(config) \/ config.inter_byte_timeout > 25)
        /\ \A t \in new :
              /\ Agrees(t, config)
              /\ fits /\ config.inter_byte_timeout >= 0 => t.vtime = 10 * config.inter_byte_timeout
              /\ Configured(t, config) = {t}
              /\ Known(config)

LEMMA CallApplies ==
    ASSUME NEW tty0, NEW config, config.inter_byte_timeout \in Int,
           config.xonxoff \in BOOLEAN, config.rtscts \in BOOLEAN
    PROVE  Applied(tty0, config)
<1> DEFINE timeout == config.inter_byte_timeout
           Asked(f) == SetRtscts(SetXonxoff(SetStopbits(SetParity(
                  Turn(f, {"CLOCAL", "CREAD"}, Cooking \cup Translations),
                  config.parity), config.stopbits), config.xonxoff), config.rtscts)
           Written(flags, ic) ==
               [speed |-> Speeds[config.baudrate + 1], size |-> config.bytesize + 5,
                flags |-> flags, vmin |-> ic[1], vtime |-> ic[2]]
<1>1. \A t0 : Configured(t0, config) =
          IF ~Known(config) THEN {}
          ELSE {Written(Asked(t0.flags), ic) : ic \in IcTimeouts(timeout)}
    BY DEF Configured
<1>2. Known(config) => Asked(Asked(tty0.flags)) = Asked(tty0.flags)
    BY FlagsRest
<1>3. /\ \A a, b \in IcTimeouts(timeout) : a = b
      /\ timeout * 10 < 2 ^ (IntWidth - 1) =>
            /\ (IcTimeouts(timeout) = {}) <=> timeout > 25
            /\ timeout >= 0 => \A ic \in IcTimeouts(timeout) : ic[2] = 10 * timeout
    BY TimeIsSet
<1>4. \A t \in Configured(tty0, config) : Agrees(t, config)
    BY ConfiguredAgrees
<1> HIDE DEF Asked
<1>5. ASSUME NEW t \in Configured(tty0, config)
      PROVE  /\ timeout * 10 < 2 ^ (IntWidth - 1) /\ timeout >= 0 => t.vtime = 10 * timeout
             /\ Configured(t, config) = {t}
             /\ Known(config)
    <2>1. Known(config)
        BY <1>1
    <2>2. PICK ic \in IcTimeouts(timeout) : t = Written(Asked(tty0.flags), ic)
        BY <1>1, <2>1
    <2>3. t.flags = Asked(tty0.flags) /\ t.vtime = ic[2]
        BY <2>2
    <2>4. Configured(t, config) = {Written(Asked(tty0.flags), c) : c \in IcTimeouts(timeout)}
        BY <1>1, <1>2, <2>1, <2>3
    <2>5. Configured(t, config) = {t}
        <3> HIDE DEF Written
        <3> QED
            BY <1>3, <2>2, <2>4
    <2> QED
        BY <1>3, <2>1, <2>2, <2>3, <2>5
<1>6. Configured(tty0, config) = {} <=> ~Known(config) \/ IcTimeouts(timeout) = {}
    <2> HIDE DEF Written
    <2> QED
        BY <1>1
<1> QED
    BY <1>3, <1>4, <1>5, <1>6 DEF Applied

\* configure_port does what it is asked for, or nothing: whatever the terminal
\* was set to and went through, its speed, size, flags and times follow the
\* last configuration, one that cannot be had is refused, and asking again for
\* the same changes nothing.
THEOREM SettingsAppliedCorrect == TerminalSpec => []SettingsApplied
<1>1. TerminalInit => SettingsApplied
    BY DEF TerminalInit, SettingsApplied
<1>2. ASSUME SettingsApplied, [TerminalNext]_terminalVars
      PROVE  SettingsApplied'
    <2>1. ASSUME NEW config \in Requests, Call(config)
          PROVE  SettingsApplied'
        <3>1. Applied(settings, config)
            BY CallApplies, RequestAssumption
        <3>2. CASE settings' \in Configured(settings, config) /\ result' = "ok"
            BY <2>1, <3>1, <3>2 DEF Call, Applied, SettingsApplied
        <3>3. CASE Configured(settings, config) = {} /\ result' = "EINVAL"
            BY <2>1, <3>1, <3>3 DEF Call, Applied, SettingsApplied
        <3>4. CASE result' = "errno"
            BY <3>4 DEF SettingsApplied
        <3> QED
            BY <2>1, <3>2, <3>3, <3>4 DEF Call
    <2>2. CASE UNCHANGED terminalVars
        BY <1>2, <2>2 DEF terminalVars, SettingsApplied, Agrees, Known
    <2> QED
        BY <1>2, <2>1, <2>2 DEF TerminalNext
<1> QED
    BY <1>1, <1>2, PTL DEF TerminalSpec

-----------------------------------------------------------------------------
(* The inductive invariant.                                                *)

Configs == DOMAIN attr = Objects /\ \A o \in Objects : IsConfig(attr[o])

\* An open object has a descriptor in use, which no other open object of its
\* process has.
Slots ==
    /\ isOpen \in [Objects -> BOOLEAN] /\ synced \in [Objects -> BOOLEAN]
    /\ fd \in [Objects -> Descriptors \cup {-1}]
    /\ files \in [Processes -> [Descriptors -> Ports \cup {NoPort}]]
    /\ \A o \in Objects : isOpen[o] =>
          /\ fd[o] \in Descriptors
          /\ files[Host[o]][fd[o]] \in Ports
    /\ \A o, q \in Objects :
          o # q /\ isOpen[o] /\ isOpen[q] /\ Host[o] = Host[q] => fd[o] # fd[q]

Living == alive \subseteq Objects /\ \A o \in Objects : isOpen[o] => o \in alive

Terminals ==
    /\ DOMAIN tty = Ports /\ DOMAIN setter = Ports
    /\ locks \in [Ports -> Processes \cup {Nobody}]

Inv == Configs /\ Slots /\ Living /\ Terminals

LEMMA ConfigFields ==
    ASSUME NEW config, IsConfig(config)
    PROVE  /\ config.port \in Ports \cup {NoPort}
           /\ config.xonxoff \in BOOLEAN /\ config.rtscts \in BOOLEAN
           /\ config.exclusive \in BOOLEAN
BY DEF IsConfig, Types

LEMMA ConfigStays ==
    ASSUME NEW config, IsConfig(config),
           NEW field \in DOMAIN Types, NEW value \in Types[field]
    PROVE  IsConfig([config EXCEPT ![field] = value])
BY DEF IsConfig

\* The device of an object whose descriptor is in use.
LEMMA DeviceOf ==
    ASSUME Slots, NEW o \in Objects, isOpen[o]
    PROVE  Device(o) = files[Host[o]][fd[o]] /\ Device(o) \in Ports
BY SerialAssumption DEF Slots, Device

\* configure_port touches one terminal; it leaves the locks of other processes
\* alone, and when it is done its own lock and the settings are as asked for.
LEMMA ConfigureEffect ==
    ASSUME Terminals, NEW o \in Objects, NEW d \in Ports, NEW config, IsConfig(config),
           NEW done \in BOOLEAN, ConfigurePort(o, d, config, done)
    PROVE  /\ Terminals'
           /\ \A e \in Ports \ {d} : locks'[e] = locks[e] /\ tty'[e] = tty[e]
                                     /\ setter'[e] = setter[e]
           /\ locks[d] \in Processes \ {Host[o]} => locks'[d] = locks[d]
           /\ done /\ config.exclusive => locks'[d] = Host[o]
           /\ done => setter'[d] = o /\ Agrees(tty'[d], config)
           /\ ~done => tty' = tty /\ setter' = setter
<1>1. Host[o] \in Processes /\ Nobody \notin Processes
    BY SerialAssumption
<1>2. config.xonxoff \in BOOLEAN /\ config.rtscts \in BOOLEAN /\ config.exclusive \in BOOLEAN
    BY ConfigFields
<1>3. CASE UNCHANGED <<locks, tty, setter>> /\ ~done
    BY <1>3 DEF Terminals
<1>4. ASSUME UpdateLock(Host[o], d, config.exclusive)
      PROVE  /\ locks' \in [Ports -> Processes \cup {Nobody}]
             /\ \A e \in Ports \ {d} : locks'[e] = locks[e]
             /\ locks[d] \in Processes \ {Host[o]} => locks'[d] = locks[d]
             /\ config.exclusive => locks'[d] = Host[o]
    BY <1>1, <1>2, <1>4 DEF UpdateLock, Grants, Terminals
<1>5. CASE ~done /\ UpdateLock(Host[o], d, config.exclusive) /\ UNCHANGED <<tty, setter>>
    BY <1>4, <1>5 DEF Terminals
<1>6. CASE /\ done /\ UpdateLock(Host[o], d, config.exclusive)
           /\ \E new \in Configured(tty[d], config) : tty' = [tty EXCEPT ![d] = new]
           /\ setter' = [setter EXCEPT ![d] = o]
    <2>1. PICK new \in Configured(tty[d], config) : tty' = [tty EXCEPT ![d] = new]
        BY <1>6
    <2>2. Agrees(new, config)
        BY <1>2, ConfiguredAgrees
    <2>3. tty'[d] = new /\ setter'[d] = o
        BY <1>6, <2>1 DEF Terminals
    <2>4. \A e \in Ports \ {d} : tty'[e] = tty[e] /\ setter'[e] = setter[e]
        BY <1>6, <2>1 DEF Terminals
    <2>5. Terminals'
        BY <1>4, <1>6, <2>1 DEF Terminals
    <2> QED
        BY <1>4, <1>6, <2>2, <2>3, <2>4, <2>5
<1> QED
    BY <1>3, <1>5, <1>6 DEF ConfigurePort

-----------------------------------------------------------------------------
(* What the steps do.                                                      *)

\* A step of object o that touches at most the terminal d, and which, if the
\* port is open and in step afterwards, has just applied `config`.
Moves(o, d, config) ==
    /\ \A q \in Objects \ {o} :
          /\ isOpen'[q] = isOpen[q] /\ synced'[q] = synced[q]
          /\ isOpen[q] => Device(q)' = Device(q)
    /\ \A e \in Ports \ {d} :
          locks'[e] = locks[e] /\ tty'[e] = tty[e] /\ setter'[e] = setter[e]
    /\ \A e \in Ports : locks[e] \in Processes \ {Host[o]} => locks'[e] = locks[e]
    /\ d \in Ports => setter'[d] = o \/ (tty'[d] = tty[d] /\ setter'[d] = setter[d])
    /\ isOpen'[o] => Device(o)' = d
    /\ isOpen'[o] /\ synced'[o] =>
          /\ Agrees(tty'[d], config) /\ setter'[d] = o
          /\ config.exclusive => locks'[d] = Host[o]

\* The other open objects of the process are at other terminals than d, or no
\* lock moves and the object of the step is not open afterwards.
OutOfReach(o, d) ==
    \/ locks' = locks /\ ~isOpen'[o]
    \/ \A q \in Objects \ {o} : isOpen[q] /\ Host[q] = Host[o] => Device(q) # d

\* Open objects of one process are at different terminals.
Apart ==
    \A o, q \in Objects :
        o # q /\ isOpen[o] /\ isOpen[q] /\ Host[o] = Host[q] => Device(o) # Device(q)

LEMMA OpenMoves ==
    ASSUME Slots, Terminals, NEW o \in Objects, NEW config, IsConfig(config), OpenWith(o, config)
    PROVE  /\ Slots' /\ Terminals'
           /\ Moves(o, config.port, config)
           /\ OneOpener => OutOfReach(o, config.port)
<1> DEFINE d == config.port
           h == Host[o]
<1>1. d \in Ports /\ h \in Processes /\ ~isOpen[o] /\ MayOpen(o, d)
    BY ConfigFields, SerialAssumption DEF OpenWith
<1>2. OneOpener => OutOfReach(o, d)
    BY <1>1 DEF MayOpen, OutOfReach
<1>3. CASE fd' = [fd EXCEPT ![o] = -1] /\ UNCHANGED <<isOpen, synced, files, terminal>>
    <2>1. Slots'
        BY <1>1, <1>3 DEF Slots
    <2>2. Terminals'
        BY <1>3 DEF Terminals, terminal
    <2>3. \A q \in Objects \ {o} : Device(q)' = Device(q)
        BY <1>3 DEF Device, Slots
    <2>4. Moves(o, d, config)
        BY <1>1, <1>3, <2>3 DEF Moves, terminal
    <2> QED
        BY <1>2, <2>1, <2>2, <2>4
<1>4. ASSUME NEW n \in Descriptors, files[h][n] = NoPort,
             fd' = [fd EXCEPT ![o] = n], files' = [files EXCEPT ![h][n] = d],
             NEW done \in BOOLEAN, ConfigurePort(o, d, config, done),
             NEW opened \in BOOLEAN, opened => done,
             isOpen' = [isOpen EXCEPT ![o] = opened],
             synced' = [synced EXCEPT ![o] = IF opened THEN TRUE ELSE synced'[o]],
             synced'[o] \in BOOLEAN
      PROVE  Slots' /\ Terminals' /\ Moves(o, d, config)
    <2>1. files' \in [Processes -> [Descriptors -> Ports \cup {NoPort}]]
        BY <1>1, <1>4 DEF Slots
    <2>2. files'[h][n] = d /\ fd'[o] = n
        BY <1>1, <1>4 DEF Slots
    <2>3. \A q \in Objects \ {o} : isOpen[q] =>
              fd'[q] = fd[q] /\ files'[Host[q]][fd[q]] = files[Host[q]][fd[q]]
        BY <1>1, <1>4, SerialAssumption DEF Slots
    <2>4. \A q \in Objects \ {o} : isOpen[q] /\ Host[q] = h => fd[q] # n
        BY <1>4, SerialAssumption DEF Slots
    <2>5. \A q \in Objects \ {o} : isOpen'[q] = isOpen[q] /\ synced'[q] = synced[q]
        BY <1>4 DEF Slots
    <2>6. Slots'
        <3>1. /\ isOpen' \in [Objects -> BOOLEAN] /\ synced' \in [Objects -> BOOLEAN]
              /\ fd' \in [Objects -> Descriptors \cup {-1}]
            BY <1>4 DEF Slots
        <3>2. \A q \in Objects : isOpen'[q] =>
                  fd'[q] \in Descriptors /\ files'[Host[q]][fd'[q]] \in Ports
            BY <1>1, <1>4, <2>2, <2>3, <2>5 DEF Slots
        <3>3. \A q, r \in Objects :
                  q # r /\ isOpen'[q] /\ isOpen'[r] /\ Host[q] = Host[r] => fd'[q] # fd'[r]
            BY <2>2, <2>3, <2>4, <2>5 DEF Slots
        <3> QED
            BY <2>1, <3>1, <3>2, <3>3 DEF Slots
    <2>7. \A q \in Objects \ {o} : isOpen[q] => Device(q)' = Device(q)
        BY <2>3 DEF Device
    <2>8. Device(o)' = d
        BY <2>2, SerialAssumption DEF Device
    <2>9. /\ Terminals'
          /\ \A e \in Ports \ {d} : locks'[e] = locks[e] /\ tty'[e] = tty[e]
                                    /\ setter'[e] = setter[e]
          /\ locks[d] \in Processes \ {h} => locks'[d] = locks[d]
          /\ done /\ config.exclusive => locks'[d] = h
          /\ done => setter'[d] = o /\ Agrees(tty'[d], config)
          /\ ~done => tty' = tty /\ setter' = setter
        BY <1>1, <1>4, ConfigureEffect
    <2>10. isOpen'[o] = opened
        BY <1>4 DEF Slots
    <2>11. Moves(o, d, config)
        BY <1>1, <1>4, <2>5, <2>7, <2>8, <2>9, <2>10 DEF Moves
    <2> QED
        BY <2>6, <2>9, <2>11
<1>5. ASSUME NEW n \in Descriptors, files[h][n] = NoPort,
             fd' = [fd EXCEPT ![o] = n], files' = [files EXCEPT ![h][n] = d],
             ConfigurePort(o, d, config, FALSE), UNCHANGED <<isOpen, synced, lines>>
      PROVE  Slots' /\ Terminals' /\ Moves(o, d, config)
    <2>1. isOpen' = [isOpen EXCEPT ![o] = FALSE]
        BY <1>1, <1>5 DEF Slots
    <2>2. synced' = [synced EXCEPT ![o] = IF FALSE THEN TRUE ELSE synced'[o]] /\ synced'[o] \in BOOLEAN
        BY <1>5 DEF Slots
    <2> QED
        BY <1>4, <1>5, <2>1, <2>2
<1>6. ASSUME NEW n \in Descriptors, files[h][n] = NoPort,
             fd' = [fd EXCEPT ![o] = n], files' = [files EXCEPT ![h][n] = d],
             ConfigurePort(o, d, config, TRUE), NEW opened \in BOOLEAN,
             isOpen' = [isOpen EXCEPT ![o] = opened], synced' = [synced EXCEPT ![o] = opened]
      PROVE  Slots' /\ Terminals' /\ Moves(o, d, config)
    <2>1. synced'[o] = opened
        BY <1>6 DEF Slots
    <2>2. synced' = [synced EXCEPT ![o] = IF opened THEN TRUE ELSE synced'[o]]
        BY <1>6, <2>1
    <2> QED
        BY <1>4, <1>6, <2>1, <2>2
<1> HIDE DEF d, h
<1>7. \/ fd' = [fd EXCEPT ![o] = -1] /\ UNCHANGED <<isOpen, synced, files, terminal>>
      \/ \E n \in Descriptors :
            /\ files[h][n] = NoPort /\ fd' = [fd EXCEPT ![o] = n]
            /\ files' = [files EXCEPT ![h][n] = d]
            /\ \/ /\ ConfigurePort(o, d, config, FALSE)
                  /\ UNCHANGED <<isOpen, synced, lines>>
               \/ /\ ConfigurePort(o, d, config, TRUE)
                  /\ \E opened \in BOOLEAN :
                        /\ isOpen' = [isOpen EXCEPT ![o] = opened]
                        /\ synced' = [synced EXCEPT ![o] = opened]
    BY DEF OpenWith, d, h
<1> QED
    BY <1>2, <1>3, <1>5, <1>6, <1>7 DEF d

\* What a step of o does that applies attributes, or closes.
Works(o) ==
    /\ Inv'
    /\ \A q \in Objects \ {o} : attr'[q] = attr[q]
    /\ \E d \in Ports \cup {NoPort} :
          Moves(o, d, attr'[o]) /\ (OneOpener /\ Apart => OutOfReach(o, d))

LEMMA ConstructWorks ==
    ASSUME Inv, NEW o \in Objects, NEW config \in Attributes, Construct(o, config)
    PROVE  Works(o)
<1>1. IsConfig(config)
    BY SerialAssumption
<1>2. CASE /\ config.port = NoPort /\ alive' = alive \cup {o}
           /\ attr' = [attr EXCEPT ![o] = config]
           /\ UNCHANGED <<isOpen, fd, synced, files, terminal>>
    <2>1. ~isOpen[o]
        BY DEF Construct, Inv, Living
    <2>2. Inv'
        BY <1>1, <1>2 DEF Inv, Configs, Slots, Living, Terminals, terminal
    <2>3. \A q \in Objects \ {o} : attr'[q] = attr[q]
        BY <1>2 DEF Inv, Configs
    <2>4. Moves(o, NoPort, attr'[o])
        BY <1>2, <2>1, SerialAssumption DEF Moves, Device, terminal
    <2>5. OutOfReach(o, NoPort)
        BY <1>2, <2>1 DEF OutOfReach, terminal
    <2> QED
        BY <2>2, <2>3, <2>4, <2>5 DEF Works
<1>3. CASE /\ OpenWith(o, config)
           /\ alive' = alive \cup {q \in {o} : isOpen'[o]}
           /\ attr' = [attr EXCEPT ![o] = IF isOpen'[o] THEN config ELSE @]
    <2>1. /\ Slots' /\ Terminals' /\ Moves(o, config.port, config)
          /\ OneOpener => OutOfReach(o, config.port)
        BY <1>1, <1>3, OpenMoves DEF Inv
    <2>2. Configs'
        BY <1>1, <1>3 DEF Inv, Configs
    <2>3. Living'
        BY <1>3, <2>1 DEF Inv, Living, Moves
    <2>4. \A q \in Objects \ {o} : attr'[q] = attr[q]
        BY <1>3 DEF Inv, Configs
    <2>5. isOpen'[o] => attr'[o] = config
        BY <1>3 DEF Inv, Configs
    <2>6. Moves(o, config.port, attr'[o])
        BY <2>1, <2>5 DEF Moves
    <2>7. config.port \in Ports \cup {NoPort}
        BY <1>1, ConfigFields
    <2> QED
        BY <2>1, <2>2, <2>3, <2>4, <2>6, <2>7 DEF Works, Inv
<1> QED
    BY <1>2, <1>3 DEF Construct

LEMMA OpenWorks ==
    ASSUME Inv, NEW o \in Objects, Open(o)
    PROVE  Works(o)
<1>1. IsConfig(attr[o])
    BY DEF Inv, Configs
<1>2. OpenWith(o, attr[o]) /\ UNCHANGED <<alive, attr>> /\ o \in alive
    BY DEF Open
<1>3. /\ Slots' /\ Terminals' /\ Moves(o, attr[o].port, attr[o])
      /\ OneOpener => OutOfReach(o, attr[o].port)
    BY <1>1, <1>2, OpenMoves DEF Inv
<1>4. Configs' /\ Living'
    BY <1>2, <1>3 DEF Inv, Configs, Living, Moves
<1>5. attr[o].port \in Ports \cup {NoPort}
    BY <1>1, ConfigFields
<1> QED
    BY <1>2, <1>3, <1>4, <1>5 DEF Works, Inv

LEMMA CloseMoves ==
    ASSUME Slots, Terminals, NEW o \in Objects, CloseDescriptor(o),
           fd' = fd \/ fd' = [fd EXCEPT ![o] = -1], NEW config
    PROVE  /\ Slots' /\ Terminals' /\ ~isOpen'[o]
           /\ \E d \in Ports \cup {NoPort} :
                 Moves(o, d, config) /\ (Apart => OutOfReach(o, d))
<1>1. /\ isOpen' = [isOpen EXCEPT ![o] = FALSE] /\ synced' = [synced EXCEPT ![o] = FALSE]
      /\ UNCHANGED <<tty, setter>> /\ Host[o] \in Processes
    BY SerialAssumption DEF CloseDescriptor, Closed
<1>2. \A q \in Objects \ {o} :
          isOpen'[q] = isOpen[q] /\ synced'[q] = synced[q] /\ fd'[q] = fd[q]
    BY <1>1 DEF Slots
<1>3. ~isOpen'[o]
    BY <1>1 DEF Slots
<1>4. /\ isOpen' \in [Objects -> BOOLEAN] /\ synced' \in [Objects -> BOOLEAN]
      /\ fd' \in [Objects -> Descriptors \cup {-1}]
    BY <1>1 DEF Slots
<1>5. CASE ~isOpen[o]
    <2>1. UNCHANGED <<files, locks>>
        BY <1>5 DEF CloseDescriptor
    <2>2. Slots'
        BY <1>2, <1>3, <1>4, <2>1 DEF Slots
    <2>3. Terminals'
        BY <1>1, <2>1 DEF Terminals
    <2>4. \A q \in Objects \ {o} : isOpen[q] => Device(q)' = Device(q)
        BY <1>2, <2>1 DEF Device
    <2>5. Moves(o, NoPort, config) /\ OutOfReach(o, NoPort)
        BY <1>1, <1>2, <1>3, <2>1, <2>4 DEF Moves, OutOfReach
    <2> QED
        BY <1>3, <2>2, <2>3, <2>5
<1>6. CASE isOpen[o]
    <2>1. /\ files' = [files EXCEPT ![Host[o]][fd[o]] = NoPort]
          /\ locks' = [d \in Ports |-> IF d = Device(o) /\ locks[d] = Host[o]
                                       THEN Nobody ELSE locks[d]]
        BY <1>6 DEF CloseDescriptor
    <2>2. Device(o) \in Ports
        BY <1>6, DeviceOf
    <2>3. \A q \in Objects \ {o} : isOpen[q] => files'[Host[q]][fd[q]] = files[Host[q]][fd[q]]
        BY <1>6, <2>1, SerialAssumption DEF Slots
    <2>4. files' \in [Processes -> [Descriptors -> Ports \cup {NoPort}]]
        BY <1>1, <2>1 DEF Slots
    <2>5. Slots'
        <3>1. ASSUME NEW q \in Objects, isOpen'[q]
              PROVE  q # o /\ isOpen[q] /\ fd'[q] = fd[q] /\ files'[Host[q]][fd[q]] = files[Host[q]][fd[q]]
            BY <1>2, <1>3, <2>3, <3>1
        <3>2. \A q \in Objects : isOpen'[q] => fd'[q] \in Descriptors /\ files'[Host[q]][fd'[q]] \in Ports
            BY <3>1 DEF Slots
        <3>3. \A q, r \in Objects :
                  q # r /\ isOpen'[q] /\ isOpen'[r] /\ Host[q] = Host[r] => fd'[q] # fd'[r]
            BY <3>1 DEF Slots
        <3> QED
            BY <1>4, <2>4, <3>2, <3>3 DEF Slots
    <2>6. Terminals'
        BY <1>1, <2>1 DEF Terminals
    <2>7. \A q \in Objects \ {o} : isOpen[q] => Device(q)' = Device(q)
        BY <1>2, <2>3 DEF Device
    <2>8. \A e \in Ports : /\ e # Device(o) => locks'[e] = locks[e]
                           /\ locks[e] \in Processes \ {Host[o]} => locks'[e] = locks[e]
        BY <2>1
    <2>9. Moves(o, Device(o), config)
        <3> SUFFICES ASSUME NEW d \in Ports, d = Device(o) PROVE Moves(o, d, config)
            BY <2>2
        <3>1. \A e \in Ports \ {d} :
                  locks'[e] = locks[e] /\ tty'[e] = tty[e] /\ setter'[e] = setter[e]
            BY <1>1, <2>8
        <3>2. \A e \in Ports : locks[e] \in Processes \ {Host[o]} => locks'[e] = locks[e]
            BY <2>8
        <3>3. \A r \in Objects \ {o} :
                  /\ isOpen'[r] = isOpen[r] /\ synced'[r] = synced[r]
                  /\ isOpen[r] => Device(r)' = Device(r)
            BY <1>2, <2>7
        <3>4. setter'[d] = setter[d] /\ tty'[d] = tty[d]
            BY <1>1
        <3> QED
            BY <1>3, <3>1, <3>2, <3>3, <3>4 DEF Moves
    <2>10. Apart => OutOfReach(o, Device(o))
        BY <1>6 DEF Apart, OutOfReach
    <2> QED
        BY <1>3, <2>2, <2>5, <2>6, <2>9, <2>10
<1> QED
    BY <1>5, <1>6

LEMMA CloseWorks ==
    ASSUME Inv, NEW o \in Objects, Close(o) \/ Destroy(o)
    PROVE  Works(o)
<1>1. CloseDescriptor(o) /\ (fd' = fd \/ fd' = [fd EXCEPT ![o] = -1])
    BY DEF Close, Destroy
<1>2. /\ Slots' /\ Terminals' /\ ~isOpen'[o]
      /\ \E d \in Ports \cup {NoPort} :
            Moves(o, d, attr'[o]) /\ (Apart => OutOfReach(o, d))
    BY <1>1, CloseMoves DEF Inv
<1>3. IsConfig(Unset)
    BY SerialAssumption DEF Unset
<1>4. Configs' /\ \A q \in Objects \ {o} : attr'[q] = attr[q]
    BY <1>3 DEF Close, Destroy, Inv, Configs
<1>5. Living'
    BY <1>2 DEF Close, Destroy, Inv, Living, Moves
<1> QED
    BY <1>2, <1>4, <1>5 DEF Works, Inv

LEMMA SetWorks ==
    ASSUME Inv, NEW o \in Objects, NEW field \in DOMAIN Settable,
           NEW value \in Settable[field], Set(o, field, value)
    PROVE  Works(o)
<1>1. field \in DOMAIN Types /\ value \in Types[field]
    BY SerialAssumption
<1>2. attr'[o] = [attr[o] EXCEPT ![field] = value] /\ DOMAIN attr' = Objects
    BY DEF Set, Inv, Configs
<1>3. IsConfig(attr'[o])
    <2> DEFINE config == attr[o]
    <2>1. IsConfig(config)
        BY DEF Inv, Configs
    <2> HIDE DEF config
    <2>2. IsConfig([config EXCEPT ![field] = value])
        BY <1>1, <2>1, ConfigStays
    <2> QED
        BY <1>2, <2>2 DEF config
<1>4. \A q \in Objects \ {o} : attr'[q] = attr[q]
    BY DEF Set, Inv, Configs
<1>5. Configs'
    BY <1>2, <1>3, <1>4 DEF Inv, Configs
<1>6. UNCHANGED <<alive, isOpen, fd, files>>
    BY DEF Set
<1>7. Living'
    BY <1>6 DEF Inv, Living
<1>8. \A q \in Objects : Device(q)' = Device(q)
    BY <1>6 DEF Device
<1>9. CASE ~isOpen[o] /\ UNCHANGED <<synced, locks, tty, setter>>
    <2>1. Slots' /\ Terminals'
        BY <1>6, <1>9 DEF Inv, Slots, Terminals
    <2>2. Moves(o, NoPort, attr'[o]) /\ OutOfReach(o, NoPort)
        BY <1>6, <1>8, <1>9 DEF Moves, OutOfReach
    <2> QED
        BY <1>4, <1>5, <1>7, <2>1, <2>2 DEF Works, Inv
<1>10. ASSUME NEW done \in BOOLEAN, isOpen[o], ConfigurePort(o, Device(o), attr'[o], done),
              synced' = [synced EXCEPT ![o] = done]
       PROVE  Works(o)
    <2>1. Device(o) \in Ports
        BY <1>10, DeviceOf DEF Inv
    <2>2. Slots'
        BY <1>6, <1>10 DEF Inv, Slots
    <2>3. /\ Terminals'
          /\ \A e \in Ports \ {Device(o)} : locks'[e] = locks[e] /\ tty'[e] = tty[e]
                                            /\ setter'[e] = setter[e]
          /\ locks[Device(o)] \in Processes \ {Host[o]} => locks'[Device(o)] = locks[Device(o)]
          /\ done /\ attr'[o].exclusive => locks'[Device(o)] = Host[o]
          /\ done => setter'[Device(o)] = o /\ Agrees(tty'[Device(o)], attr'[o])
          /\ ~done => tty' = tty /\ setter' = setter
        <3> DEFINE config == attr'[o]
        <3> HIDE DEF config
        <3>1. IsConfig(config) /\ ConfigurePort(o, Device(o), config, done)
            BY <1>3, <1>10 DEF config
        <3>2. /\ Terminals'
              /\ \A e \in Ports \ {Device(o)} : locks'[e] = locks[e] /\ tty'[e] = tty[e]
                                                /\ setter'[e] = setter[e]
              /\ locks[Device(o)] \in Processes \ {Host[o]} => locks'[Device(o)] = locks[Device(o)]
              /\ done /\ config.exclusive => locks'[Device(o)] = Host[o]
              /\ done => setter'[Device(o)] = o /\ Agrees(tty'[Device(o)], config)
              /\ ~done => tty' = tty /\ setter' = setter
            BY <2>1, <3>1, ConfigureEffect DEF Inv
        <3> QED
            BY <3>2 DEF config
    <2>4. synced'[o] = done /\ \A q \in Objects \ {o} : synced'[q] = synced[q]
        BY <1>10 DEF Inv, Slots
    <2>5. Moves(o, Device(o), attr'[o])
        BY <1>6, <1>8, <2>3, <2>4 DEF Moves
    <2>6. Apart => OutOfReach(o, Device(o))
        BY <1>10 DEF Apart, OutOfReach
    <2> QED
        BY <1>4, <1>5, <1>7, <2>1, <2>2, <2>3, <2>5, <2>6 DEF Works, Inv
<1> QED
    BY <1>9, <1>10 DEF Set, Reconfigured

\* The steps that apply no attribute and close nothing.
Rests(o) ==
    /\ Inv'
    /\ UNCHANGED <<isOpen, fd, synced, files, tty, locks, setter>>
    /\ \A q \in Objects : DOMAIN attr'[q] = DOMAIN attr[q]
    /\ \A q \in Objects : \A field \in DOMAIN attr[q] \ {"dsrdtr", "rts", "dtr"} :
          attr'[q][field] = attr[q][field]

LEMMA SetDsrdtrRests ==
    ASSUME Inv, NEW o \in Objects, NEW value \in Dsrdtr, SetDsrdtr(o, value)
    PROVE  Rests(o)
<1>1. attr' = [attr EXCEPT ![o] = [attr[o] EXCEPT !["dsrdtr"] = value]]
    BY DEF SetDsrdtr
<1>2. "dsrdtr" \in DOMAIN Types /\ value \in Types["dsrdtr"]
    BY SerialAssumption DEF Types
<1>3. Configs'
    BY <1>1, <1>2, ConfigStays DEF Inv, Configs
<1>4. Slots' /\ Living' /\ Terminals'
    BY DEF Inv, Slots, Living, Terminals, SetDsrdtr, terminal
<1> QED
    BY <1>1, <1>3, <1>4 DEF Rests, Inv, Configs, SetDsrdtr, terminal

LEMMA SetLineRests ==
    ASSUME Inv, NEW o \in Objects, NEW line \in {"RTS", "DTR"}, NEW state \in States,
           SetLine(o, line, state)
    PROVE  Rests(o)
<1>1. PICK field \in {"rts", "dtr"} :
          attr' = [attr EXCEPT ![o] = [attr[o] EXCEPT ![field] = state]]
    BY DEF SetLine
<1>2. field \in DOMAIN Types /\ state \in Types[field]
    BY SerialAssumption DEF Types
<1>3. Configs'
    BY <1>1, <1>2, ConfigStays DEF Inv, Configs
<1>4. Slots' /\ Living' /\ Terminals'
    BY DEF Inv, Slots, Living, Terminals, SetLine
<1> QED
    BY <1>1, <1>3, <1>4 DEF Rests, Inv, Configs, SetLine

\* Every step is of one of the two kinds.
LEMMA StepKinds ==
    ASSUME Inv, Next
    PROVE  \E o \in Objects : Works(o) \/ Rests(o)
<1>1. PICK o \in Objects :
          \/ \E config \in Attributes : Construct(o, config)
          \/ Open(o) \/ Close(o) \/ Destroy(o)
          \/ \E field \in DOMAIN Settable : \E value \in Settable[field] : Set(o, field, value)
          \/ \E value \in Dsrdtr : SetDsrdtr(o, value)
          \/ \E line \in {"RTS", "DTR"}, state \in States : SetLine(o, line, state)
    BY DEF Next
<1> QED
    BY <1>1, ConstructWorks, OpenWorks, CloseWorks, SetWorks, SetDsrdtrRests, SetLineRests

LEMMA InitInv == Init => Inv
<1> SUFFICES ASSUME Init PROVE Inv
    OBVIOUS
<1>1. IsConfig(Unset)
    BY SerialAssumption DEF Unset
<1> QED
    BY <1>1 DEF Init, Inv, Configs, Slots, Living, Terminals

LEMMA NextInv == Inv /\ [Next]_vars => Inv'
<1> SUFFICES ASSUME Inv, [Next]_vars PROVE Inv'
    OBVIOUS
<1>1. CASE Next
    BY <1>1, StepKinds DEF Works, Rests
<1>2. CASE UNCHANGED vars
    BY <1>2 DEF vars, object, terminal, Inv, Configs, Slots, Living, Terminals
<1> QED
    BY <1>1, <1>2

\* No object reaches a terminal through a descriptor that was closed or that
\* another object of its process opened.
THEOREM HandlesAreOwnedCorrect == Spec => []HandlesAreOwned
<1>1. Inv => HandlesAreOwned
    <2> SUFFICES ASSUME Inv PROVE HandlesAreOwned
        OBVIOUS
    <2>1. \A o \in Objects : isOpen[o] => Device(o) \in Ports
        BY DeviceOf DEF Inv
    <2>2. \A o \in Objects : isOpen[o] => o \in alive /\ fd[o] # -1
        BY SerialAssumption DEF Inv, Slots, Living
    <2>3. \A o \in Objects : isOpen[o] =>
              \A q \in Objects \ {o} : isOpen[q] /\ Host[q] = Host[o] => fd[q] # fd[o]
        BY DEF Inv, Slots
    <2> QED
        BY <2>1, <2>2, <2>3 DEF HandlesAreOwned
<1> QED
    BY <1>1, InitInv, NextInv, PTL DEF Spec

-----------------------------------------------------------------------------
(* Settings and locks.                                                     *)

\* Agrees asks for none of the attributes that dsrdtr, rts and dtr set.
LEMMA AgreesStays ==
    ASSUME NEW tty0, NEW config, NEW more, IsConfig(config), IsConfig(more),
           \A field \in DOMAIN config \ {"dsrdtr", "rts", "dtr"} : more[field] = config[field],
           Agrees(tty0, config)
    PROVE  Agrees(tty0, more)
BY DEF Agrees, Stuck, IsConfig, Types

LEMMA SettingsStep == Inv /\ SettingsFollow /\ [Next]_vars => SettingsFollow'
<1> SUFFICES ASSUME Inv, SettingsFollow, [Next]_vars PROVE SettingsFollow'
    OBVIOUS
<1>1. CASE UNCHANGED vars
    BY <1>1 DEF vars, object, terminal, SettingsFollow, Device
<1>2. ASSUME NEW o \in Objects, Works(o) PROVE SettingsFollow'
    <2>1. PICK d \in Ports \cup {NoPort} : Moves(o, d, attr'[o])
        BY <1>2 DEF Works
    <2> SUFFICES ASSUME NEW q \in Objects, isOpen'[q], synced'[q], setter'[Device(q)'] = q
                 PROVE  Agrees(tty'[Device(q)'], attr'[q])
        BY DEF SettingsFollow
    <2>2. CASE q = o
        BY <2>1, <2>2 DEF Moves
    <2>3. CASE q # o
        <3>1. /\ isOpen[q] /\ synced[q] /\ Device(q)' = Device(q) /\ attr'[q] = attr[q]
            BY <1>2, <2>1, <2>3 DEF Moves, Works
        <3> DEFINE e == Device(q)
        <3>2. e \in Ports
            BY <3>1, DeviceOf DEF Inv
        <3>3. setter[e] = q => Agrees(tty[e], attr[q])
            BY <3>1 DEF SettingsFollow
        <3>4. setter'[e] = q
            BY <3>1
        <3> HIDE DEF e
        <3>5. tty'[e] = tty[e] /\ setter'[e] = setter[e]
            BY <2>1, <2>3, <3>2, <3>4 DEF Moves
        <3>6. Agrees(tty'[e], attr'[q])
            BY <3>1, <3>3, <3>4, <3>5
        <3> QED
            BY <3>1, <3>6 DEF e
    <2> QED
        BY <2>2, <2>3
<1>3. ASSUME NEW o \in Objects, Rests(o) PROVE SettingsFollow'
    <2> SUFFICES ASSUME NEW q \in Objects, isOpen'[q], synced'[q], setter'[Device(q)'] = q
                 PROVE  Agrees(tty'[Device(q)'], attr'[q])
        BY DEF SettingsFollow
    <2>1. isOpen[q] /\ synced[q] /\ Device(q)' = Device(q) /\ setter' = setter /\ tty' = tty
        BY <1>3 DEF Rests, Device
    <2>2. Agrees(tty[Device(q)], attr[q])
        BY <2>1 DEF SettingsFollow
    <2>3. IsConfig(attr[q]) /\ IsConfig(attr'[q])
        BY <1>3 DEF Rests, Inv, Configs
    <2>4. \A field \in DOMAIN attr[q] \ {"dsrdtr", "rts", "dtr"} : attr'[q][field] = attr[q][field]
        BY <1>3 DEF Rests
    <2>5. Agrees(tty[Device(q)], attr'[q])
        BY <2>2, <2>3, <2>4, AgreesStays
    <2> QED
        BY <2>1, <2>5
<1> QED
    BY <1>1, <1>2, <1>3, StepKinds

\* Whatever fails on the way, an object that last configured its terminal, and
\* whose last call that had to did not throw, finds there what its attributes
\* say.
THEOREM SettingsFollowCorrect == Spec => []SettingsFollow
<1>1. Init => SettingsFollow
    BY DEF Init, SettingsFollow
<1> QED
    BY <1>1, InitInv, NextInv, SettingsStep, PTL DEF Spec

LEMMA ExclusiveStep ==
    ASSUME OneOpener
    PROVE  Inv /\ Apart /\ ExclusiveIsHeld /\ [Next]_vars => (Apart /\ ExclusiveIsHeld)'
<1> SUFFICES ASSUME Inv, Apart, ExclusiveIsHeld, [Next]_vars PROVE (Apart /\ ExclusiveIsHeld)'
    OBVIOUS
<1>1. CASE UNCHANGED vars
    BY <1>1 DEF vars, object, terminal, Apart, ExclusiveIsHeld, Device
<1>2. ASSUME NEW o \in Objects, Works(o) PROVE (Apart /\ ExclusiveIsHeld)'
    <2>1. PICK d \in Ports \cup {NoPort} : Moves(o, d, attr'[o]) /\ OutOfReach(o, d)
        BY <1>2 DEF Works
    <2>2. \A q \in Objects \ {o} : isOpen'[q] =>
              isOpen[q] /\ Device(q)' = Device(q) /\ synced'[q] = synced[q] /\ attr'[q] = attr[q]
        BY <1>2, <2>1 DEF Moves, Works
    <2>3. isOpen'[o] =>
              /\ Device(o)' = d
              /\ \A q \in Objects \ {o} : isOpen'[q] /\ Host[q] = Host[o] => Device(q)' # d
        BY <2>1, <2>2 DEF Moves, OutOfReach
    <2>4. Apart'
        BY <2>2, <2>3 DEF Apart
    <2>5. ASSUME NEW q \in Objects, isOpen'[q], synced'[q], attr'[q].exclusive
          PROVE  locks'[Device(q)'] = Host[q]
        <3>1. CASE q = o
            BY <2>1, <2>5, <3>1 DEF Moves
        <3>2. CASE q # o
            <4>1. /\ isOpen[q] /\ Device(q)' = Device(q) /\ locks[Device(q)] = Host[q]
                BY <2>2, <2>5, <3>2 DEF ExclusiveIsHeld
            <4> DEFINE e == Device(q)
            <4>2. e \in Ports
                BY <4>1, DeviceOf DEF Inv
            <4>3. Host[q] = Host[o] => e # d \/ locks' = locks
                BY <2>1, <3>2, <4>1 DEF OutOfReach
            <4>4. locks[e] = Host[q] /\ Host[q] \in Processes
                BY <4>1, SerialAssumption
            <4> HIDE DEF e
            <4>5. locks'[e] = locks[e]
                BY <2>1, <4>2, <4>3, <4>4 DEF Moves
            <4> QED
                BY <4>1, <4>4, <4>5 DEF e
        <3> QED
            BY <3>1, <3>2
    <2>6. ExclusiveIsHeld'
        BY <2>5 DEF ExclusiveIsHeld
    <2> QED
        BY <2>4, <2>6
<1>3. ASSUME NEW o \in Objects, Rests(o) PROVE (Apart /\ ExclusiveIsHeld)'
    <2>1. UNCHANGED <<isOpen, synced, locks>> /\ \A q \in Objects : Device(q)' = Device(q)
        BY <1>3 DEF Rests, Device
    <2>2. \A q \in Objects : attr'[q].exclusive = attr[q].exclusive
        BY <1>3 DEF Rests, Inv, Configs, IsConfig, Types
    <2> QED
        BY <2>1, <2>2 DEF Apart, ExclusiveIsHeld
<1> QED
    BY <1>1, <1>2, <1>3, StepKinds

\* If no process opens a port through two objects at once, an object that has
\* exclusive access keeps it until it gives it up, whatever other processes do.
THEOREM ExclusiveIsHeldCorrect == ASSUME OneOpener PROVE Spec => []ExclusiveIsHeld
<1>1. Init => Apart /\ ExclusiveIsHeld
    BY DEF Init, Apart, ExclusiveIsHeld
<1>2. Inv /\ Apart /\ ExclusiveIsHeld /\ [Next]_vars => (Apart /\ ExclusiveIsHeld)'
    BY ExclusiveStep
<1> QED
    BY <1>1, <1>2, InitInv, NextInv, PTL DEF Spec

-----------------------------------------------------------------------------
(* Bytes: the reading side.                                                *)

Bytes == Seq(Nat)

ReadCalls ==
    [op : {"read", "read_all", "read_until"}, state : {"busy", "returned", "threw"}, n : Nat,
     b : Bytes, temp : Bytes, expected : Bytes, wait : Waits, late : BOOLEAN, due : BOOLEAN]

\* No proper beginning of s ends with the ending, or none at all.
NoEarlyEnd(s, expected, k) == \A i \in 1 .. k : ~IsSuffix(expected, SubSeq(s, 1, i))

\* A call that reads: what it has so far is not too much, and not enough while
\* it goes on; what it gave its caller is what was asked for.
ReadOK(call) ==
    /\ call \in ReadCalls
    /\ call.op # "read_until" =>
          /\ call.state = "busy" => call.b = <<>> /\ Len(call.temp) <= call.n
          /\ call.state = "returned" => Len(call.b) = call.n \/ call.late
    /\ call.op = "read_until" =>
          /\ call.late \/ Expired(call.wait) => call.due
          /\ NoEarlyEnd(call.b, call.expected, Len(call.b) - 1)
          /\ call.state = "busy" =>
                /\ call.temp = <<>>
                /\ call.n # 0 => Len(call.b) < call.n
                /\ NoEarlyEnd(call.b, call.expected, Len(call.b))
          /\ call.state = "returned" =>
                \/ call.due \/ Ends(call.b, call.expected)
                \/ call.n # 0 /\ Len(call.b) = call.n

LEMMA SuffixIsShorter ==
    ASSUME NEW s \in Bytes, NEW t \in Bytes, IsSuffix(s, t)
    PROVE  Len(t) >= Len(s)
<1>1. Len(s) \in Nat /\ Len(t) \in Nat
    BY LenProperties DEF Bytes
<1>2. Len(Reverse(s)) = Len(s) /\ Len(Reverse(t)) = Len(t)
    BY <1>1 DEF Reverse, Bytes
<1> QED
    BY <1>2 DEF IsSuffix, IsPrefix

\* What a call has is a tail of what the terminal handed out.
LEMMA TailIsSuffix ==
    ASSUME NEW u \in Bytes, NEW s \in Bytes, NEW t, t = u \o s
    PROVE  IsSuffix(s, t)
<1>1. /\ t \in Bytes /\ Len(t) = Len(u) + Len(s) /\ Len(u) \in Nat /\ Len(s) \in Nat
      /\ \A i \in 1 .. Len(s) : t[Len(u) + i] = s[i]
    BY LenProperties, ConcatProperties DEF Bytes
<1>2. PICK x : x = Reverse(s)
    OBVIOUS
<1>3. PICK y : y = Reverse(t)
    OBVIOUS
<1>4. /\ x \in Bytes /\ Len(x) = Len(s)
      /\ \A i \in 1 .. Len(s) : x[i] = s[(Len(s) - i) + 1]
    BY <1>1, <1>2 DEF Reverse, Bytes
<1>5. /\ y \in Bytes /\ Len(y) = Len(t)
      /\ \A i \in 1 .. Len(t) : y[i] = t[(Len(t) - i) + 1]
    BY <1>1, <1>3 DEF Reverse, Bytes
<1>6. \A i \in 1 .. Len(s) : y[i] = x[i]
    <2> SUFFICES ASSUME NEW i \in 1 .. Len(s)
                 PROVE  y[i] = x[i]
        OBVIOUS
    <2>1. y[i] = t[(Len(t) - i) + 1]
        BY <1>1, <1>5
    <2>2. (Len(s) - i) + 1 \in 1 .. Len(s) /\ (Len(t) - i) + 1 = Len(u) + ((Len(s) - i) + 1)
        BY <1>1
    <2>3. t[Len(u) + ((Len(s) - i) + 1)] = s[(Len(s) - i) + 1]
        BY <1>1, <2>2
    <2> QED
        BY <1>4, <2>1, <2>2, <2>3
<1>7. SubSeq(x, 1, Len(x)) = SubSeq(y, 1, Len(x))
    <2>1. \A i \in 1 .. Len(x) : x[i] \in Nat /\ y[i] \in Nat
        BY <1>4, <1>6, ElementOfSeq DEF Bytes
    <2> DEFINE p == SubSeq(x, 1, Len(x))
               q == SubSeq(y, 1, Len(x))
    <2>2. /\ p \in Seq(Nat) /\ Len(p) = Len(x)
          /\ \A i \in 1 .. Len(x) : p[i] = x[i]
        BY <1>1, <1>4, <2>1, SubSeqProperties
    <2>3. /\ q \in Seq(Nat) /\ Len(q) = Len(x)
          /\ \A i \in 1 .. Len(x) : q[i] = y[i]
        BY <1>1, <1>4, <2>1, SubSeqProperties
    <2> HIDE DEF p, q
    <2>4. p = q
        BY <1>4, <1>6, <2>2, <2>3, SeqEqual
    <2> QED
        BY <2>4 DEF p, q
<1> QED
    BY <1>1, <1>2, <1>3, <1>4, <1>5, <1>7 DEF IsSuffix, IsPrefix

LEMMA BeginningKept ==
    ASSUME NEW s \in Bytes, NEW t \in Bytes, NEW st, st = s \o t, NEW i \in 1 .. Len(s)
    PROVE  SubSeq(st, 1, i) = SubSeq(s, 1, i)
<1>1. 1 \in 1 .. Len(s)
    BY LenProperties DEF Bytes
<1> QED
    BY <1>1, SubSeqOfConcat1 DEF Bytes

\* A pass of the loops moves what was read to the caller, or keeps it for the
\* next pass.
LEMMA PassedReads ==
    ASSUME NEW call, ReadOK(call), Busy(call),
           NEW temp \in Bytes, Len(temp) <= Wanted(call),
           NEW after, after = Passed(call, temp)
    PROVE  ReadOK(after) /\ after.b \o after.temp = call.b \o temp
<1> DEFINE b == call.b \o temp
           over == temp = <<>> \/ Ends(b, call.expected) \/ (call.n # 0 /\ Len(b) >= call.n) \/ call.due
<1>1. /\ call \in ReadCalls /\ call.b \in Bytes /\ Len(call.b) \in Nat /\ Len(temp) \in Nat
      /\ call.n \in Nat /\ call.expected \in Bytes /\ call.wait \in Waits
      /\ <<>> \in Bytes
    BY LenProperties, EmptySeq DEF ReadOK, ReadCalls, Bytes
<1>2. b \in Bytes /\ Len(b) = Len(call.b) + Len(temp) /\ b \o <<>> = b
    BY <1>1, ConcatProperties, ConcatEmptySeq DEF Bytes
<1>3. PICK all : all = b
    OBVIOUS
<1>4. CASE Len(temp) < Wanted(call) /\ ~call.late
    <2>1. after = [call EXCEPT !.temp = temp]
        BY <1>4 DEF Passed
    <2>2. /\ after \in ReadCalls /\ after.temp = temp /\ after.b = call.b
          /\ \A field \in {"op", "state", "n", "expected", "wait", "late", "due"} :
                after[field] = call[field]
        BY <1>1, <2>1 DEF ReadCalls
    <2>3. call.op = "read_until" => temp = <<>>
        BY <1>1, <1>4, EmptySeq DEF Wanted, Bytes
    <2>4. call.op # "read_until" => Len(temp) <= call.n
        BY DEF Wanted
    <2>5. ReadOK(after)
        BY <2>2, <2>3, <2>4 DEF ReadOK, Busy, Ends
    <2> QED
        BY <2>2, <2>5
<1>5. CASE ~(Len(temp) < Wanted(call) /\ ~call.late) /\ call.op # "read_until"
    <2>1. after = [call EXCEPT !.b = all, !.temp = <<>>, !.state = "returned"]
        BY <1>3, <1>5 DEF Passed
    <2>2. /\ after \in ReadCalls /\ after.temp = <<>> /\ after.b = all /\ after.state = "returned"
          /\ after.op = call.op /\ after.n = call.n /\ after.late = call.late
        BY <1>1, <1>2, <1>3, <2>1 DEF ReadCalls
    <2>3. Len(all) = call.n \/ call.late
        <3>1. call.b = <<>> /\ Len(call.b) = 0
            BY <1>5 DEF ReadOK, Busy
        <3> QED
            BY <1>1, <1>2, <1>3, <1>5, <3>1 DEF Wanted
    <2>4. ReadOK(after)
        BY <1>5, <2>2, <2>3 DEF ReadOK
    <2> QED
        BY <1>2, <1>3, <2>2, <2>4
<1>6. CASE ~(Len(temp) < Wanted(call) /\ ~call.late) /\ call.op = "read_until"
    <2>1. /\ call.temp = <<>> /\ NoEarlyEnd(call.b, call.expected, Len(call.b))
          /\ call.n # 0 => Len(call.b) < call.n
          /\ call.late \/ Expired(call.wait) => call.due
        BY <1>6 DEF ReadOK, Busy
    <2>2. Len(temp) <= 1 /\ (temp = <<>> => call.late)
        BY <1>1, <1>6 DEF Wanted
    <2>3. NoEarlyEnd(all, call.expected, Len(all) - 1)
        <3>1. \A i \in 1 .. Len(call.b) : SubSeq(all, 1, i) = SubSeq(call.b, 1, i)
            BY <1>1, <1>2, <1>3, BeginningKept
        <3>2. \A i \in 1 .. Len(all) - 1 : i \in 1 .. Len(call.b)
            BY <1>1, <1>2, <1>3, <2>2
        <3>3. \A i \in 1 .. Len(call.b) : ~IsSuffix(call.expected, SubSeq(call.b, 1, i))
            BY <2>1 DEF NoEarlyEnd
        <3> QED
            BY <3>1, <3>2, <3>3 DEF NoEarlyEnd
    <2>4. CASE over
        <3>1. after = [call EXCEPT !.b = all, !.temp = <<>>, !.state = "returned"]
            BY <1>3, <1>6, <2>4 DEF Passed
        <3>2. /\ after \in ReadCalls /\ after.temp = <<>> /\ after.b = all
              /\ after.state = "returned"
              /\ \A field \in {"op", "n", "expected", "wait", "late", "due"} :
                    after[field] = call[field]
            BY <1>1, <1>2, <1>3, <3>1 DEF ReadCalls
        <3>3. call.due \/ Ends(all, call.expected) \/ (call.n # 0 /\ Len(all) = call.n)
            BY <1>1, <1>2, <1>3, <2>1, <2>2, <2>4
        <3>4. ReadOK(after)
            BY <1>6, <2>1, <2>3, <3>2, <3>3 DEF ReadOK
        <3> QED
            BY <1>2, <1>3, <3>2, <3>4
    <2>5. CASE ~over
        <3>0. PICK late \in BOOLEAN : late = Expired(call.wait)
            BY DEF Expired
        <3>1. after = [call EXCEPT !.b = all, !.temp = <<>>, !.late = late]
            BY <1>3, <1>6, <2>5, <3>0 DEF Passed
        <3>2. /\ after \in ReadCalls /\ after.temp = <<>> /\ after.b = all
              /\ after.late => Expired(call.wait)
              /\ \A field \in {"op", "state", "n", "expected", "wait", "due"} :
                    after[field] = call[field]
            BY <1>1, <1>2, <1>3, <3>0, <3>1 DEF ReadCalls
        <3>3. NoEarlyEnd(all, call.expected, Len(all))
            <4>1. ~IsSuffix(call.expected, all)
                BY <1>1, <1>2, <1>3, <2>5, SuffixIsShorter DEF Ends
            <4>2. SubSeq(all, 1, Len(all)) = all
                BY <1>2, <1>3, SubSeqFull DEF Bytes
            <4>3. \A i \in 1 .. Len(all) : i \in 1 .. Len(all) - 1 \/ i = Len(all)
                BY <1>1, <1>2, <1>3
            <4> QED
                BY <2>3, <4>1, <4>2, <4>3 DEF NoEarlyEnd
        <3>4. call.n # 0 => Len(all) < call.n
            BY <1>1, <1>2, <1>3, <2>5
        <3>5. ReadOK(after)
            BY <1>6, <2>1, <2>3, <3>2, <3>3, <3>4 DEF ReadOK, Busy
        <3> QED
            BY <1>2, <1>3, <3>2, <3>5
    <2> QED
        BY <2>4, <2>5
<1> QED
    BY <1>4, <1>5, <1>6

-----------------------------------------------------------------------------
(* The bytes that arrived.                                                 *)

\* What a reader has is the end of what left the input queue.
Handed(u) == handed = u \o (reader.b \o reader.temp)

InputOK ==
    /\ arrived \in Nat /\ rx \in Bytes /\ handed \in Bytes
    /\ Before(handed \o rx)
    /\ ToSet(handed \o rx) \cup dropped = 1 .. arrived
    /\ ReadOK(reader)
    /\ \E u \in Bytes : Handed(u)

LEMMA ElementsOf ==
    ASSUME NEW s \in Bytes
    PROVE  \A x : x \in ToSet(s) <=> \E i \in 1 .. Len(s) : x = s[i]
<1>1. DOMAIN s = 1 .. Len(s)
    BY LenProperties DEF Bytes
<1> QED
    BY <1>1 DEF ToSet

\* A queue that grows by the next number keeps its order.
LEMMA AppendInOrder ==
    ASSUME NEW s \in Bytes, NEW e \in Nat, Before(s), \A x \in ToSet(s) : x < e,
           NEW t, t = Append(s, e)
    PROVE  t \in Bytes /\ Before(t) /\ ToSet(t) = ToSet(s) \cup {e}
<1>1. /\ t \in Bytes /\ Len(t) = Len(s) + 1 /\ Len(s) \in Nat
      /\ \A i \in 1 .. Len(s) : t[i] = s[i]
      /\ t[Len(s) + 1] = e
    BY AppendProperties, LenProperties DEF Bytes
<1>2. \A i \in 1 .. Len(s) : s[i] < e
    BY ElementsOf
<1>3. Before(t)
    <2> SUFFICES ASSUME NEW i \in 1 .. Len(t), NEW j \in 1 .. Len(t), i < j
                 PROVE  t[i] < t[j]
        BY DEF Before
    <2>1. i \in 1 .. Len(s) /\ (j \in 1 .. Len(s) \/ j = Len(s) + 1)
        BY <1>1
    <2> QED
        BY <1>1, <1>2, <2>1 DEF Before
<1>4. \A x : x \in ToSet(t) <=> x \in ToSet(s) \/ x = e
    <2>1. \A i \in 1 .. Len(t) : i \in 1 .. Len(s) \/ i = Len(s) + 1
        BY <1>1
    <2>2. Len(s) + 1 \in 1 .. Len(t) /\ \A i \in 1 .. Len(s) : i \in 1 .. Len(t)
        BY <1>1
    <2>3. ASSUME NEW x \in ToSet(t) PROVE x \in ToSet(s) \/ x = e
        <3>1. PICK i \in 1 .. Len(t) : x = t[i]
            BY <1>1, ElementsOf
        <3> QED
            BY <1>1, <2>1, <3>1, ElementsOf
    <2>4. ASSUME NEW x \in ToSet(s) PROVE x \in ToSet(t)
        <3>1. PICK i \in 1 .. Len(s) : x = s[i]
            BY ElementsOf
        <3> QED
            BY <1>1, <2>2, <3>1, ElementsOf
    <2>5. e \in ToSet(t)
        BY <1>1, <2>2, ElementsOf
    <2> QED
        BY <2>3, <2>4, <2>5
<1> QED
    BY <1>1, <1>3, <1>4

\* The beginning of a sequence in order.
LEMMA BeginningInOrder ==
    ASSUME NEW s \in Bytes, NEW t \in Bytes, Before(s \o t)
    PROVE  Before(s) /\ ToSet(s \o t) = ToSet(s) \cup ToSet(t)
<1>1. /\ s \o t \in Bytes /\ Len(s \o t) = Len(s) + Len(t) /\ Len(s) \in Nat /\ Len(t) \in Nat
      /\ \A i \in 1 .. Len(s) : (s \o t)[i] = s[i]
      /\ \A i \in 1 .. Len(t) : (s \o t)[Len(s) + i] = t[i]
    BY ConcatProperties, LenProperties DEF Bytes
<1>2. PICK st \in Bytes : st = s \o t
    BY <1>1
<1>3. Before(s)
    BY <1>1, <1>2 DEF Before
<1>4. \A x : x \in ToSet(st) <=> x \in ToSet(s) \/ x \in ToSet(t)
    <2>1. \A i \in 1 .. Len(st) : i \in 1 .. Len(s) \/ \E j \in 1 .. Len(t) : i = Len(s) + j
        <3> SUFFICES ASSUME NEW i \in 1 .. Len(st), i \notin 1 .. Len(s)
                     PROVE  \E j \in 1 .. Len(t) : i = Len(s) + j
            OBVIOUS
        <3>1. i - Len(s) \in 1 .. Len(t) /\ i = Len(s) + (i - Len(s))
            BY <1>1, <1>2
        <3> QED
            BY <3>1
    <2>2. /\ \A i \in 1 .. Len(s) : i \in 1 .. Len(st)
          /\ \A i \in 1 .. Len(t) : Len(s) + i \in 1 .. Len(st)
        BY <1>1, <1>2
    <2>3. ASSUME NEW x \in ToSet(st) PROVE x \in ToSet(s) \/ x \in ToSet(t)
        <3>1. PICK i \in 1 .. Len(st) : x = st[i]
            BY ElementsOf
        <3>2. CASE i \in 1 .. Len(s)
            BY <1>1, <1>2, <3>1, <3>2, ElementsOf
        <3>3. CASE \E j \in 1 .. Len(t) : i = Len(s) + j
            BY <1>1, <1>2, <3>1, <3>3, ElementsOf
        <3> QED
            BY <2>1, <3>2, <3>3
    <2>4. ASSUME NEW x \in ToSet(s) PROVE x \in ToSet(st)
        <3>1. PICK i \in 1 .. Len(s) : x = s[i]
            BY ElementsOf
        <3> QED
            BY <1>1, <1>2, <2>2, <3>1, ElementsOf
    <2>5. ASSUME NEW x \in ToSet(t) PROVE x \in ToSet(st)
        <3>1. PICK i \in 1 .. Len(t) : x = t[i]
            BY ElementsOf
        <3> QED
            BY <1>1, <1>2, <2>2, <3>1, ElementsOf
    <2> QED
        BY <2>3, <2>4, <2>5
<1> QED
    BY <1>2, <1>3, <1>4

\* The first k bytes of a queue and the others.
LEMMA CutOff ==
    ASSUME NEW s \in Bytes, NEW k \in 1 .. Len(s)
    PROVE  /\ SubSeq(s, 1, k) \in Bytes /\ Len(SubSeq(s, 1, k)) = k
           /\ SubSeq(s, k + 1, Len(s)) \in Bytes
           /\ SubSeq(s, 1, k) \o SubSeq(s, k + 1, Len(s)) = s
<1>1. Len(s) \in Nat /\ k + 1 \in 1 .. Len(s) + 1 /\ \A i \in 1 .. Len(s) : s[i] \in Nat
    BY LenProperties, ElementOfSeq DEF Bytes
<1>2. SubSeq(s, 1, k) \in Bytes /\ Len(SubSeq(s, 1, k)) = k
    BY <1>1, SubSeqProperties DEF Bytes
<1>3. SubSeq(s, k + 1, Len(s)) \in Bytes
    <2>1. \A i \in k + 1 .. Len(s) : s[i] \in Nat
        BY <1>1
    <2> QED
        BY <1>1, <2>1, SubSeqProperties DEF Bytes
<1>4. SubSeq(s, 1, k) \o SubSeq(s, k + 1, Len(s)) = s
    <2>1. 1 \in 1 .. Len(s) + 1 /\ k \in 1 - 1 .. Len(s) /\ Len(s) \in k .. Len(s)
        BY <1>1
    <2> QED
        BY <2>1, ConcatAdjacentSubSeq, SubSeqFull DEF Bytes
<1> QED
    BY <1>2, <1>3, <1>4

LEMMA InputArrive ==
    ASSUME InputOK, Arrive
    PROVE  InputOK'
<1>1. PICK all \in Bytes : all = handed \o rx
    BY ConcatProperties DEF InputOK, Bytes
<1>2. /\ arrived' = arrived + 1 /\ rx' = Append(rx, arrived + 1)
      /\ UNCHANGED <<handed, dropped, reader>>
    BY DEF Arrive
<1>3. arrived \in Nat /\ arrived + 1 \in Nat /\ rx \in Bytes /\ handed \in Bytes
    BY DEF InputOK
<1>4. rx' \in Bytes
    BY <1>2, <1>3, AppendProperties DEF Bytes
<1>5. PICK more : more = Append(all, arrived + 1)
    OBVIOUS
<1>6. more = handed \o rx'
    BY <1>1, <1>2, <1>3, <1>5, AppendJoin DEF Bytes
<1>7. ToSet(all) \cup dropped = 1 .. arrived /\ Before(all)
    BY <1>1 DEF InputOK
<1>8. \A x \in ToSet(all) : x < arrived + 1
    BY <1>3, <1>7
<1>9. Before(more) /\ ToSet(more) = ToSet(all) \cup {arrived + 1}
    BY <1>1, <1>3, <1>5, <1>7, <1>8, AppendInOrder
<1>10. ToSet(more) \cup dropped = 1 .. arrived + 1
    BY <1>3, <1>7, <1>9
<1> QED
    BY <1>2, <1>3, <1>4, <1>6, <1>9, <1>10 DEF InputOK, Handed

LEMMA InputReset ==
    ASSUME InputOK, ResetInput
    PROVE  InputOK'
<1>1. /\ rx' = <<>> /\ dropped' = dropped \cup ToSet(rx)
      /\ UNCHANGED <<arrived, handed, reader>>
    BY DEF ResetInput
<1>2. rx' \in Bytes /\ handed \in Bytes /\ rx \in Bytes
    BY <1>1, EmptySeq DEF InputOK, Bytes
<1>3. handed \o rx' = handed
    BY <1>1, <1>2, ConcatEmptySeq DEF Bytes
<1>4. Before(handed) /\ ToSet(handed \o rx) = ToSet(handed) \cup ToSet(rx)
    BY <1>2, BeginningInOrder DEF InputOK
<1>5. ToSet(handed) \cup dropped' = 1 .. arrived
    BY <1>1, <1>4 DEF InputOK
<1> QED
    BY <1>1, <1>2, <1>3, <1>4, <1>5 DEF InputOK, Handed

\* A call that begins has nothing.
LEMMA InputBegin ==
    ASSUME InputOK, UNCHANGED <<arrived, rx, handed, dropped>>, ReadOK(reader)',
           reader'.b = <<>>, reader'.temp = <<>>
    PROVE  InputOK'
<1>1. reader'.b \o reader'.temp = <<>>
    BY EmptySeq, ConcatEmptySeq
<1>2. handed = handed \o <<>>
    BY ConcatEmptySeq DEF InputOK, Bytes
<1>3. Handed(handed)'
    BY <1>1, <1>2 DEF Handed
<1> QED
    BY <1>3 DEF InputOK

\* A step of a call that takes the bytes `new` off the queue.
LEMMA InputTaken ==
    ASSUME InputOK, UNCHANGED <<arrived, dropped>>, NEW new \in Bytes,
           rx' \in Bytes, new \o rx' = rx, handed' = handed \o new, ReadOK(reader)',
           reader'.b \o reader'.temp = (reader.b \o reader.temp) \o new
    PROVE  InputOK'
<1>1. /\ handed \in Bytes /\ rx \in Bytes /\ handed' \in Bytes
      /\ reader.b \o reader.temp \in Bytes
    BY ConcatProperties DEF InputOK, ReadOK, ReadCalls, Bytes
<1>2. PICK had \in Bytes : had = reader.b \o reader.temp
    BY <1>1
<1>3. handed' \o rx' = handed \o rx
    <2>1. handed \in Seq(Nat) /\ new \in Seq(Nat) /\ rx' \in Seq(Nat) /\ rx = new \o rx'
        BY <1>1 DEF Bytes
    <2>2. PICK rest \in Seq(Nat) : rest = rx'
        BY <2>1
    <2>3. PICK gone \in Seq(Nat) : gone = handed'
        BY <1>1 DEF Bytes
    <2>4. PICK held \in Seq(Nat) : held = handed
        BY <2>1
    <2>5. PICK queue \in Seq(Nat) : queue = rx
        BY <1>1 DEF Bytes
    <2>6. gone = held \o new /\ queue = new \o rest
        BY <2>1, <2>2, <2>3, <2>4, <2>5
    <2>7. new \in Seq(Nat)
        BY <2>1
    <2>8. gone \o rest = held \o queue
        BY ONLY <2>2, <2>4, <2>6, <2>7, ThreePiecesJoin
    <2> QED
        BY <2>2, <2>3, <2>4, <2>5, <2>8
<1>4. PICK u \in Bytes : handed = u \o had
    BY <1>2 DEF InputOK, Handed
<1>5. handed' = u \o (had \o new)
    <2>1. u \in Seq(Nat) /\ had \in Seq(Nat) /\ new \in Seq(Nat)
        BY DEF Bytes
    <2>2. PICK more : more = had \o new
        OBVIOUS
    <2>3. handed \o new = u \o more
        BY ONLY <1>4, <2>1, <2>2, ThreePiecesJoin
    <2> QED
        BY <2>2, <2>3
<1>6. Handed(u)'
    BY <1>2, <1>5 DEF Handed
<1>7. Before(handed' \o rx') /\ ToSet(handed' \o rx') \cup dropped' = 1 .. arrived'
    BY <1>3 DEF InputOK
<1> QED
    BY <1>1, <1>6, <1>7 DEF InputOK

\* A step of a call that takes no byte.
LEMMA InputWaited ==
    ASSUME InputOK, UNCHANGED <<arrived, rx, handed, dropped>>, ReadOK(reader)',
           reader'.b \o reader'.temp = reader.b \o reader.temp
    PROVE  InputOK'
<1>1. \A u \in Bytes : Handed(u) => Handed(u)'
    BY DEF Handed
<1> QED
    BY <1>1 DEF InputOK

LEMMA BeginRead ==
    ASSUME InputOK, NEW op \in {"read", "read_all"}, NEW n \in Nat, NEW wait \in Waits,
           ReadBegin(op, n, wait)
    PROVE  InputOK'
<1>1. PICK late \in BOOLEAN : late = Expired(wait)
    BY DEF Expired
<1>2. PICK state \in {"busy", "returned", "threw"} :
          /\ state = IF ~ready THEN "threw" ELSE IF n = 0 THEN "returned" ELSE "busy"
          /\ state = "returned" => n = 0
    OBVIOUS
<1>3. reader' = [NoRead EXCEPT !.op = op, !.n = n, !.wait = wait, !.late = late, !.state = state]
    BY <1>1, <1>2 DEF ReadBegin
<1>4. reader' \in ReadCalls
    BY <1>3, EmptySeq DEF NoRead, ReadCalls, Bytes
<1>5. /\ reader'.op = op /\ reader'.n = n /\ reader'.state = state
      /\ reader'.b = <<>> /\ reader'.temp = <<>>
    BY <1>3 DEF NoRead
<1>6. ReadOK(reader)'
    BY <1>2, <1>4, <1>5 DEF ReadOK
<1> QED
    BY <1>5, <1>6, InputBegin DEF ReadBegin, input

LEMMA BeginUntil ==
    ASSUME InputOK, NEW expected \in Endings, NEW len \in Nat, NEW wait \in Waits,
           UntilBegin(expected, len, wait)
    PROVE  InputOK'
<1>1. PICK late \in BOOLEAN : late = Expired(wait)
    BY DEF Expired
<1>2. PICK state \in {"busy", "threw"} : state = IF ready THEN "busy" ELSE "threw"
    OBVIOUS
<1>3. reader' = [NoRead EXCEPT !.op = "read_until", !.expected = expected, !.n = len,
                    !.wait = wait, !.late = late, !.due = late, !.state = state]
    BY <1>1, <1>2 DEF UntilBegin
<1>4. expected \in Bytes
    BY IOAssumption DEF Bytes
<1>5. reader' \in ReadCalls
    BY <1>3, <1>4, EmptySeq DEF NoRead, ReadCalls, Bytes
<1>6. /\ reader'.op = "read_until" /\ reader'.n = len /\ reader'.state = state
      /\ reader'.b = <<>> /\ reader'.temp = <<>> /\ reader'.wait = wait
      /\ reader'.due <=> late
      /\ reader'.late <=> late
    BY <1>3 DEF NoRead
<1>7. Len(reader'.b) = 0
    BY <1>6
<1>8. \A k \in {0, 0 - 1} : NoEarlyEnd(reader'.b, reader'.expected, k)
    BY DEF NoEarlyEnd
<1>9. ReadOK(reader)'
    <2>1. reader'.late \/ Expired(reader'.wait) => reader'.due
        BY <1>1, <1>6
    <2>2. NoEarlyEnd(reader'.b, reader'.expected, Len(reader'.b) - 1)
        BY <1>7, <1>8
    <2>3. NoEarlyEnd(reader'.b, reader'.expected, Len(reader'.b))
        BY <1>7, <1>8
    <2> QED
        BY <1>2, <1>5, <1>6, <1>7, <2>1, <2>2, <2>3 DEF ReadOK
<1> QED
    BY <1>6, <1>9, InputBegin DEF UntilBegin, input

\* What a busy call has in temp is not more than it wants.
LEMMA NotTooMuch ==
    ASSUME InputOK, Busy(reader)
    PROVE  /\ reader.temp \in Bytes /\ reader.b \in Bytes
           /\ Len(reader.temp) \in Nat /\ Wanted(reader) \in Nat
           /\ Len(reader.temp) <= Wanted(reader)
<1>1. ReadOK(reader) /\ reader.temp \in Bytes /\ reader.b \in Bytes /\ reader.n \in Nat
    BY DEF InputOK, ReadOK, ReadCalls
<1>2. Len(reader.temp) \in Nat
    BY <1>1, LenProperties DEF Bytes
<1>3. reader.op = "read_until" => Len(reader.temp) = 0
    BY <1>1, EmptySeq DEF ReadOK, Busy
<1> QED
    BY <1>1, <1>2, <1>3 DEF ReadOK, Busy, Wanted

LEMMA InputReadSome ==
    ASSUME InputOK, ReadSome
    PROVE  InputOK'
<1>1. PICK k \in 1 .. Len(rx) :
          /\ k <= Wanted(reader) - Len(reader.temp)
          /\ rx' = SubSeq(rx, k + 1, Len(rx))
          /\ handed' = handed \o SubSeq(rx, 1, k)
          /\ reader' = Passed(reader, reader.temp \o SubSeq(rx, 1, k))
    BY DEF ReadSome
<1>2. Busy(reader) /\ UNCHANGED <<arrived, dropped>> /\ ReadOK(reader) /\ rx \in Bytes
    BY DEF ReadSome, InputOK
<1>3. PICK new \in Bytes : new = SubSeq(rx, 1, k) /\ Len(new) = k
    BY <1>2, CutOff
<1>4. rx' \in Bytes /\ new \o rx' = rx
    BY <1>1, <1>2, <1>3, CutOff
<1>5. PICK temp : temp = reader.temp \o new
    OBVIOUS
<1>6. temp \in Bytes /\ Len(temp) = Len(reader.temp) + k
    BY <1>2, <1>3, <1>5, NotTooMuch, ConcatProperties DEF Bytes
<1>7. Len(temp) <= Wanted(reader)
    BY <1>1, <1>2, <1>6, NotTooMuch
<1>8. ReadOK(reader)' /\ reader'.b \o reader'.temp = reader.b \o temp
    BY <1>1, <1>2, <1>3, <1>5, <1>6, <1>7, PassedReads
<1>9. (reader.b \o reader.temp) \o new = reader.b \o temp
    <2>1. PICK x \in Seq(Nat) : x = reader.b
        BY <1>2, NotTooMuch DEF Bytes
    <2>2. PICK y \in Seq(Nat) : y = reader.temp
        BY <1>2, NotTooMuch DEF Bytes
    <2>3. x \in Seq(Nat) /\ y \in Seq(Nat) /\ new \in Seq(Nat) /\ temp \in Seq(Nat) /\ temp = y \o new
        BY <1>5, <1>6, <2>1, <2>2 DEF Bytes
    <2>4. (x \o y) \o new = x \o (y \o new)
        BY ONLY <2>3, ConcatAssociative
    <2> QED
        BY <2>1, <2>2, <2>3, <2>4
<1> QED
    BY <1>1, <1>2, <1>3, <1>4, <1>8, <1>9, InputTaken

LEMMA InputReadNone ==
    ASSUME InputOK, ReadNone
    PROVE  InputOK'
<1>1. Busy(reader) /\ reader' = Passed(reader, reader.temp) /\ UNCHANGED input /\ ReadOK(reader)
    BY DEF ReadNone, InputOK
<1>2. ReadOK(reader)' /\ reader'.b \o reader'.temp = reader.b \o reader.temp
    BY <1>1, NotTooMuch, PassedReads
<1> QED
    BY <1>1, <1>2, InputWaited DEF input

LEMMA InputReadThrow ==
    ASSUME InputOK, ReadThrow
    PROVE  InputOK'
<1>1. PICK all : all = reader.b \o reader.temp
    OBVIOUS
<1>2. /\ Busy(reader) /\ UNCHANGED input /\ ReadOK(reader)
      /\ reader' = [reader EXCEPT !.state = "threw", !.b = all, !.temp = <<>>]
    BY <1>1 DEF ReadThrow, InputOK
<1>3. all \in Bytes /\ all \o <<>> = all /\ <<>> \in Bytes
    BY <1>1, <1>2, NotTooMuch, ConcatProperties, ConcatEmptySeq, EmptySeq DEF Bytes
<1>4. reader \in ReadCalls
    BY <1>2 DEF ReadOK
<1>5. /\ reader' \in ReadCalls /\ reader'.state = "threw" /\ reader'.b = all /\ reader'.temp = <<>>
      /\ reader'.op = reader.op /\ reader'.expected = reader.expected /\ reader'.wait = reader.wait
      /\ reader'.late = reader.late /\ reader'.due = reader.due
    BY <1>2, <1>3, <1>4 DEF ReadCalls
<1>6. reader.op = "read_until" => all = reader.b
    BY <1>1, <1>2, NotTooMuch, ConcatEmptySeq DEF ReadOK, Busy, Bytes
<1>7. ReadOK(reader)'
    BY <1>2, <1>5, <1>6 DEF ReadOK
<1> QED
    BY <1>1, <1>2, <1>3, <1>5, <1>7, InputWaited DEF input

LEMMA InputElapse ==
    ASSUME InputOK, Elapse
    PROVE  InputOK'
<1>1. UNCHANGED input
    BY DEF Elapse
<1>2. CASE UNCHANGED reader
    BY <1>1, <1>2 DEF InputOK, input, Handed
<1>3. ASSUME Busy(reader), reader.wait = "timed",
             \/ reader' = [reader EXCEPT !.due = TRUE]
             \/ /\ reader.due \/ reader.op # "read_until"
                /\ reader' = [reader EXCEPT !.late = TRUE]
      PROVE  InputOK'
    <2>1. ReadOK(reader) /\ reader \in ReadCalls
        BY DEF InputOK, ReadOK
    <2>2. /\ reader' \in ReadCalls
          /\ \A field \in {"op", "state", "n", "b", "temp", "expected", "wait"} :
                reader'[field] = reader[field]
          /\ reader.due => reader'.due
          /\ reader.op = "read_until" /\ reader'.late => reader'.due
        BY <1>3, <2>1 DEF ReadCalls, ReadOK
    <2>3. ReadOK(reader)'
        BY <1>3, <2>1, <2>2 DEF ReadOK, Busy
    <2> QED
        BY <1>1, <2>2, <2>3, InputWaited DEF input
<1> QED
    BY <1>2, <1>3 DEF Elapse

LEMMA InputStep ==
    ASSUME InputOK, [IONext]_ioVars
    PROVE  InputOK'
<1>1. ASSUME UNCHANGED <<input, reader>>
      PROVE  InputOK'
    BY <1>1 DEF InputOK, input, Handed
<1>2. ASSUME NEW wait \in Waits, NEW n \in 0 .. MaxIn,
             ReadBegin("read", n, wait) \/ ReadBegin("read_all", n, wait)
      PROVE  InputOK'
    BY <1>2, BeginRead, IOAssumption
<1>3. ASSUME NEW wait \in Waits, NEW expected \in Endings, NEW len \in 0 .. MaxIn,
             UntilBegin(expected, len, wait)
      PROVE  InputOK'
    BY <1>3, BeginUntil, IOAssumption
<1>4. ASSUME \/ Transmit \/ (\E wait \in Waits : \E len \in 0 .. MaxOut : WriteBegin(len, wait))
             \/ WriteSome \/ WaitWrite \/ WriteThrow \/ FlushBegin \/ FlushReturn \/ ResetOutput
             \/ UNCHANGED ioVars
      PROVE  UNCHANGED <<input, reader>>
    BY <1>4 DEF Transmit, WriteBegin, WriteSome, WaitWrite, WriteThrow, FlushBegin, FlushReturn,
         ResetOutput, ioVars, input
<1> QED
    BY <1>1, <1>2, <1>3, <1>4, InputArrive, InputReset, InputReadSome, InputReadNone,
       InputReadThrow, InputElapse DEF IONext

-----------------------------------------------------------------------------
(* The bytes that are sent.                                                *)

WriteCalls ==
    [op : {"write", "wait_write", "flush"}, state : {"busy", "returned", "threw"}, d : Bytes,
     n : Nat, first : Nat, wait : Waits, late : BOOLEAN]

\* The last byte that the terminal took of what was offered so far: d is what
\* was left before the pass, of which n bytes are gone once write_port is done.
Reached(call, given) ==
    given - Len(call.d) + (IF call.op = "wait_write" THEN call.n ELSE 0)

\* A call that writes, when `given` bytes were offered: d are the last bytes
\* offered, and what was taken of the call is no more than that.
WriteOK(call, given) ==
    /\ call \in WriteCalls
    /\ call.first # 0
    /\ \A i \in 1 .. Len(call.d) : call.d[i] = given - Len(call.d) + i
    /\ call.op = "wait_write" => call.n <= Len(call.d)
    /\ call.first + Len(call.d) <= given + 1
    /\ call.op = "write" /\ call.state = "returned" => call.d = <<>>
    /\ call.op # "flush" /\ call.wait = "non_blocking" =>
          /\ Len(call.d) = given + 1 - call.first
          /\ call.op = "wait_write" => call.state # "busy"
          /\ call.op = "write" => call.n = 0
    /\ call.op = "wait_write" /\ call.state = "returned" => call.wait = "non_blocking"

\* Of the call the terminal took the bytes up to Reached, and none behind it.
OutputOK ==
    /\ offered \in Nat /\ put \in Bytes
    /\ Before(put)
    /\ WriteOK(writer, offered)
    /\ \A x \in Nat : x >= writer.first =>
          (x \in ToSet(put) <=> x <= Reached(writer, offered))

LEMMA ReachedRange ==
    ASSUME NEW given \in Nat, NEW call, WriteOK(call, given)
    PROVE  /\ Reached(call, given) \in Nat /\ Reached(call, given) <= given
           /\ call.first <= Reached(call, given) + 1
           /\ Len(call.d) \in Nat /\ Len(call.d) <= given
           /\ call.first \in Nat /\ call.n \in Nat /\ call.d \in Bytes
<1>1. call.first \in Nat /\ call.first >= 1 /\ call.n \in Nat /\ call.d \in Bytes
    BY DEF WriteOK, WriteCalls
<1>2. Len(call.d) \in Nat /\ call.first + Len(call.d) <= given + 1
    BY <1>1, LenProperties DEF Bytes, WriteOK
<1>3. PICK l \in Nat : l = Len(call.d)
    BY <1>2
<1>4. PICK f \in Nat : f = call.first /\ f >= 1 /\ f + l <= given + 1
    BY <1>1, <1>2, <1>3
<1>5. PICK m \in Nat : m <= l /\ Reached(call, given) = given - l + m
    <2>1. CASE call.op = "wait_write"
        BY <1>1, <1>3, <2>1 DEF Reached, WriteOK
    <2>2. CASE call.op # "wait_write"
        <3>1. Reached(call, given) = given - l + 0 /\ 0 <= l
            BY <1>3, <2>2 DEF Reached
        <3> QED
            BY <3>1
    <2> QED
        BY <2>1, <2>2
<1>6. PICK r : r = Reached(call, given)
    OBVIOUS
<1>7. r \in Nat /\ r <= given /\ f <= r + 1 /\ l <= given
    BY <1>4, <1>5, <1>6
<1> QED
    BY <1>1, <1>3, <1>4, <1>6, <1>7

\* A call begins with the bytes behind those that were offered.
LEMMA OutputBegin ==
    ASSUME OutputOK, NEW len \in Nat, offered' = offered + len, put' = put,
           WriteOK(writer, offered)', writer'.first = offered + 1,
           Reached(writer', offered') = offered
    PROVE  OutputOK'
<1>1. Reached(writer, offered) \in Nat /\ Reached(writer, offered) <= offered /\ offered \in Nat
    BY ReachedRange DEF OutputOK
<1>2. ASSUME NEW x \in Nat, x >= offered + 1 PROVE x \notin ToSet(put)
    <2>1. writer.first <= Reached(writer, offered) + 1 /\ writer.first \in Nat
        BY ReachedRange DEF OutputOK
    <2>2. x >= writer.first /\ ~(x <= Reached(writer, offered))
        BY <1>1, <1>2, <2>1
    <2> QED
        BY <2>2 DEF OutputOK
<1>3. \A x \in Nat : x >= offered + 1 => (x \in ToSet(put) <=> x <= offered)
    BY <1>1, <1>2
<1>4. offered' \in Nat
    BY <1>1
<1> QED
    BY <1>3, <1>4 DEF OutputOK

LEMMA BeginWrite ==
    ASSUME OutputOK, NEW len \in Nat, NEW wait \in Waits, WriteBegin(len, wait)
    PROVE  OutputOK'
<1>1. PICK late \in BOOLEAN : late = Expired(wait)
    BY DEF Expired
<1>2. PICK state \in {"busy", "returned", "threw"} :
          /\ state = IF ~ready THEN "threw" ELSE IF len = 0 THEN "returned" ELSE "busy"
          /\ state = "returned" => len = 0
    OBVIOUS
<1>3. PICK d : d = [i \in 1 .. len |-> offered + i]
    OBVIOUS
<1>4. offered \in Nat
    BY DEF OutputOK
<1>5. PICK first \in Nat : first = offered + 1
    BY <1>4
<1>6. d \in Bytes /\ Len(d) = len /\ \A i \in 1 .. len : d[i] = offered + i
    BY <1>3, <1>4 DEF Bytes
<1>7. /\ offered' = offered + len /\ put' = put
      /\ writer' = [NoWrite EXCEPT !.d = d, !.first = first, !.wait = wait, !.late = late,
                       !.state = state]
    BY <1>1, <1>2, <1>3, <1>5 DEF WriteBegin
<1>8. /\ writer' \in WriteCalls
      /\ writer'.op = "write" /\ writer'.n = 0 /\ writer'.d = d /\ writer'.first = offered + 1
      /\ writer'.state = state /\ writer'.wait = wait
    BY <1>6, <1>7, <1>5 DEF NoWrite, WriteCalls
<1>9. Reached(writer', offered') = offered
    BY <1>4, <1>6, <1>7, <1>8 DEF Reached
<1>10. WriteOK(writer', offered')
    <2>1. \A i \in 1 .. Len(d) : d[i] = offered' - Len(d) + i
        BY <1>4, <1>6, <1>7
    <2>2. len = 0 => d = <<>>
        BY <1>6, EmptySeq DEF Bytes
    <2>3. Len(d) = offered' + 1 - (offered + 1)
        BY <1>4, <1>6, <1>7
    <2>4. /\ writer'.first # 0
          /\ writer'.first + Len(writer'.d) <= offered' + 1
        BY <1>4, <1>6, <1>7, <1>8
    <2>5. writer'.state = "returned" => writer'.d = <<>>
        BY <1>2, <1>8, <2>2
    <2> QED
        BY <1>8, <2>1, <2>3, <2>4, <2>5 DEF WriteOK
<1> QED
    BY <1>7, <1>8, <1>9, <1>10, OutputBegin

LEMMA BeginFlush ==
    ASSUME OutputOK, FlushBegin
    PROVE  OutputOK'
<1>1. PICK state \in {"busy", "threw"} : state = IF ready THEN "busy" ELSE "threw"
    OBVIOUS
<1>2. offered \in Nat
    BY DEF OutputOK
<1>3. PICK first \in Nat : first = offered + 1
    BY <1>2
<1>4. /\ offered' = offered + 0 /\ put' = put
      /\ writer' = [NoWrite EXCEPT !.op = "flush", !.first = first, !.state = state]
    BY <1>1, <1>2, <1>3 DEF FlushBegin, output
<1>5. /\ writer' \in WriteCalls
      /\ writer'.op = "flush" /\ writer'.d = <<>> /\ writer'.first = offered + 1
    BY <1>4, <1>3, EmptySeq DEF NoWrite, WriteCalls, Bytes, Waits
<1>6. Len(writer'.d) = 0
    BY <1>5
<1>7. Reached(writer', offered') = offered
    BY <1>2, <1>4, <1>5, <1>6 DEF Reached
<1>8. WriteOK(writer', offered')
    BY <1>2, <1>4, <1>5, <1>6, <1>7 DEF WriteOK
<1> QED
    BY <1>4, <1>5, <1>7, <1>8, OutputBegin

\* Steps of a call that put nothing.
LEMMA OutputKept ==
    ASSUME OutputOK, UNCHANGED <<offered, put>>, WriteOK(writer, offered)',
           writer'.first = writer.first, Reached(writer', offered) = Reached(writer, offered)
    PROVE  OutputOK'
    BY DEF OutputOK

LEMMA OutputThrow ==
    ASSUME OutputOK, WriteThrow
    PROVE  OutputOK'
<1>1. /\ writer' = [writer EXCEPT !.state = "threw"] /\ UNCHANGED <<offered, put>>
      /\ WriteOK(writer, offered) /\ writer \in WriteCalls
    BY DEF WriteThrow, OutputOK, WriteOK, output
<1>2. /\ writer' \in WriteCalls /\ writer'.state = "threw"
      /\ \A field \in {"op", "d", "n", "first", "wait"} : writer'[field] = writer[field]
    BY <1>1 DEF WriteCalls
<1>3. Reached(writer', offered) = Reached(writer, offered)
    BY <1>2 DEF Reached
<1>4. WriteOK(writer, offered)'
    BY <1>1, <1>2, <1>3 DEF WriteOK
<1> QED
    BY <1>1, <1>2, <1>3, <1>4, OutputKept

LEMMA OutputFlushed ==
    ASSUME OutputOK, FlushReturn
    PROVE  OutputOK'
<1>1. /\ writer' = [writer EXCEPT !.state = "returned"] /\ UNCHANGED <<offered, put>>
      /\ WriteOK(writer, offered) /\ writer \in WriteCalls /\ writer.op = "flush"
    BY DEF FlushReturn, OutputOK, WriteOK, output
<1>2. /\ writer' \in WriteCalls
      /\ \A field \in {"op", "d", "n", "first", "wait"} : writer'[field] = writer[field]
    BY <1>1 DEF WriteCalls
<1>3. Reached(writer', offered) = Reached(writer, offered)
    BY <1>2 DEF Reached
<1>4. WriteOK(writer, offered)'
    BY <1>1, <1>2, <1>3 DEF WriteOK
<1> QED
    BY <1>1, <1>2, <1>3, <1>4, OutputKept

LEMMA OutputWaited ==
    ASSUME OutputOK, Elapse
    PROVE  OutputOK'
<1>1. UNCHANGED <<offered, put>> /\ WriteOK(writer, offered) /\ writer \in WriteCalls
    BY DEF Elapse, OutputOK, WriteOK, output
<1>2. CASE UNCHANGED writer
    BY <1>1, <1>2, OutputKept
<1>3. CASE writer' = [writer EXCEPT !.late = TRUE]
    <2>1. /\ writer' \in WriteCalls
          /\ \A field \in {"op", "state", "d", "n", "first", "wait"} :
                writer'[field] = writer[field]
        BY <1>1, <1>3 DEF WriteCalls
    <2>2. Reached(writer', offered) = Reached(writer, offered)
        BY <2>1 DEF Reached
    <2>3. WriteOK(writer, offered)'
        BY <1>1, <2>1, <2>2 DEF WriteOK
    <2> QED
        BY <1>1, <2>1, <2>2, <2>3, OutputKept
<1> QED
    BY <1>2, <1>3 DEF Elapse

\* The next numbers, put behind the others.
LEMMA PutInOrder ==
    ASSUME NEW s \in Bytes, NEW t \in Bytes, NEW from \in Nat,
           \A i \in 1 .. Len(t) : t[i] = from + i, Before(s), \A x \in ToSet(s) : x <= from
    PROVE  /\ s \o t \in Bytes /\ Before(s \o t)
           /\ ToSet(s \o t) = ToSet(s) \cup (from + 1 .. from + Len(t))
<1>1. PICK st : st = s \o t
    OBVIOUS
<1>2. PICK n \in Nat : n = Len(t)
    BY LenProperties DEF Bytes
<1>3. PICK l \in Nat : l = Len(s)
    BY LenProperties DEF Bytes
<1>4. /\ st \in Bytes /\ Len(st) = l + n
      /\ \A i \in 1 .. l + n : st[i] = IF i <= l THEN s[i] ELSE t[i - l]
    BY <1>3, <1>1, <1>2, ConcatProperties DEF Bytes
<1>5. /\ \A i \in 1 .. l : st[i] = s[i] /\ s[i] \in Nat /\ s[i] <= from
      /\ \A i \in l + 1 .. l + n : st[i] = from + (i - l)
    <2>1. \A i \in 1 .. l : i \in 1 .. l + n /\ i <= l
        BY <1>3
    <2>2. \A i \in l + 1 .. l + n : i \in 1 .. l + n /\ ~(i <= l) /\ i - l \in 1 .. n
        BY <1>3, <1>2
    <2>3. \A i \in 1 .. l : s[i] \in Nat /\ s[i] <= from
        BY <1>3, ElementsOf, ElementOfSeq DEF Bytes
    <2> QED
        BY <1>4, <1>2, <2>1, <2>2, <2>3
<1>6. \A i \in 1 .. l + n : i \in 1 .. l \/ i \in l + 1 .. l + n
    BY <1>3, <1>2
<1>7. Before(st)
    <2> SUFFICES ASSUME NEW i \in 1 .. l + n, NEW j \in 1 .. l + n, i < j
                 PROVE  st[i] < st[j]
        BY <1>4 DEF Before
    <2>1. CASE i \in 1 .. l /\ j \in 1 .. l
        <3>1. s[i] < s[j]
            BY <1>3, <2>1 DEF Before
        <3> QED
            BY <1>5, <2>1, <3>1
    <2>2. CASE i \in 1 .. l /\ j \in l + 1 .. l + n
        <3>1. st[j] = from + (j - l) /\ j - l >= 1 /\ j - l \in Nat
            BY <1>3, <1>5, <1>2, <2>2
        <3>2. st[i] \in Nat /\ st[i] <= from
            BY <1>5, <2>2
        <3>3. PICK k \in Nat : k = j - l /\ k >= 1
            BY <3>1
        <3>4. PICK e \in Nat : e = st[i] /\ e <= from
            BY <3>2
        <3>5. e \in Nat /\ k \in Nat /\ from \in Nat /\ e <= from /\ k >= 1
            BY <3>3, <3>4
        <3>6. e < from + k
            BY ONLY <3>5
        <3> QED
            BY <3>1, <3>3, <3>4, <3>6
    <2>3. CASE i \in l + 1 .. l + n /\ j \in l + 1 .. l + n
        BY <1>5, <2>3
    <2>4. ~(i \in l + 1 .. l + n /\ j \in 1 .. l)
        OBVIOUS
    <2> QED
        BY <1>6, <2>1, <2>2, <2>3, <2>4
<1>8. ASSUME NEW x \in ToSet(st) PROVE x \in ToSet(s) \/ x \in from + 1 .. from + n
    <2>1. PICK i \in 1 .. l + n : x = st[i]
        <3>1. PICK i \in 1 .. Len(st) : x = st[i]
            BY <1>4, <1>8, ElementsOf
        <3> QED
            BY <1>4, <3>1
    <2>2. CASE i \in 1 .. l
        BY <1>3, <1>5, <2>1, <2>2, ElementsOf
    <2>3. CASE i \in l + 1 .. l + n
        <3>1. st[i] = from + (i - l) /\ i - l \in 1 .. n
            BY <1>3, <1>5, <1>2, <2>3
        <3> QED
            BY <2>1, <3>1
    <2> QED
        BY <1>6, <2>2, <2>3
<1>9. ASSUME NEW x \in ToSet(s) PROVE x \in ToSet(st)
    <2>1. PICK i \in 1 .. l : x = s[i]
        BY <1>3, ElementsOf
    <2>2. i \in 1 .. Len(st) /\ st[i] = x
        BY <1>4, <1>5, <2>1
    <2> QED
        BY <1>4, <2>2, ElementsOf
<1>10. ASSUME NEW x \in from + 1 .. from + n PROVE x \in ToSet(st)
    <2>1. PICK i \in l + 1 .. l + n : x = from + (i - l)
        <3>1. l + (x - from) \in l + 1 .. l + n /\ x = from + ((l + (x - from)) - l)
            OBVIOUS
        <3> QED
            BY <3>1
    <2>2. i \in 1 .. Len(st) /\ st[i] = x
        BY <1>4, <1>5, <2>1
    <2> QED
        BY <1>4, <2>2, ElementsOf
<1>11. ToSet(st) = ToSet(s) \cup (from + 1 .. from + n)
    BY <1>8, <1>9, <1>10
<1> QED
    BY <1>4, <1>7, <1>1, <1>2, <1>11

LEMMA OutputWriteSome ==
    ASSUME OutputOK, WriteSome
    PROVE  OutputOK'
<1>1. WriteOK(writer, offered) /\ writer \in WriteCalls /\ offered \in Nat /\ put \in Bytes
      /\ writer.op = "write" /\ writer.state = "busy"
    BY DEF OutputOK, WriteOK, WriteSome, Busy
<1>2. PICK l \in Nat : l = Len(writer.d)
    BY <1>1, ReachedRange
<1>3. PICK n \in 0 .. l :
          /\ put' = put \o SubSeq(writer.d, 1, n)
          /\ writer' = [writer EXCEPT !.n = n, !.op = "wait_write",
                           !.state = IF writer.wait = "non_blocking" THEN "returned" ELSE @]
    BY <1>2 DEF WriteSome
<1>4. offered' = offered /\ n \in Nat /\ n <= l
    BY <1>2, <1>3 DEF WriteSome
<1>5. PICK state \in {"busy", "returned"} :
          state = IF writer.wait = "non_blocking" THEN "returned" ELSE "busy"
    OBVIOUS
<1>6. writer' = [writer EXCEPT !.n = n, !.op = "wait_write", !.state = state]
    BY <1>1, <1>3, <1>5
<1>7. /\ writer' \in WriteCalls
      /\ writer'.op = "wait_write" /\ writer'.n = n /\ writer'.state = state
      /\ writer'.d = writer.d /\ writer'.first = writer.first /\ writer'.wait = writer.wait
    BY <1>1, <1>4, <1>6 DEF WriteCalls
<1>8. PICK from \in Nat : from = Reached(writer, offered) /\ from = offered - l /\ from + l = offered
    <2>1. Reached(writer, offered) = offered - l + 0
        BY <1>1, <1>2 DEF Reached
    <2>2. l <= offered
        BY <1>1, <1>2, ReachedRange
    <2>3. offered - l \in Nat /\ (offered - l) + l = offered /\ offered - l + 0 = offered - l
        BY <1>1, <2>2
    <2> QED
        BY <2>1, <2>3
<1>9. Reached(writer', offered) = from + n
    BY <1>1, <1>2, <1>4, <1>7, <1>8 DEF Reached
<1>10. WriteOK(writer', offered')
    <2>1. /\ writer.first # 0 /\ writer.first + Len(writer.d) <= offered + 1
          /\ \A i \in 1 .. Len(writer.d) : writer.d[i] = offered - Len(writer.d) + i
          /\ writer.wait = "non_blocking" => Len(writer.d) = offered + 1 - writer.first
        BY <1>1 DEF WriteOK
    <2>2. state = "returned" => writer.wait = "non_blocking"
        BY <1>5
    <2>3. writer.wait = "non_blocking" => state # "busy"
        BY <1>5
    <2> QED
        BY <1>2, <1>4, <1>7, <2>1, <2>2, <2>3 DEF WriteOK
<1>11. PICK part \in Bytes : part = SubSeq(writer.d, 1, n) /\ Len(part) = n
                             /\ \A i \in 1 .. n : part[i] = from + i
    <2>1. \A i \in 1 .. l : writer.d[i] = from + i /\ writer.d[i] \in Nat
        <3>1. \A i \in 1 .. l : writer.d[i] = offered - l + i
            BY <1>1, <1>2 DEF WriteOK
        <3>2. \A i \in 1 .. l : offered - l + i = from + i
            BY <1>1, <1>8
        <3> QED
            BY <3>1, <3>2
    <2>2. \A i \in 1 .. n : writer.d[i] = from + i /\ writer.d[i] \in Nat
        BY <1>2, <1>4, <2>1
    <2>3. PICK p : p = SubSeq(writer.d, 1, n)
        OBVIOUS
    <2>4. p \in Seq(Nat) /\ Len(p) = n /\ \A i \in 1 .. n : p[i] = writer.d[i]
        BY <1>4, <2>2, <2>3, SubSeqProperties
    <2> QED
        BY <2>2, <2>3, <2>4 DEF Bytes
<1>12. \A x \in ToSet(put) : x \in Nat /\ x <= from
    <2> SUFFICES ASSUME NEW x \in ToSet(put)
                 PROVE  x \in Nat /\ x <= from
        OBVIOUS
    <2>1. x \in Nat
        BY <1>1, ElementsOf, ElementOfSeq DEF Bytes
    <2>2. writer.first <= from + 1 /\ writer.first \in Nat
        BY <1>1, <1>8, ReachedRange
    <2>3. x >= writer.first => x <= from
        BY <1>8, <2>1 DEF OutputOK
    <2> QED
        BY <2>1, <2>2, <2>3
<1>13. put' \in Bytes /\ Before(put') /\ (\A x : x \in ToSet(put') <=> x \in ToSet(put) \/ x \in from + 1 .. from + n)
    <2>1. \A i \in 1 .. Len(part) : part[i] = from + i
        BY <1>11
    <2>2. \A x \in ToSet(put) : x <= from
        BY <1>12
    <2>3. Before(put)
        BY DEF OutputOK
    <2>4. put \in Bytes /\ part \in Bytes
        BY <1>1
    <2>5. /\ put \o part \in Bytes /\ Before(put \o part)
          /\ ToSet(put \o part) = ToSet(put) \cup (from + 1 .. from + Len(part))
        BY ONLY <1>8, <2>1, <2>2, <2>3, <2>4, PutInOrder
    <2>6. put' = put \o part /\ Len(part) = n
        BY <1>3, <1>11
    <2> QED
        BY <2>5, <2>6
<1>14. ASSUME NEW x \in Nat, x >= writer.first
       PROVE  x \in ToSet(put') <=> x <= from + n
    <2>1. x \in ToSet(put) <=> x <= from
        BY <1>8, <1>14 DEF OutputOK
    <2>2. x \in from + 1 .. from + n <=> x > from /\ x <= from + n
        BY <1>4, <1>8
    <2> QED
        BY <1>4, <1>8, <1>13, <2>1, <2>2
<1> QED
    BY <1>1, <1>4, <1>7, <1>9, <1>10, <1>13, <1>14 DEF OutputOK

LEMMA OutputWaitWrite ==
    ASSUME OutputOK, WaitWrite
    PROVE  OutputOK'
<1>1. WriteOK(writer, offered) /\ writer \in WriteCalls /\ offered \in Nat
      /\ writer.op = "wait_write" /\ writer.state = "busy" /\ UNCHANGED <<offered, put>>
    BY DEF OutputOK, WriteOK, WaitWrite, Busy, output
<1>2. writer.wait # "non_blocking"
    BY <1>1 DEF WriteOK
<1>3. PICK l \in Nat : l = Len(writer.d)
    BY <1>1, ReachedRange
<1>4. PICK n \in Nat : n = writer.n /\ n <= l
    BY <1>1, <1>3, ReachedRange DEF WriteOK
<1>5. PICK rest \in Bytes : /\ rest = Erased(writer) /\ Len(rest) = l - n
                            /\ \A i \in 1 .. l - n : rest[i] = writer.d[n + i]
    <2>1. \A i \in n + 1 .. l : writer.d[i] \in Nat
        BY <1>1, <1>3, <1>4, ElementOfSeq DEF WriteCalls, Bytes
    <2>2. PICK p : p = SubSeq(writer.d, n + 1, l)
        OBVIOUS
    <2>3. /\ p \in Seq(Nat) /\ Len(p) = IF n + 1 <= l THEN l - (n + 1) + 1 ELSE 0
          /\ \A i \in 1 .. l - (n + 1) + 1 : p[i] = writer.d[(n + 1) + i - 1]
        BY <2>1, <2>2, SubSeqProperties
    <2>4. Len(p) = l - n /\ \A i \in 1 .. l - n : p[i] = writer.d[n + i]
        <3>1. (IF n + 1 <= l THEN l - (n + 1) + 1 ELSE 0) = l - n
            BY <1>4
        <3>2. \A i \in 1 .. l - n : i \in 1 .. l - (n + 1) + 1 /\ (n + 1) + i - 1 = n + i
            BY <1>4
        <3> QED
            BY <2>3, <3>1, <3>2
    <2> QED
        BY <1>3, <1>4, <2>2, <2>3, <2>4 DEF Erased, Bytes
<1>6. PICK state \in {"busy", "returned"} : state = IF n = l THEN "returned" ELSE "busy"
    OBVIOUS
<1>7. writer' = [writer EXCEPT !.op = "write", !.d = rest, !.state = state]
    BY <1>1, <1>3, <1>4, <1>5, <1>6 DEF WaitWrite
<1>8. /\ writer' \in WriteCalls
      /\ writer'.op = "write" /\ writer'.d = rest /\ writer'.state = state
      /\ writer'.n = writer.n /\ writer'.first = writer.first /\ writer'.wait = writer.wait
    BY <1>1, <1>5, <1>7 DEF WriteCalls
<1>9. Reached(writer', offered) = Reached(writer, offered)
    <2>1. Reached(writer, offered) = offered - l + n
        BY <1>1, <1>3, <1>4 DEF Reached
    <2>2. Reached(writer', offered) = offered - (l - n) + 0
        BY <1>5, <1>8 DEF Reached
    <2> QED
        BY <1>1, <2>1, <2>2
<1>10. WriteOK(writer, offered)'
    <2>1. \A i \in 1 .. l - n : rest[i] = offered - (l - n) + i
        <3> SUFFICES ASSUME NEW i \in 1 .. l - n
                     PROVE  rest[i] = offered - (l - n) + i
            OBVIOUS
        <3>1. n + i \in 1 .. l
            BY <1>4
        <3>2. writer.d[n + i] = offered - l + (n + i)
            BY <1>1, <1>3, <3>1 DEF WriteOK
        <3> QED
            BY <1>1, <1>5, <3>2
    <2>2. writer.first # 0 /\ writer.first \in Nat /\ writer.first + l <= offered + 1
        BY <1>1, <1>3, ReachedRange DEF WriteOK
    <2>3. writer.first + (l - n) <= offered + 1
        BY <1>1, <1>4, <2>2
    <2>4. state = "returned" => rest = <<>>
        BY <1>5, <1>6, EmptySeq DEF Bytes
    <2> QED
        BY <1>1, <1>2, <1>5, <1>8, <2>1, <2>2, <2>3, <2>4 DEF WriteOK
<1> QED
    BY <1>1, <1>8, <1>9, <1>10, OutputKept

LEMMA OutputStep ==
    ASSUME OutputOK, [IONext]_ioVars
    PROVE  OutputOK'
<1>1. ASSUME UNCHANGED <<offered, put, writer>>
      PROVE  OutputOK'
    BY <1>1 DEF OutputOK
<1>2. ASSUME NEW wait \in Waits, NEW len \in 0 .. MaxOut, WriteBegin(len, wait)
      PROVE  OutputOK'
    BY <1>2, BeginWrite, IOAssumption
<1>3. ASSUME NEW wait \in Waits,
             \/ \E n \in 0 .. MaxIn : ReadBegin("read", n, wait) \/ ReadBegin("read_all", n, wait)
             \/ \E expected \in Endings, len \in 0 .. MaxIn : UntilBegin(expected, len, wait)
      PROVE  UNCHANGED <<offered, put, writer>>
    BY <1>3 DEF ReadBegin, UntilBegin, output
<1>4. ASSUME Transmit \/ ResetOutput \/ Arrive \/ ReadSome \/ ReadNone \/ ReadThrow \/ ResetInput
             \/ UNCHANGED ioVars
      PROVE  UNCHANGED <<offered, put, writer>>
    BY <1>4 DEF Transmit, ResetOutput, Arrive, ReadSome, ReadNone, ReadThrow, ResetInput, ioVars, output
<1> QED
    BY <1>1, <1>2, <1>3, <1>4, BeginFlush, OutputThrow, OutputFlushed, OutputWaited, OutputWriteSome,
       OutputWaitWrite DEF IONext

-----------------------------------------------------------------------------
(* The theorems.                                                           *)

IOInv == InputOK /\ OutputOK

LEMMA IOInitOK == IOInit => IOInv
<1> SUFFICES ASSUME IOInit
             PROVE  IOInv
    OBVIOUS
<1>1. <<>> \in Bytes /\ Len(<<>>) = 0 /\ <<>> \o <<>> = <<>>
    BY EmptySeq, ConcatEmptySeq DEF Bytes
<1>2. Before(<<>>) /\ ToSet(<<>>) = {}
    BY DEF Before, ToSet
<1>3. NoRead \in ReadCalls /\ NoWrite \in WriteCalls
    BY <1>1 DEF NoRead, NoWrite, ReadCalls, WriteCalls, Waits
<1>4. ReadOK(NoRead)
    BY <1>1, <1>3 DEF ReadOK, NoRead
<1>5. WriteOK(NoWrite, 0) /\ Reached(NoWrite, 0) = 0
    BY <1>1, <1>3 DEF WriteOK, NoWrite, Reached
<1>6. InputOK
    <2>1. Handed(<<>>)
        BY <1>1 DEF IOInit, NoRead, Handed
    <2> QED
        BY <1>1, <1>2, <1>4, <2>1 DEF IOInit, InputOK
<1>7. OutputOK
    <2>1. writer.first = 1
        BY DEF IOInit, NoWrite
    <2>2. \A x \in Nat : x >= 1 => ~(x <= 0)
        OBVIOUS
    <2> QED
        BY <1>1, <1>2, <1>5, <2>1, <2>2 DEF IOInit, OutputOK
<1> QED
    BY <1>6, <1>7 DEF IOInv

LEMMA IOCorrect == IOSpec => []IOInv
<1>1. IOInv /\ [IONext]_ioVars => IOInv'
    BY InputStep, OutputStep DEF IOInv
<1> QED
    BY <1>1, IOInitOK, PTL DEF IOSpec

\* No byte is lost, repeated or moved on its way to a reader or from a
\* writer, for any lengths, endings and timeouts.
THEOREM BytesInOrderCorrect == IOSpec => []BytesInOrder
<1>1. ASSUME IOInv PROVE BytesInOrder
    <2>1. IsSuffix(reader.b \o reader.temp, handed)
        <3>1. PICK u \in Bytes : handed = u \o (reader.b \o reader.temp)
            BY <1>1 DEF IOInv, InputOK, Handed
        <3>2. PICK s \in Bytes : s = reader.b \o reader.temp
            BY <1>1, ConcatProperties DEF IOInv, InputOK, ReadOK, ReadCalls, Bytes
        <3> QED
            BY <3>1, <3>2, TailIsSuffix
    <2>2. ASSUME NEW x \in ToSet(put), NEW y \in writer.first .. offered, x >= writer.first, y < x
          PROVE  y \in ToSet(put)
        <3>1. /\ WriteOK(writer, offered) /\ offered \in Nat /\ put \in Bytes
              /\ Reached(writer, offered) \in Nat /\ writer.first \in Nat
            BY <1>1, ReachedRange DEF IOInv, OutputOK
        <3>2. x \in Nat
            BY <3>1, ElementsOf, ElementOfSeq DEF Bytes
        <3>3. x <= Reached(writer, offered)
            BY <1>1, <2>2, <3>2 DEF IOInv, OutputOK
        <3>4. y \in Nat /\ y >= writer.first /\ y <= Reached(writer, offered)
            BY <2>2, <3>1, <3>2, <3>3
        <3> QED
            BY <1>1, <3>4 DEF IOInv, OutputOK
    <2> QED
        BY <1>1, <2>1, <2>2 DEF IOInv, InputOK, OutputOK, BytesInOrder
<1> QED
    BY <1>1, IOCorrect, PTL

\* A call that returned did what it was asked for or says why not.
THEOREM CallsDeliverCorrect == IOSpec => []CallsDeliver
<1>1. ASSUME IOInv PROVE CallsDeliver
    <2>1. /\ ReadOK(reader) /\ reader.b \in Bytes /\ reader.expected \in Bytes
          /\ WriteOK(writer, offered) /\ offered \in Nat
          /\ reader.op \in {"read", "read_all", "read_until"}
          /\ writer.op \in {"write", "wait_write", "flush"}
        BY <1>1 DEF IOInv, InputOK, OutputOK, ReadOK, ReadCalls, WriteOK, WriteCalls
    <2>2. reader.state = "returned" =>
              IF reader.op # "read_until" THEN Len(reader.b) = reader.n \/ reader.late
              ELSE \/ reader.due \/ Ends(reader.b, reader.expected)
                   \/ reader.n # 0 /\ Len(reader.b) = reader.n
        BY <2>1 DEF ReadOK
    <2>3. reader.op = "read_until" =>
              \A k \in 1 .. Len(reader.b) - 1 : ~IsSuffix(reader.expected, SubSeq(reader.b, 1, k))
        BY <2>1 DEF ReadOK, NoEarlyEnd
    <2>4. ASSUME writer.state = "returned", writer.op # "flush",
                 NEW told, told = IF writer.wait = "non_blocking" THEN writer.n
                                  ELSE offered + 1 - writer.first
          PROVE  ToSet(put) \cap (writer.first .. offered) = writer.first .. writer.first + told - 1
        <3>1. /\ Reached(writer, offered) \in Nat /\ Reached(writer, offered) <= offered
              /\ writer.first \in Nat /\ writer.n \in Nat /\ Len(writer.d) \in Nat
            BY <2>1, ReachedRange
        <3>2. writer.first + told - 1 = Reached(writer, offered)
            <4>1. CASE writer.wait = "non_blocking"
                <5>1. Len(writer.d) = offered + 1 - writer.first
                    BY <2>1, <2>4, <4>1 DEF WriteOK
                <5>2. Reached(writer, offered) = offered - Len(writer.d) + writer.n
                    <6>1. CASE writer.op = "wait_write"
                        BY <6>1 DEF Reached
                    <6>2. CASE writer.op = "write"
                        BY <2>1, <4>1, <6>2 DEF WriteOK, Reached
                    <6> QED
                        BY <2>1, <2>4, <6>1, <6>2
                <5>3. told = writer.n
                    BY <2>4, <4>1
                <5>4. PICK f \in Nat : f = writer.first
                    BY <3>1
                <5>5. PICK n \in Nat : n = writer.n
                    BY <3>1
                <5>6. f + n - 1 = offered - (offered + 1 - f) + n
                    BY <2>1, <5>4, <5>5
                <5> QED
                    BY <5>1, <5>2, <5>3, <5>4, <5>5, <5>6
            <4>2. CASE writer.wait # "non_blocking"
                <5>1. writer.op = "write" /\ Len(writer.d) = 0
                    BY <2>1, <2>4, <4>2 DEF WriteOK
                <5> QED
                    BY <2>1, <2>4, <3>1, <4>2, <5>1 DEF Reached
            <4> QED
                BY <4>1, <4>2
        <3>3. ASSUME NEW x \in writer.first .. offered
              PROVE  x \in ToSet(put) <=> x <= Reached(writer, offered)
            <4>1. x \in Nat /\ x >= writer.first
                BY <2>1, <3>1
            <4> QED
                BY <1>1, <4>1 DEF IOInv, OutputOK
        <3>4. \A x : x \in writer.first .. Reached(writer, offered)
                        <=> x \in writer.first .. offered /\ x <= Reached(writer, offered)
            BY <2>1, <3>1
        <3> QED
            BY <3>2, <3>3, <3>4
    <2> QED
        BY <2>2, <2>3, <2>4 DEF CallsDeliver
<1> QED
    BY <1>1, IOCorrect, PTL

=============================================================================
