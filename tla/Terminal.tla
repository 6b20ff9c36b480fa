------------------------------ MODULE Terminal ------------------------------
(***************************************************************************)
(* configure_port (serial_posix.c) on one terminal, called any number of   *)
(* times, by anybody and with any configuration.  The lock that it takes   *)
(* first is in SerialPort.                                                 *)
(***************************************************************************)
EXTENDS Termios

CONSTANTS
    Initially,   \* what the terminal may be set to before the first call
    Requests     \* the configurations that calls give

ASSUME RequestAssumption == \A config \in Requests :
    /\ config.inter_byte_timeout \in Int
    /\ config.xonxoff \in BOOLEAN /\ config.rtscts \in BOOLEAN

VARIABLES
    settings,    \* of the terminal
    request,     \* history: the configuration of the last call
    result       \* what it returned, "none" before the first one

terminalVars == <<settings, request, result>>

TerminalInit == settings \in Initially /\ request = <<>> /\ result = "none"

\* The last alternative is a lock, tcgetattr or tcsetattr that fails.
Call(config) ==
    /\ request' = config
    /\ \/ settings' \in Configured(settings, config) /\ result' = "ok"
       \/ Configured(settings, config) = {} /\ result' = "EINVAL" /\ UNCHANGED settings
       \/ result' = "errno" /\ UNCHANGED settings

TerminalNext == \E config \in Requests : Call(config)

TerminalSpec == TerminalInit /\ [][TerminalNext]_terminalVars

-----------------------------------------------------------------------------
\* Whatever the terminal was set to and went through, it does what it was asked
\* for last, to the time between bytes in tenths of a second; a call is refused
\* just when a value has no case in its switch or the time does not fit; to ask
\* again changes nothing.  A time whose tenths do not fit an int32_t may be taken
\* for another one; even and odd parity may be Stuck.
SettingsApplied ==
    LET timeout == request.inter_byte_timeout
        fits == timeout * 10 < 2 ^ (IntWidth - 1)
    IN  result \in {"ok", "EINVAL"} =>
           /\ fits => (result = "EINVAL" <=> ~Known(request) \/ timeout > 25)
           /\ result = "ok" =>
                 /\ Known(request) /\ Agrees(settings, request)
                 /\ fits /\ timeout >= 0 => settings.vtime = 10 * timeout
                 /\ Configured(settings, request) = {settings}

\* The enumerators that the header calls the last ones and ..._INVALID are refused
\* (serial_common.h:54, 67, 79, 90).  This is NOT so, three of them have the values
\* of good ones; no run claims it.
InvalidIsRefused ==
    result = "ok" =>
        /\ request.baudrate # BAUD_INVALID /\ request.parity # PARITY_INVALID
        /\ request.bytesize # SIZE_INVALID /\ request.stopbits # STOPBITS_INVALID

\* A configured port has the parity it was configured with (serial_posix.c:258),
\* whatever it had before.  This is NOT so, nothing turns CMSPAR off; no run claims it.
ParityApplied == result = "ok" => ParityOf(settings.flags) = request.parity
=============================================================================
