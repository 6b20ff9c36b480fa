------------------------------- MODULE Logger -------------------------------
(***************************************************************************)
(* The loggers (logging/logger.cpp) and the macros of log.hpp.  Modules of *)
(* the program, each with a thread of its own, register a logger by name;  *)
(* those that use one name share it.  Calls of a logger hold its lock and  *)
(* are one step; a macro that makes two of them is two.                    *)
(***************************************************************************)
EXTENDS Naturals

CONSTANTS
    Modules,
    Names,        \* names of loggers
    NameOf,       \* the name each module uses
    Levels        \* levels that occur

Off == 60
Debug == 10

VARIABLES
    level,        \* _level of the logger of a name; 0 before it is made
    hooks,        \* its callbacks: whether levels are set, and asked for, and
                  \* the levels whose messages are handed over
    outside,      \* the level that the logging system behind the callbacks has
    saved,        \* __saved_level__
    step,         \* where each module is
    before,       \* history: the level that a module saved
    message       \* the last message: its level and what became of it

loggerVars == <<level, hooks, outside, saved, step, before, message>>

NoHooks == [set |-> FALSE, get |-> FALSE, sinks |-> {}]
Silence == [level |-> 0, to |-> "nobody"]

LoggerInit ==
    /\ level = [n \in Names |-> 0]
    /\ hooks = [n \in Names |-> NoHooks]
    /\ outside \in [Names -> Levels]
    /\ saved = [m \in Modules |-> 0]
    /\ step = [m \in Modules |-> "unregistered"]
    /\ before = [m \in Modules |-> 0]
    /\ message = Silence

Stands(m, where) == step[m] = where
Moves(m, where) == step' = [step EXCEPT ![m] = where]

\* get_log_level
LevelOf(n) == IF hooks[n].get THEN outside[n] ELSE level[n]

\* set_log_level
SetLogLevel(n, new) ==
    /\ level' = [level EXCEPT ![n] = new]
    /\ outside' = IF hooks[n].set THEN [outside EXCEPT ![n] = new] ELSE outside

-----------------------------------------------------------------------------
\* LOG_MODULE_REGISTER and find_logger: the logger of a name keeps the level of
\* the module that came first.
Register(m, new) ==
    /\ Stands(m, "unregistered")
    /\ level' = [level EXCEPT ![NameOf[m]] = IF @ = 0 THEN new ELSE @]
    /\ saved' = [saved EXCEPT ![m] = new]
    /\ Moves(m, "idle")
    /\ UNCHANGED <<hooks, outside, before, message>>

\* The rule: from a save to its restore no other user of the logger, this
\* module included, saves or sets its level.
Alone(m) == \A o \in Modules : NameOf[o] = NameOf[m] => step[o] \in {"unregistered", "idle"}

\* SAVE_LOG_LEVEL_AND_OVERRIDE and ..._AND_FORCE: the old level is read, then
\* the new one is set; to override, only if it lets more through.
Save(m, how) ==
    /\ Stands(m, "idle") /\ Alone(m)
    /\ saved' = [saved EXCEPT ![m] = LevelOf(NameOf[m])]
    /\ before' = [before EXCEPT ![m] = LevelOf(NameOf[m])]
    /\ Moves(m, how)
    /\ UNCHANGED <<level, hooks, outside, message>>

Replace(m, new) ==
    /\ step[m] \in {"override", "force"}
    /\ IF Stands(m, "force") \/ new < saved[m] THEN SetLogLevel(NameOf[m], new)
                                           ELSE UNCHANGED <<level, outside>>
    /\ Moves(m, "replaced")
    /\ UNCHANGED <<hooks, saved, before, message>>

\* Fault: the level at registration is what comes back.
Restored_Level(m) == level[NameOf[m]]

Restored(m) == saved[m]

\* RESTORE_LOG_LEVEL
Restore(m) ==
    /\ Stands(m, "replaced")
    /\ SetLogLevel(NameOf[m], Restored(m))
    /\ Moves(m, "restored")
    /\ UNCHANGED <<hooks, saved, before, message>>

\* The block between a save and its restore is over.
Return(m) ==
    /\ Stands(m, "restored")
    /\ Moves(m, "idle")
    /\ UNCHANGED <<level, hooks, outside, saved, before, message>>

\* SET_LOG_LEVEL
SetLevel(m, new) ==
    /\ Stands(m, "idle") /\ Alone(m)
    /\ SetLogLevel(NameOf[m], new)
    /\ UNCHANGED <<hooks, saved, step, before, message>>

\* Fault: the system behind new callbacks is not told the level.
Told_Nothing(n, new) == outside

Told(n, new) == IF new.set THEN [outside EXCEPT ![n] = level[n]] ELSE outside

\* LOG_MODULE_REGISTER_CALLBACKS: at any time, by any user.
RegisterCallbacks(m, new) ==
    /\ step[m] # "unregistered"
    /\ hooks' = [hooks EXCEPT ![NameOf[m]] = new]
    /\ outside' = Told(NameOf[m], new)
    /\ UNCHANGED <<level, saved, step, before, message>>

\* _log_dbg ... _log_crit: a callback has the message whatever the level;
\* without one it is printed if the level lets it through, and for a debug
\* message is the level of debug messages.
Outlet(n, at) ==
    LET loud == IF at = Debug THEN level[n] = Debug ELSE level[n] <= at
    IN  IF at \in hooks[n].sinks THEN "callback" ELSE IF loud THEN "terminal" ELSE "nobody"

\* LOG_DBG ... LOG_CRIT and their ..._HEXDUMP.
Log(m, at) ==
    /\ step[m] # "unregistered" /\ at # Off
    /\ message' = [level |-> at, to |-> Outlet(NameOf[m], at)]
    /\ UNCHANGED <<level, hooks, outside, saved, step, before>>

Hooks == [set : BOOLEAN, get : BOOLEAN, sinks : {{}, Levels}]

LoggerNext ==
    \E m \in Modules :
        \/ \E how \in {"override", "force"} : Save(m, how)
        \/ \E new \in Levels : Register(m, new) \/ Replace(m, new) \/ SetLevel(m, new) \/ Log(m, new)
        \/ \E new \in Hooks : RegisterCallbacks(m, new)
        \/ Restore(m) \/ Return(m)

LoggerSpec == LoggerInit /\ [][LoggerNext]_loggerVars

-----------------------------------------------------------------------------
\* A logging system whose callbacks set and tell the level has the level that
\* the logger itself prints by, whenever the callbacks came.
LevelsAgree ==
    \A n \in Names : hooks[n].set /\ hooks[n].get /\ level[n] # 0 => outside[n] = level[n]

\* What a module saved is the logger's level again when it restores it, however
\* the level was replaced and whatever callbacks were registered in between; a
\* system that tells its level but is never told one keeps its own.
RestoreGivesBack ==
    \A m \in Modules : Stands(m, "restored") =>
        \/ LevelOf(NameOf[m]) = before[m]
        \/ hooks[NameOf[m]].get /\ ~hooks[NameOf[m]].set
=============================================================================
