-------------------------------- MODULE Task --------------------------------
(***************************************************************************)
(* ares::Task (work-q/task.hpp), used by several threads: a handler that   *)
(* start() runs in a thread of its own and run() in the caller's.  Each    *)
(* section under _state_lock is one step; the creation of the thread, the  *)
(* handler, and the wait of a join lie between two of them.                *)
(***************************************************************************)
EXTENDS Naturals

CONSTANTS
    Users,       \* threads that use the task
    MaxRuns      \* bound: starts and runs

VARIABLES
    state,       \* _state
    essential,   \* _essential
    future,      \* _future: whether there is one, if it is ready, and of which run
    thread,      \* _thread: "none" is not joinable; "ended" is, and is over
    runs,        \* runs so far
    pc,          \* where each user is
    aborted,     \* std::abort() was called
    lost         \* the system had no thread to give

taskVars == <<state, essential, future, thread, runs, pc, aborted, lost>>

NoFuture == [is |-> "none", of |-> 0]

TaskInit ==
    /\ state = "READY"
    /\ essential = FALSE
    /\ future = NoFuture
    /\ thread = "none"
    /\ runs = 0
    /\ pc = [u \in Users |-> "idle"]
    /\ aborted = FALSE
    /\ lost = FALSE

At(u, where) == ~aborted /\ pc[u] = where
Goto(u, where) == pc' = [pc EXCEPT ![u] = where]

-----------------------------------------------------------------------------
\* Fault: a task that is running may be started again.
MayInit_Always == TRUE

MayInit == state # "RUNNING"

\* _init_task; a task that is running throws.
InitTask ==
    /\ MayInit /\ runs < MaxRuns
    /\ state' = "RUNNING"
    /\ runs' = runs + 1
    /\ future' = [is |-> "pending", of |-> runs + 1]

Start(u) ==
    /\ At(u, "idle") /\ InitTask
    /\ Goto(u, "create")
    /\ UNCHANGED <<essential, thread, aborted, lost>>

\* std::thread's constructor; the assignment of a thread to one that is
\* joinable ends the program.  If the constructor throws the task is gone, its
\* future is one of a broken promise, and the state stays as it is for ever.
Create(u) ==
    /\ At(u, "create")
    /\ \/ /\ thread' = "running"
          /\ aborted' = (thread # "none")
          /\ UNCHANGED <<future, lost>>
       \/ /\ lost' = TRUE
          /\ future' = [future EXCEPT !.is = "ready"]
          /\ UNCHANGED <<thread, aborted>>
    /\ Goto(u, "idle")
    /\ UNCHANGED <<state, essential, runs>>

\* The handler returns or throws; what an essential one throws aborts.
HandlerEnd ==
    /\ future' = [future EXCEPT !.is = "ready"]
    /\ aborted' \in {FALSE, essential}

ThreadEnd ==
    /\ ~aborted /\ thread = "running"
    /\ HandlerEnd
    /\ thread' = "ended"
    /\ UNCHANGED <<state, essential, runs, pc, lost>>

Run(u) ==
    /\ At(u, "idle") /\ InitTask
    /\ Goto(u, "handler")
    /\ UNCHANGED <<essential, thread, aborted, lost>>

RunHandlerEnd(u) ==
    /\ At(u, "handler")
    /\ HandlerEnd
    /\ Goto(u, "set_joined")
    /\ UNCHANGED <<state, essential, thread, runs, lost>>

\* The rule: a thread is joined by one user at a time.
NobodyJoins == \A u \in Users : pc[u] # "join"

\* join(): with a time limit it waits for the future, which must be there, and
\* goes on only if it is ready.  Without a thread it is -EALREADY at once.
Join(u, timed) ==
    /\ At(u, "idle") /\ NobodyJoins
    /\ timed => future.is = "ready"
    /\ thread # "none"
    /\ Goto(u, "join")
    /\ UNCHANGED <<state, essential, future, thread, runs, aborted, lost>>

\* Fault: join does not wait for the end of the thread.
Joinable_Running == thread # "none"

Joinable == thread = "ended"

Joined(u) ==
    /\ At(u, "join") /\ Joinable
    /\ thread' = "none"
    /\ Goto(u, "set_joined")
    /\ UNCHANGED <<state, essential, future, runs, aborted, lost>>

\* The end of run() and of join().
SetJoined(u) ==
    /\ At(u, "set_joined")
    /\ state' = "JOINED"
    /\ Goto(u, "idle")
    /\ UNCHANGED <<essential, future, thread, runs, aborted, lost>>

\* get(); it throws unless the task was joined.
Get(u) ==
    /\ At(u, "idle") /\ state = "JOINED"
    /\ state' = "READY"
    /\ future' = NoFuture
    /\ UNCHANGED <<essential, thread, runs, pc, aborted, lost>>

\* set_essential(), and set_name() alike: -EBUSY while the task runs.
SetEssential(u, value) ==
    /\ At(u, "idle") /\ state # "RUNNING"
    /\ essential' = value
    /\ UNCHANGED <<state, future, thread, runs, pc, aborted, lost>>

TaskNext ==
    \/ ThreadEnd
    \/ \E u \in Users :
          \/ Start(u) \/ Create(u) \/ Run(u) \/ RunHandlerEnd(u)
          \/ Joined(u) \/ SetJoined(u) \/ Get(u)
          \/ \E flag \in BOOLEAN : Join(u, flag) \/ SetEssential(u, flag)

TaskSpec == TaskInit /\ [][TaskNext]_taskVars

-----------------------------------------------------------------------------
Working == thread # "none" \/ \E u \in Users : pc[u] \in {"create", "handler", "set_joined"}

\* The state says what the task does: it is RUNNING as long as somebody is
\* about to create its thread, runs its handler, or has yet to join it, so that
\* no run begins while another lasts, and after that only if there was no thread
\* to give; and once it is JOINED the result of the last run is there, so that
\* get() does not wait with the lock held.
StateIsTrue ==
    ~aborted =>
        /\ state = "RUNNING" <=> Working \/ lost
        /\ state = "JOINED" => future = [is |-> "ready", of |-> runs]
=============================================================================
