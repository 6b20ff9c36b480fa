------------------------------- MODULE WorkQ -------------------------------
(***************************************************************************)
(* The work queues of ares-common: class WorkQ and struct Work             *)
(* (src/src/work-q/work_q.cpp).  Each queue owns a list of pending nodes   *)
(* and one thread that takes them in turn and runs their handlers.         *)
(* Application threads submit, cancel, flush, drain, plug, stop and        *)
(* destroy; handlers may themselves submit and cancel.                     *)
(*                                                                         *)
(* Every critical section of the one global spinlock (work_q.cpp:21) is    *)
(* one action: what it protects is touched nowhere else once a queue is    *)
(* started.  The three objects used outside the lock have steps of their   *)
(* own: waiting on notifyq (Wake), on drainq (DrainReturn) and on the      *)
(* semaphore of a flusher or canceller (FlushReturn, CancelReturn).        *)
(*                                                                         *)
(* A client c also stands for the WorkFlusher or the WorkCanceller on its  *)
(* stack, so that the nodes of a pending list are works and clients.       *)
(* A queue q also stands for the thread that animates it.                  *)
(*                                                                         *)
(* A call that returns an error or 0 without changing anything is a        *)
(* stuttering step.                                                        *)
(***************************************************************************)
EXTENDS Naturals, FiniteSets, SequencesExt

CONSTANTS
    Queues,       \* the WorkQ objects
    Works,        \* the Work objects
    Clients,      \* application threads
    NoQueue,      \* a null WorkQ*
    None,         \* no object
    Handlers,     \* work_handler_t values
    Calls,        \* what the program calls, see AllCalls
    Discipline    \* rules the program keeps when it calls, see AllRules

AllCalls == {"start", "run", "submit", "resubmit", "chained", "cancel",
             "cancel_sync", "flush", "set_handler", "drain", "plug",
             "unplug", "stop", "stop_for", "destroy", "throw"}

(***************************************************************************)
(* The rules: one queue_drain at a time on a queue, one work_cancel_sync   *)
(* at a time on a work, no stop() during a drain, no drain after a stop(), *)
(* no queue_unplug of a queue that is being stopped or destroyed, no start *)
(* or run of a queue whose handler threw.                                  *)
(***************************************************************************)
AllRules == {"one_drainer", "one_canceller", "stop_after_drain",
             "no_drain_after_stop", "stay_plugged", "no_relaunch"}

ASSUME DistinctObjects ==
    /\ Works \cap Clients = {} /\ Works \cap Queues = {}
    /\ Clients \cap Queues = {}
    /\ NoQueue \notin Queues
    /\ None \notin Works \cup Clients \cup Queues

ASSUME CallsAssumption == Calls \subseteq AllCalls /\ Discipline \subseteq AllRules

ASSUME HandlersAssumption == Handlers # {}

Nodes == Works \cup Clients
Threads == Clients \cup Queues

WorkFlags == {"RUNNING", "CANCELING", "QUEUED"}
FlusherFlags == {"RUNNING", "FLUSHING"}
QueueFlags == {"STARTED", "BUSY", "DRAIN", "PLUGGED", "STOP"}

VARIABLES
    wflags,    \* Work::flags, of works and of the work inside a flusher
    wqueue,    \* Work::queue
    handler,   \* Work::handler
    pending,   \* WorkQ::pending
    qflags,    \* WorkQ::flags
    notifyq,   \* WorkQ::notifyq, a bounded_queue<uint8_t, 1, true>: full?
    drainq,    \* WorkQ::drainq, likewise
    cancels,   \* pending_cancels, the clients whose canceller is linked
    worker,    \* where the thread of a queue is in work_queue_main
    cur,       \* its local `work` while a handler runs
    running,   \* its local `handler`
    joinable,  \* WorkQ::_thread holds a thread that nobody joined
    life,      \* "open", "closing" once ~WorkQ began, "destroyed"
    call,      \* the blocking call a client is in
    on,        \* the work or the queue that call is about
    sem,       \* the semaphore on the client's stack has been given
    waits,     \* history: what became of the instance a client waits for
    drained    \* history: the queue was seen empty since the drain began

queueVars == <<pending, qflags, notifyq, drainq>>
workerVars == <<worker, cur, running>>
lifeVars == <<joinable, life>>
callVars == <<call, on, sem>>
ghostVars == <<waits, drained>>
vars == <<wflags, wqueue, handler, queueVars, cancels, workerVars, lifeVars,
          callVars, ghostVars>>

Blocking == {"flush", "cancel_sync", "drain", "stop", "stop_for", "run",
             "destroy", "join"}

TypeOK ==
    /\ wflags \in [Nodes -> SUBSET (WorkFlags \cup FlusherFlags)]
    /\ \A w \in Works : wflags[w] \subseteq WorkFlags
    /\ \A c \in Clients : wflags[c] \subseteq FlusherFlags
    /\ wqueue \in [Works -> Queues \cup {NoQueue}]
    /\ handler \in [Works -> Handlers]
    /\ pending \in [Queues -> Seq(Nodes)]
    /\ qflags \in [Queues -> SUBSET QueueFlags]
    /\ notifyq \in [Queues -> BOOLEAN]
    /\ drainq \in [Queues -> BOOLEAN]
    /\ cancels \in Seq(Clients)
    /\ worker \in [Queues -> {"unborn", "top", "wait", "handler", "gone", "dead"}]
    /\ cur \in [Queues -> Nodes \cup {None}]
    /\ running \in [Queues -> Handlers \cup {None}]
    /\ joinable \in [Queues -> BOOLEAN]
    /\ life \in [Queues -> {"open", "closing", "destroyed"}]
    /\ call \in [Clients -> Blocking \cup {"idle"}]
    /\ on \in [Clients -> Works \cup Queues \cup {None}]
    /\ sem \in [Clients -> BOOLEAN]
    /\ waits \in [Clients -> {"none", "queued", "running", "over"}]
    /\ drained \in [Clients -> BOOLEAN]

Init ==
    /\ wflags = [n \in Nodes |-> {}]
    /\ wqueue = [w \in Works |-> NoQueue]
    /\ handler \in [Works -> Handlers]
    /\ pending = [q \in Queues |-> <<>>]
    /\ qflags = [q \in Queues |-> {}]
    /\ notifyq = [q \in Queues |-> FALSE]
    /\ drainq = [q \in Queues |-> FALSE]
    /\ cancels = <<>>
    /\ worker = [q \in Queues |-> "unborn"]
    /\ cur = [q \in Queues |-> None]
    /\ running = [q \in Queues |-> None]
    /\ joinable = [q \in Queues |-> FALSE]
    /\ life = [q \in Queues |-> "open"]
    /\ call = [c \in Clients |-> "idle"]
    /\ on = [c \in Clients |-> None]
    /\ sem = [c \in Clients |-> FALSE]
    /\ waits = [c \in Clients |-> "none"]
    /\ drained = [c \in Clients |-> FALSE]

-----------------------------------------------------------------------------
(* Who may call what.                                                      *)

\* A client makes one call at a time; a handler makes only calls that do
\* not block (a blocking call on the handler's own queue is documented as
\* undefined, work_q.hpp:128, 164, and hangs the queue).
MayCall(t) ==
    \/ t \in Clients /\ call[t] = "idle"
    \/ t \in Queues /\ worker[t] = "handler" /\ cur[t] \in Works /\ "chained" \in Calls

\* Nobody uses a queue that is being destroyed, but its own handlers.
Usable(t, q) == life[q] = "open" \/ (t = q /\ life[q] = "closing")

\* An idle work may outlive the queue it last ran on: its calls look at the
\* queue only while one of the work's flags is set.
Reaches(t, w) == wflags[w] # {} => Usable(t, wqueue[w])

\* The calls that join the thread of q; std::thread is not to be joined by
\* two threads at once.
Joining(q) == {c \in Clients : on[c] = q /\ call[c] \in {"stop", "stop_for", "destroy", "join"}}

Ended(q) == worker[q] \in {"gone", "dead"}

Enter(c, what, x) ==
    /\ call' = [call EXCEPT ![c] = what]
    /\ on' = [on EXCEPT ![c] = x]

Leave(c) ==
    /\ call' = [call EXCEPT ![c] = "idle"]
    /\ on' = [on EXCEPT ![c] = None]

-----------------------------------------------------------------------------
(* Lists and tokens.                                                       *)

\* Where a node stands in a list; 0 when it does not.
Where(s, n) == SelectInSeq(s, LAMBDA m : m = n)

AtMostOnce(s, n) == \A i, j \in 1 .. Len(s) : s[i] = n /\ s[j] = n => i = j

\* sys_slist_insert after the node of w.
InsertAfter(s, w, c) == InsertAt(s, Where(s, w) + 1, c)

\* Faults: the flusher always goes first; it is linked only if the work is queued.
FlusherPlace_First(s, w, c) == Cons(c, s)
FlusherPlace_QueuedOnly(s, w, c) ==
    IF "QUEUED" \in wflags[w] THEN InsertAfter(s, w, c) ELSE s

\* WorkQ::flusher_locked: right behind the queued instance, else first, so
\* that the flusher runs next once the running instance is over.
FlusherPlace(s, w, c) ==
    IF "QUEUED" \in wflags[w] THEN InsertAfter(s, w, c) ELSE Cons(c, s)

\* Fault: the thread is not notified.
Notify_Dropped(q) == notifyq

\* notifyq.put_nonblocking(0): the queue holds one token and overwrites it.
Notify(q) == [notifyq EXCEPT ![q] = TRUE]

SetPending(q, s) == pending' = [pending EXCEPT ![q] = s]

\* The work says that it is queued, but start() or run() dropped the list it was in.
Stranded(w) == "QUEUED" \in wflags[w] /\ ~Contains(pending[wqueue[w]], w)

\* History: clients that wait for an instance of w learn what became of it.
Waiters(w, from, to) ==
    [c \in Clients |-> IF on[c] = w /\ waits[c] = from THEN to ELSE waits[c]]

-----------------------------------------------------------------------------
(* Submission.                                                             *)

\* Fault: PLUGGED is not looked at.
Accepts_Plugged(t, q) ==
    "STARTED" \in qflags[q] /\ ("DRAIN" \in qflags[q] => t = q)

\* WorkQ::submit_locked(Work*): a queue that was started takes new work,
\* unless it drains and the caller is not its own thread, or it is plugged
\* and the drain is over.
Accepts(t, q) ==
    /\ "STARTED" \in qflags[q]
    /\ "DRAIN" \in qflags[q] => t = q
    /\ "PLUGGED" \in qflags[q] => "DRAIN" \in qflags[q]

\* Fault: a running work goes where the caller says.
Target_Given(w, q) == q

\* WorkQ::submit_locked(Work*, WorkQ**): a running work goes back to the
\* queue that runs it.
Target(w, q) == IF "RUNNING" \in wflags[w] THEN wqueue[w] ELSE q

\* Faults: one of the two flags is not tested.
Submittable_Queued(w) == "CANCELING" \notin wflags[w]
Submittable_Canceling(w) == "QUEUED" \notin wflags[w]

\* A work that is being cancelled is refused, one that is queued stays put.
Submittable(w) == wflags[w] \cap {"CANCELING", "QUEUED"} = {}

SubmitLocked(t, w, q) ==
    /\ Submittable(w)
    /\ Usable(t, q)
    /\ Accepts(t, q)
    /\ SetPending(q, Append(pending[q], w))
    /\ notifyq' = Notify(q)
    /\ wflags' = [wflags EXCEPT ![w] = @ \cup {"QUEUED"}]
    /\ wqueue' = [wqueue EXCEPT ![w] = q]
    /\ UNCHANGED <<handler, qflags, drainq, cancels, workerVars, lifeVars,
                   callVars, ghostVars>>

\* WorkQ::submit
Submit(t, w, q) ==
    /\ "submit" \in Calls
    /\ MayCall(t) /\ Usable(t, q)
    /\ SubmitLocked(t, w, Target(w, q))

\* Work::resubmit, reached from work_submit_to_queue with a null queue
Resubmit(t, w) ==
    /\ "resubmit" \in Calls
    /\ MayCall(t)
    /\ wqueue[w] # NoQueue
    /\ SubmitLocked(t, w, wqueue[w])

\* Fault: the busy test is missing.
HandlerMayChange_Always(w) == TRUE

\* Work::set_new_work_handler
HandlerMayChange(w) == wflags[w] = {}

SetHandler(t, w, h) ==
    /\ "set_handler" \in Calls
    /\ MayCall(t)
    /\ HandlerMayChange(w)
    /\ handler' = [handler EXCEPT ![w] = h]
    /\ UNCHANGED <<wflags, wqueue, queueVars, cancels, workerVars, lifeVars,
                   callVars, ghostVars>>

-----------------------------------------------------------------------------
(* Cancelling and flushing.                                                *)

\* Work::cancel_async_locked: unlink the work if it is queued; if it then
\* still runs, mark it.
Unlinks(w) == "CANCELING" \notin wflags[w] /\ "QUEUED" \in wflags[w]

PendingWithout(w) ==
    IF Unlinks(w) THEN [pending EXCEPT ![wqueue[w]] = RemoveFirst(@, w)]
                  ELSE pending

CancelledFlags(w) ==
    LET left == IF Unlinks(w) THEN wflags[w] \ {"QUEUED"} ELSE wflags[w]
    IN  IF left = {} THEN {} ELSE left \cup {"CANCELING"}

CancelAsync(w) ==
    /\ pending' = PendingWithout(w)
    /\ wflags' = [wflags EXCEPT ![w] = CancelledFlags(w)]

\* Work::work_cancel
Cancel(t, w) ==
    /\ "cancel" \in Calls
    /\ MayCall(t) /\ Reaches(t, w)
    /\ wflags[w] # {}
    /\ CancelAsync(w)
    /\ waits' = Waiters(w, "queued", "over")
    /\ UNCHANGED <<wqueue, handler, qflags, notifyq, drainq, cancels,
                   workerVars, lifeVars, callVars, drained>>

\* Faults: the node of the work is linked instead; nothing is linked.
Enlist_Work(c, w) == Append(cancels, w)
Enlist_Nothing(c, w) == cancels

\* WorkQ::init_canceller links the canceller at the end of pending_cancels.
Enlist(c, w) == Append(cancels, c)

NoCancelSyncOn(w) == ~ \E c \in Clients : call[c] = "cancel_sync" /\ on[c] = w

\* Work::work_cancel_sync up to the wait: it waits when the work runs.
CancelSync(c, w) ==
    /\ "cancel_sync" \in Calls
    /\ MayCall(c) /\ Reaches(c, w)
    /\ "one_canceller" \in Discipline => NoCancelSyncOn(w)
    /\ wflags[w] # {}
    /\ CancelAsync(w)
    /\ IF "CANCELING" \in CancelledFlags(w)
       THEN /\ Enter(c, "cancel_sync", w)
            /\ cancels' = Enlist(c, w)
            /\ waits' = [Waiters(w, "queued", "over") EXCEPT ![c] = "running"]
       ELSE /\ waits' = Waiters(w, "queued", "over")
            /\ UNCHANGED <<call, on, cancels>>
    /\ UNCHANGED <<wqueue, handler, qflags, notifyq, drainq, workerVars,
                   lifeVars, sem, drained>>

\* Work::work_flush up to the wait: it waits when the work is queued or runs.
\* Behind a stranded work the flusher comes last if the stale link is null, and
\* is in no list otherwise.
Flush(c, w) ==
    /\ "flush" \in Calls
    /\ MayCall(c) /\ Reaches(c, w)
    /\ wflags[w] \cap {"QUEUED", "RUNNING"} # {}
    /\ \/ ~Stranded(w) /\ SetPending(wqueue[w], FlusherPlace(pending[wqueue[w]], w, c))
       \/ Stranded(w) /\ SetPending(wqueue[w], Append(pending[wqueue[w]], c))
       \/ Stranded(w) /\ UNCHANGED pending
    /\ wflags' = [wflags EXCEPT ![c] = {"FLUSHING"}]
    /\ notifyq' = Notify(wqueue[w])
    /\ Enter(c, "flush", w)
    /\ waits' = [waits EXCEPT ![c] = IF "QUEUED" \in wflags[w] THEN "queued"
                                                               ELSE "running"]
    /\ UNCHANGED <<wqueue, handler, qflags, drainq, cancels, workerVars,
                   lifeVars, sem, drained>>

\* sem.take() of the flusher or of the canceller
SemTaken(c, what) ==
    /\ call[c] = what
    /\ sem[c]
    /\ sem' = [sem EXCEPT ![c] = FALSE]
    /\ waits' = [waits EXCEPT ![c] = "none"]
    /\ Leave(c)
    /\ UNCHANGED <<wflags, wqueue, handler, queueVars, cancels, workerVars,
                   lifeVars, drained>>

FlushReturn(c) == SemTaken(c, "flush")
CancelReturn(c) == SemTaken(c, "cancel_sync")

-----------------------------------------------------------------------------
(* The life of a queue.                                                    *)

\* Task::_init_task throws unless the task is new, was joined or ran in the
\* thread that called run(), whether its handler returned or threw.  start() and
\* run() do not take the spinlock: nobody else is in a call on the queue.
MayLaunch(q) ==
    /\ worker[q] = "unborn" \/ Ended(q)
    /\ "no_relaunch" \in Discipline => worker[q] # "dead"
    /\ ~joinable[q]
    /\ \A c \in Clients : on[c] # q

\* WorkQ::start and WorkQ::run before the thread's first step.  `run` lends
\* the calling thread, so there is no std::thread to join.  The flags of works are
\* left as they are: of those still in the list, and of the one that threw.
Launch(q) ==
    /\ MayLaunch(q)
    /\ qflags' = [qflags EXCEPT ![q] = {"STARTED"}]
    /\ SetPending(q, <<>>)
    /\ notifyq' = [notifyq EXCEPT ![q] = FALSE]
    /\ drainq' = [drainq EXCEPT ![q] = FALSE]
    /\ worker' = [worker EXCEPT ![q] = "top"]
    /\ cur' = [cur EXCEPT ![q] = None]
    /\ running' = [running EXCEPT ![q] = None]
    /\ UNCHANGED <<wflags, wqueue, handler, cancels, life, sem, ghostVars>>

Start(c, q) ==
    /\ "start" \in Calls
    /\ MayCall(c) /\ life[q] = "open"
    /\ Launch(q)
    /\ joinable' = [joinable EXCEPT ![q] = TRUE]
    /\ UNCHANGED <<call, on>>

Run(c, q) ==
    /\ "run" \in Calls
    /\ MayCall(c) /\ life[q] = "open"
    /\ Launch(q)
    /\ Enter(c, "run", q)
    /\ UNCHANGED joinable

\* WorkQ::run comes back when work_queue_main has.
RunReturn(c) ==
    /\ call[c] = "run"
    /\ Ended(on[c])
    /\ Leave(c)
    /\ UNCHANGED <<wflags, wqueue, handler, queueVars, cancels, workerVars,
                   lifeVars, sem, ghostVars>>

\* WorkQ::queue_drain waits when there is something to wait for, or to plug.
DrainWaits(q, plug) ==
    \/ qflags[q] \cap {"BUSY", "DRAIN"} # {}
    \/ plug
    \/ pending[q] # <<>>

\* Faults: the flag of the drain itself is missing; that of the plug is.
DrainFlags_NoDrain(plug) == IF plug THEN {"PLUGGED"} ELSE {}
DrainFlags_NoPlug(plug) == {"DRAIN"}

DrainFlags(plug) == IF plug THEN {"DRAIN", "PLUGGED"} ELSE {"DRAIN"}

\* What queue_drain does before drainq.get().
BeginDrain(c, q, plug) ==
    /\ "STARTED" \in qflags[q]
    /\ DrainWaits(q, plug)
    /\ qflags' = [qflags EXCEPT ![q] = @ \cup DrainFlags(plug)]
    /\ notifyq' = Notify(q)
    /\ drained' = [drained EXCEPT ![c] = FALSE]
    /\ UNCHANGED <<pending, drainq>>

NoDrainOn(q) == ~ \E c \in Clients : call[c] = "drain" /\ on[c] = q

Drain(c, q, plug) ==
    /\ (IF plug THEN "plug" ELSE "drain") \in Calls
    /\ MayCall(c) /\ life[q] = "open"
    /\ "one_drainer" \in Discipline => NoDrainOn(q)
    /\ "no_drain_after_stop" \in Discipline => "STOP" \notin qflags[q]
    /\ BeginDrain(c, q, plug)
    /\ Enter(c, "drain", q)
    /\ UNCHANGED <<wflags, wqueue, handler, cancels, workerVars, lifeVars,
                   sem, waits>>

\* drainq.get() has found a token.
TokenTaken(c, what) ==
    /\ call[c] = what
    /\ drainq[on[c]]
    /\ drainq' = [drainq EXCEPT ![on[c]] = FALSE]
    /\ UNCHANGED <<wflags, wqueue, handler, pending, cancels, workerVars,
                   lifeVars, sem, ghostVars>>

DrainReturn(c) ==
    /\ TokenTaken(c, "drain")
    /\ Leave(c)
    /\ UNCHANGED <<qflags, notifyq>>

\* WorkQ::queue_unplug
Unplug(t, q) ==
    /\ "unplug" \in Calls
    /\ MayCall(t) /\ Usable(t, q)
    /\ "stay_plugged" \in Discipline => "STOP" \notin qflags[q] /\ life[q] = "open"
    /\ "PLUGGED" \in qflags[q]
    /\ qflags' = [qflags EXCEPT ![q] = @ \ {"PLUGGED"}]
    /\ UNCHANGED <<wflags, wqueue, handler, pending, notifyq, drainq, cancels,
                   workerVars, lifeVars, callVars, ghostVars>>

\* WorkQ::stop up to the join: only a plugged queue stops.
Stoppable(q) == {"STARTED", "PLUGGED"} \subseteq qflags[q]

\* Fault: the thread is not notified of the stop.
AskStop_Silent(q) ==
    qflags' = [qflags EXCEPT ![q] = @ \cup {"STOP"}] /\ UNCHANGED notifyq

AskStop(q) ==
    /\ qflags' = [qflags EXCEPT ![q] = @ \cup {"STOP"}]
    /\ notifyq' = Notify(q)

Stop(c, q, how) ==
    /\ how \in {"stop", "stop_for"} \cap Calls
    /\ MayCall(c) /\ life[q] = "open"
    /\ Joining(q) = {}
    /\ "stop_after_drain" \in Discipline => "DRAIN" \notin qflags[q]
    /\ Stoppable(q)
    /\ AskStop(q)
    /\ Enter(c, how, q)
    /\ UNCHANGED <<wflags, wqueue, handler, pending, drainq, cancels,
                   workerVars, lifeVars, sem, ghostVars>>

\* Fault: the thread is detached instead of joined.
Joined_Detached(q) == joinable' = [joinable EXCEPT ![q] = FALSE]

\* Task::join(): a thread that is not joinable is not waited for.
Joined(q) ==
    /\ joinable[q] => Ended(q)
    /\ joinable' = [joinable EXCEPT ![q] = FALSE]

\* stop() joins without a time limit.
StopReturn(c) ==
    /\ call[c] = "stop"
    /\ Joined(on[c])
    /\ Leave(c)
    /\ UNCHANGED <<wflags, wqueue, handler, queueVars, cancels, workerVars,
                   life, sem, ghostVars>>

\* stop(timeout) first waits for the future of the task, which is ready once
\* work_queue_main is over, and gives up when the time is.
StopForReturn(c) ==
    /\ call[c] = "stop_for"
    /\ \/ Ended(on[c]) /\ Joined(on[c])
       \/ UNCHANGED joinable
    /\ Leave(c)
    /\ UNCHANGED <<wflags, wqueue, handler, queueVars, cancels, workerVars,
                   life, sem, ghostVars>>

\* WorkQ::~WorkQ: queue_drain(true), then stop(), then ~Task, which joins.
\* Nobody else is using the queue, and a queue run by a borrowed thread has
\* given it back.
Destroy(c, q) ==
    /\ "destroy" \in Calls
    /\ MayCall(c) /\ life[q] = "open"
    /\ \A d \in Clients : on[d] # q
    /\ worker[q] \in {"unborn", "gone", "dead"} \/ joinable[q]
    /\ IF "STARTED" \in qflags[q]
       THEN /\ life' = [life EXCEPT ![q] = "closing"]
            /\ BeginDrain(c, q, TRUE)
            /\ Enter(c, "destroy", q)
            /\ UNCHANGED joinable
       ELSE /\ life' = [life EXCEPT ![q] = "destroyed"]
            /\ joinable' = [joinable EXCEPT ![q] = FALSE]
            /\ UNCHANGED <<queueVars, drained, call, on>>
    /\ UNCHANGED <<wflags, wqueue, handler, cancels, workerVars, sem, waits>>

\* The drain is over and stop() runs.  When a handler has unplugged the
\* queue meanwhile stop() refuses, and only the join of ~Task is left.
DestroyDrained(c) ==
    /\ TokenTaken(c, "destroy")
    /\ Enter(c, "join", on[c])
    /\ IF Stoppable(on[c]) THEN AskStop(on[c]) ELSE UNCHANGED <<qflags, notifyq>>

DestroyReturn(c) ==
    /\ call[c] = "join"
    /\ Joined(on[c])
    /\ life' = [life EXCEPT ![on[c]] = "destroyed"]
    /\ Leave(c)
    /\ UNCHANGED <<wflags, wqueue, handler, queueVars, cancels, workerVars,
                   sem, ghostVars>>

-----------------------------------------------------------------------------
(* WorkQ::work_queue_main, one critical section at a time.                 *)

\* Faults: a drain, or a stop, is looked for before the list.
Finds_DrainFirst(q) ==
    CASE "DRAIN" \in qflags[q] -> "drain"
      [] "DRAIN" \notin qflags[q] /\ pending[q] # <<>> -> "work"
      [] OTHER -> IF "STOP" \in qflags[q] THEN "stop" ELSE "nothing"
Finds_StopFirst(q) ==
    CASE "STOP" \in qflags[q] -> "stop"
      [] "STOP" \notin qflags[q] /\ pending[q] # <<>> -> "work"
      [] OTHER -> IF "DRAIN" \in qflags[q] THEN "drain" ELSE "nothing"

\* Top of the loop: what the thread finds under the lock.
Finds(q) ==
    CASE pending[q] # <<>> -> "work"
      [] pending[q] = <<>> /\ "DRAIN" \in qflags[q] -> "drain"
      [] pending[q] = <<>> /\ "DRAIN" \notin qflags[q] /\ "STOP" \in qflags[q] -> "stop"
      [] OTHER -> "nothing"

TakenFlags(n) == (wflags[n] \ {"QUEUED"}) \cup {"RUNNING"}

Take(q) ==
    /\ worker[q] = "top"
    /\ Finds(q) = "work"
    /\ LET n == Head(pending[q]) IN
       /\ SetPending(q, Tail(pending[q]))
       /\ qflags' = [qflags EXCEPT ![q] = @ \cup {"BUSY"}]
       /\ wflags' = [wflags EXCEPT ![n] = TakenFlags(n)]
       /\ cur' = [cur EXCEPT ![q] = n]
       /\ running' = [running EXCEPT ![q] = IF n \in Works THEN handler[n] ELSE None]
       /\ waits' = Waiters(n, "queued", "running")
    /\ worker' = [worker EXCEPT ![q] = "handler"]
    /\ UNCHANGED <<wqueue, handler, notifyq, drainq, cancels, lifeVars,
                   callVars, drained>>

\* The list is empty and a drain was asked for: one token for drainq.
AnswerDrain(q) ==
    /\ worker[q] = "top"
    /\ Finds(q) = "drain"
    /\ qflags' = [qflags EXCEPT ![q] = @ \ {"DRAIN"}]
    /\ drainq' = [drainq EXCEPT ![q] = TRUE]
    /\ worker' = [worker EXCEPT ![q] = "wait"]
    /\ drained' = [c \in Clients |->
                     \/ drained[c]
                     \/ on[c] = q /\ call[c] \in {"drain", "destroy"} /\ pending[q] = <<>>]
    /\ UNCHANGED <<wflags, wqueue, handler, pending, notifyq, cancels, cur,
                   running, lifeVars, callVars, waits>>

Quit(q) ==
    /\ worker[q] = "top"
    /\ Finds(q) = "stop"
    /\ qflags' = [qflags EXCEPT ![q] = {}]
    /\ worker' = [worker EXCEPT ![q] = "gone"]
    /\ UNCHANGED <<wflags, wqueue, handler, pending, notifyq, drainq, cancels,
                   cur, running, lifeVars, callVars, ghostVars>>

Sleep(q) ==
    /\ worker[q] = "top"
    /\ Finds(q) = "nothing"
    /\ worker' = [worker EXCEPT ![q] = "wait"]
    /\ UNCHANGED <<wflags, wqueue, handler, queueVars, cancels, cur, running,
                   lifeVars, callVars, ghostVars>>

\* notifyq.get() returns.
Wake(q) ==
    /\ worker[q] = "wait"
    /\ notifyq[q]
    /\ notifyq' = [notifyq EXCEPT ![q] = FALSE]
    /\ worker' = [worker EXCEPT ![q] = "top"]
    /\ UNCHANGED <<wflags, wqueue, handler, pending, qflags, drainq, cancels,
                   cur, running, lifeVars, callVars, ghostVars>>

\* Fault: the first canceller is released, whatever work it is about.
Released_First(w) == IF cancels = <<>> THEN 0 ELSE 1

\* finalize_cancel_locked: where in pending_cancels the canceller to release
\* stands, 0 for none.  The loop breaks after the first canceller of w.
Released(w) == SelectInSeq(cancels, LAMBDA c : on[c] = w)

\* Fault: the bit cleared is that of a work, and no longer that of BUSY.
IdleFlags_Kept(q) == qflags[q]

\* The queue is not busy.  The code names the bit WORK_CANCELING_BIT, whose
\* number happens to be that of WORK_QUEUE_BUSY_BIT.
IdleFlags(q) == qflags[q] \ {"BUSY"}

\* The flags of a node once its handler is back.
FinishedFlags(n) == wflags[n] \ {"RUNNING", "FLUSHING", "CANCELING"}

\* The handler has returned: RUNNING goes, a flusher gives its semaphore,
\* the canceller of a cancelled work is released, the queue is not busy.
Finish(q) ==
    /\ worker[q] = "handler"
    /\ LET n == cur[q]
           i == IF "CANCELING" \in wflags[n] THEN Released(n) ELSE 0
       IN  /\ wflags' = [wflags EXCEPT ![n] = FinishedFlags(n)]
           /\ sem' = [c \in Clients |-> \/ sem[c]
                                        \/ c = n /\ "FLUSHING" \in wflags[n]
                                        \/ i # 0 /\ c = cancels[i]]
           /\ cancels' = IF i # 0 THEN RemoveAt(cancels, i) ELSE cancels
           /\ waits' = Waiters(n, "running", "over")
    /\ cur' = [cur EXCEPT ![q] = None]
    /\ running' = [running EXCEPT ![q] = None]
    /\ qflags' = [qflags EXCEPT ![q] = IdleFlags(q)]
    /\ worker' = [worker EXCEPT ![q] = "top"]
    /\ UNCHANGED <<wqueue, handler, pending, notifyq, drainq, lifeVars, call,
                   on, drained>>

\* The handler of a work throws.  The catch block unlocks a unique_lock that
\* owns nothing, which throws again; either way work_queue_main is left as
\* it is and the exception ends up in the future of the task.
Throw(q) ==
    /\ "throw" \in Calls
    /\ worker[q] = "handler"
    /\ cur[q] \in Works
    /\ worker' = [worker EXCEPT ![q] = "dead"]
    /\ UNCHANGED <<wflags, wqueue, handler, queueVars, cancels, cur, running,
                   lifeVars, callVars, ghostVars>>

-----------------------------------------------------------------------------
ClientNext(c) ==
    \/ \E w \in Works : CancelSync(c, w) \/ Flush(c, w)
    \/ \E q \in Queues : Start(c, q) \/ Run(c, q) \/ Destroy(c, q)
    \/ \E q \in Queues, plug \in BOOLEAN : Drain(c, q, plug)
    \/ \E q \in Queues, how \in {"stop", "stop_for"} : Stop(c, q, how)
    \/ FlushReturn(c) \/ CancelReturn(c) \/ DrainReturn(c)
    \/ StopReturn(c) \/ StopForReturn(c) \/ RunReturn(c)
    \/ DestroyDrained(c) \/ DestroyReturn(c)

\* Calls that do not block: a client's, or a handler's.
ThreadNext(t) ==
    \/ \E w \in Works, q \in Queues : Submit(t, w, q)
    \/ \E w \in Works : Resubmit(t, w) \/ Cancel(t, w)
    \/ \E w \in Works, h \in Handlers : SetHandler(t, w, h)
    \/ \E q \in Queues : Unplug(t, q)

\* The thread of a queue, inside work_queue_main.
WorkerStep(q) ==
    \/ Take(q) \/ AnswerDrain(q) \/ Quit(q) \/ Sleep(q) \/ Wake(q) \/ Finish(q)

Next ==
    \/ \E c \in Clients : ClientNext(c)
    \/ \E t \in Threads : ThreadNext(t)
    \/ \E q \in Queues : WorkerStep(q) \/ Throw(q)

Spec == Init /\ [][Next]_vars

\* The thread of a started queue keeps running and handlers come to an end;
\* a client that can come back from a blocking call does.  Nobody has to make
\* a call.  The spinlock is assumed to be passed on.
Fairness ==
    /\ \A q \in Queues : WF_vars(WorkerStep(q))
    /\ \A c \in Clients :
         /\ WF_vars(FlushReturn(c)) /\ WF_vars(CancelReturn(c))
         /\ WF_vars(DrainReturn(c)) /\ WF_vars(StopReturn(c))
         /\ WF_vars(StopForReturn(c)) /\ WF_vars(RunReturn(c))
         /\ WF_vars(DestroyDrained(c)) /\ WF_vars(DestroyReturn(c))

FairSpec == Spec /\ Fairness

-----------------------------------------------------------------------------
(* Correctness.                                                            *)

\* QUEUED is set exactly while the work is linked once in the list of the
\* queue it points at, and in no other list.
QueuedIsLinked ==
    \A w \in Works :
        /\ "QUEUED" \in wflags[w] => wqueue[w] \in Queues
        /\ \A q \in Queues :
             /\ Contains(pending[q], w) <=> "QUEUED" \in wflags[w] /\ wqueue[w] = q
             /\ AtMostOnce(pending[q], w)

\* A work has RUNNING exactly while one queue's thread executes it, and that
\* is the queue it points at: its handler never runs twice at a time.
RunningIsOwned ==
    \A w \in Works :
        {q \in Queues : cur[q] = w}
            = IF "RUNNING" \in wflags[w] THEN {wqueue[w]} ELSE {}

\* A queue is BUSY exactly while its thread is inside a handler.
BusyIsRunning ==
    \A q \in Queues :
        /\ cur[q] # None <=> worker[q] \in {"handler", "dead"}
        /\ "BUSY" \in qflags[q] <=> cur[q] # None

\* Only a running work is being cancelled, and it is not queued again before
\* its handler is back, so that a cancellation always comes to an end.
CancelingIsRunning ==
    \A w \in Works :
        "CANCELING" \in wflags[w] => wflags[w] = {"CANCELING", "RUNNING"}

\* The flags agree with the lists and with what the threads do.
FlagsAgree == QueuedIsLinked /\ CancelingIsRunning /\ BusyIsRunning

\* A flusher is never left behind: it is being run, after the end of the
\* instance its client waits for, or it is linked behind that instance.
FlusherFollows ==
    \A c \in Clients :
        call[c] = "flush" /\ ~sem[c] =>
            \E q \in Queues :
                \/ cur[q] = c /\ waits[c] = "over"
                \/ \E i \in DOMAIN pending[q] :
                     /\ pending[q][i] = c
                     /\ waits[c] = "queued" => \E j \in 1 .. i - 1 : pending[q][j] = on[c]
                     /\ waits[c] = "running" => cur[q] = on[c]

\* Plugging holds: once the drain is over and until the queue is unplugged,
\* nothing is queued and nothing runs.
PluggedIsEmpty ==
    \A q \in Queues :
        "PLUGGED" \in qflags[q] /\ "DRAIN" \notin qflags[q]
            => pending[q] = <<>> /\ cur[q] = None

\* Before the thread is born and once it has quit the list is empty and no
\* work of the queue is queued, runs or is being cancelled, so that nothing
\* is processed past a stop (work_q.hpp:373-377), whatever was submitted or
\* flushed while it was under way.
GoneIsQuiet ==
    \A q \in Queues :
        worker[q] \in {"unborn", "gone"} =>
            /\ qflags[q] = {} /\ pending[q] = <<>>
            /\ \A w \in Works : wqueue[w] = q => wflags[w] = {}

\* A client that waits in work_cancel_sync is either released already, or
\* the work still has the CANCELING flag whose removal will release it.
CancellerIsServed ==
    \A c \in Clients :
        call[c] = "cancel_sync" /\ ~sem[c] => "CANCELING" \in wflags[on[c]]

\* work_flush and work_cancel_sync come back only when the instance they
\* were called for is over: it ran to its end or it was withdrawn.
WaitsForInstance ==
    \A c \in Clients :
        call[c] \in {"flush", "cancel_sync"} /\ sem[c] => waits[c] = "over"

\* Who waits for a work is released by the end of the instance it waits for,
\* and not left behind before it.
WaitersAreServed == FlusherFollows /\ CancellerIsServed /\ WaitsForInstance

\* set_new_work_handler never changes the handler under a running instance.
RunsItsHandler ==
    \A q \in Queues : cur[q] \in Works => running[q] = handler[cur[q]]

\* However queues share works, one thread at a time runs a work, with the
\* handler that the work has.
OneHandlerRuns == RunningIsOwned /\ RunsItsHandler

\* A queue_drain that waited comes back only after the thread has found the
\* list empty since the call began (work_q.hpp:339-341).
DrainSawEmpty ==
    [][\A c \in Clients :
         call[c] \in {"drain", "destroy"} /\ call'[c] # call[c] => drained[c]]_vars

\* notifyq holds one token for every submission, flush and drain, and overwrites
\* it: a thread that sleeps beside the empty notifyq has none of them left.
NoWakeupLost ==
    \A q \in Queues :
        worker[q] = "wait" /\ ~notifyq[q] => pending[q] = <<>> /\ "DRAIN" \notin qflags[q]

\* Who waits for a queue to drain has its token, or the flag for which the
\* thread will put it: no other caller took the one or cleared the other.
DrainersAreOwed ==
    \A c \in Clients :
        call[c] \in {"drain", "destroy"} => drainq[on[c]] \/ "DRAIN" \in qflags[on[c]]

\* Nobody who waits for the token of a queue is forgotten by its thread.
NobodyIsForgotten == NoWakeupLost /\ DrainersAreOwed

\* A stop is not lost: a thread sleeps over it only if the destructor, whose
\* drain it has answered, is about to ask once more; and whoever joins a thread
\* joins one that was asked to stop or is over (task.hpp: ~Task joins).
StopIsHeard ==
    /\ \A q \in Queues :
          worker[q] = "wait" /\ ~notifyq[q] /\ "STOP" \in qflags[q] =>
              drainq[q] /\ \E c \in Clients : on[c] = q /\ call[c] = "destroy"
    /\ \A c \in Clients :
          call[c] \in {"stop", "stop_for", "join"} => "STOP" \in qflags[on[c]] \/ Ended(on[c])

\* A queue is destroyed only when its thread is over and nothing points at
\* it: no node in its list, no client in a call on it, no work in progress.
DestroyedIsUnused ==
    \A q \in Queues :
        life[q] = "destroyed" =>
            /\ worker[q] \in {"unborn", "gone"}
            /\ pending[q] = <<>>
            /\ \A c \in Clients : on[c] # q
            /\ \A w \in Works : wqueue[w] = q => wflags[w] = {}

\* The handler of w threw and did not run to an end since.
Thrown(w) ==
    "RUNNING" \in wflags[w] /\ ~ \E q \in Queues : worker[q] = "handler" /\ cur[q] = w

\* A work whose handler threw keeps RUNNING, its handler and its queue, whatever
\* is submitted, cancelled, flushed or replaced, and wherever; only the thread of
\* that queue, once the program has started or run it again, takes the work up
\* again, so that no other queue ever does (work_q.cpp:402-406).
ThrownIsBound ==
    [][\A w \in Works :
         Thrown(w) =>
             /\ "RUNNING" \in wflags'[w]
             /\ wqueue'[w] = wqueue[w] /\ handler'[w] = handler[w]
             /\ \A q \in Queues : cur'[q] = w => q = wqueue[w]]_vars

\* The works among the first i nodes of a list, without the flushers between
\* them; those of the whole list; and of the list of a queue.
Sifted(s) ==
    LET kept[i \in 0 .. Len(s)] ==
            IF i = 0 THEN <<>>
            ELSE IF s[i] \in Works THEN Append(kept[i - 1], s[i]) ELSE kept[i - 1]
    IN  kept

WorksOf(s) == Sifted(s)[Len(s)]

Line(q) == WorksOf(pending[q])

Service == INSTANCE WorkService WITH
    line <- [q \in Queues |-> Line(q)],
    exec <- [q \in Queues |-> IF cur[q] \in Works THEN cur[q] ELSE None],
    condemned <- {w \in Works : "CANCELING" \in wflags[w]}

\* The queues implement the abstract service: first in, first out, one
\* execution at a time, no acceptance during a cancellation.
ImplementsService == Service!Spec

-----------------------------------------------------------------------------
(* Progress, under FairSpec.                                               *)

ComesBack(what) == \A c \in Clients : call[c] = what ~> call[c] # what

\* Whoever calls work_flush comes back, even if handlers resubmit their works
\* for ever.
FlushReturns == ComesBack("flush")

\* Whoever calls work_cancel_sync comes back, likewise.
CancelReturns == ComesBack("cancel_sync")

\* A queued work is run or withdrawn: flushers and resubmissions do not
\* starve it.
QueuedIsServed ==
    \A w \in Works : "QUEUED" \in wflags[w] ~> "QUEUED" \notin wflags[w]

\* From some time on no handler submits anything.
HandlersSettle ==
    <>[][~ \E q \in Queues, w \in Works :
             Resubmit(q, w) \/ \E p \in Queues : Submit(q, w, p)]_vars

\* queue_drain comes back, if handlers do not submit for ever.
DrainReturns == HandlersSettle => ComesBack("drain")

\* stop() takes effect, likewise: the thread ends and the caller comes back.
StopReturns ==
    HandlersSettle =>
        /\ ComesBack("stop")
        /\ \A q \in Queues : "STOP" \in qflags[q] ~> worker[q] = "gone"

\* A destructor that begins ends, through its drain, stop and join, likewise.
DestroyReturns ==
    HandlersSettle => \A q \in Queues : life[q] = "closing" ~> life[q] = "destroyed"

=============================================================================
