------------------------------ MODULE Semaphore ------------------------------
(***************************************************************************)
(* semaphore<count> (synchronization/semaphore.hpp): a bounded queue of    *)
(* count bytes whose size is the number of units.  Taking gets a byte,     *)
(* giving puts one without blocking.                                       *)
(*                                                                         *)
(* A semaphore is used as a lock, where a thread gives only what it took   *)
(* (the class has the names std::unique_lock asks for), or as a signal,    *)
(* where anybody gives (the semaphores of a WorkQ): see locking.           *)
(***************************************************************************)
EXTENDS Naturals, FiniteSetsExt, Functions

CONSTANTS
    Threads,
    Count,       \* count
    InitCounts,  \* init_cnt of the constructor; count, of the default one
    Unit,        \* the byte
    NoItem

ASSUME SemaphoreAssumption ==
    Count \in Nat \ {0} /\ InitCounts \subseteq Nat /\ Unit # NoItem

VARIABLES
    buffer, producer, consumer, size, call, item, asleep, late,  \* _sem
    locking,     \* the program uses it as a lock
    made,        \* history: the units the semaphore was made with
    held         \* history: the units a thread has taken and not given

queueVars == <<buffer, producer, consumer, size, call, item, asleep, late>>
userVars == <<locking, made>>
vars == <<queueVars, userVars, held>>

Sem == INSTANCE BoundedQueue WITH
    Items <- {Unit}, MaxSize <- Count, Overwrite <- FALSE,
    Calls <- {"put_for", "get", "get_for"}

TypeOK ==
    /\ Sem!TypeOK
    /\ locking \in BOOLEAN
    /\ made \in 0 .. Count
    /\ held \in [Threads -> 0 .. Count]

\* Fault: what the constructor is asked for is not clamped.
Units_Unclamped(n) == n

\* semaphore(n): no more units than the queue has room for.
Units(n) == Min({n, Count})

\* The constructor has put its units.
Init ==
    /\ locking \in BOOLEAN
    /\ \E n \in InitCounts : made = Units(n)
    /\ buffer = [s \in 0 .. Count - 1 |-> IF s < made THEN Unit ELSE NoItem]
    /\ producer = made % Count
    /\ consumer = 0
    /\ size = made
    /\ call = [t \in Threads |-> "none"]
    /\ item = [t \in Threads |-> NoItem]
    /\ asleep = {}
    /\ late = {}
    /\ held = [t \in Threads |-> 0]

\* Fault: lock() also comes back when its get has thrown.
Obtains_Always(t) == t \notin asleep'

\* t comes back from its get with a unit.
Obtains(t) == size' < size

Hold(t) ==
    /\ held' = [held EXCEPT ![t] = IF locking /\ Obtains(t) THEN @ + 1 ELSE @]
    /\ UNCHANGED userVars

\* lock(), lock(timeout), take and try_lock up to the return or the wait.
Lock(t, what) == Sem!GetBegin(t, what) /\ Hold(t)

\* ... after the wait: the lock is obtained, or timeout_exception or
\* semaphore_exception says that it is not.
LockResume(t) == Sem!GetResume(t) /\ Hold(t)

\* unlock() and give(), up to the return or the wait of put_nonblocking.
Unlock(t) ==
    /\ locking => held[t] > 0
    /\ Sem!PutBegin(t, "put_for", Unit)
    /\ held' = [held EXCEPT ![t] = IF locking THEN @ - 1 ELSE @]
    /\ UNCHANGED userVars

\* ... after the wait: accepted, or semaphore_exception.
UnlockResume(t) == Sem!PutResume(t) /\ UNCHANGED <<userVars, held>>

Elapse(t) == (Sem!Expire(t) \/ Sem!Stir(t)) /\ UNCHANGED <<userVars, held>>

Next ==
    \E t \in Threads :
        \/ \E what \in {"get", "get_for"} : Lock(t, what)
        \/ LockResume(t) \/ Unlock(t) \/ UnlockResume(t) \/ Elapse(t)

Spec == Init /\ [][Next]_vars

\* Threads that are awake go on, and whoever holds a lock releases it.
Fairness ==
    \A t \in Threads :
        /\ WF_vars(LockResume(t)) /\ WF_vars(UnlockResume(t))
        /\ WF_vars(locking /\ Unlock(t))

FairSpec == Spec /\ Fairness

-----------------------------------------------------------------------------
(* Correctness.                                                            *)

Counting == INSTANCE CountingSemaphore WITH
    units <- size, Maximum <- Count, Initially <- {Min({n, Count}) : n \in InitCounts}

\* The bytes in the queue are counted right: the semaphore is a counting
\* semaphore.
ImplementsCounting == Counting!Spec

\* Used as a lock: the units in the queue and those in the hands of threads
\* are those of the constructor, so that no more threads than that are
\* inside and no unlock is refused; a timed lock that gave up holds nothing.
UnitsConserved ==
    locking => /\ size + FoldFunction(+, 0, held) = made
               /\ \A t \in Threads : call[t] # "put_for"

\* A semaphore of one unit used as a lock keeps everybody but its holder out.
MutualExclusion ==
    locking /\ made = 1 =>
        \A s, t \in Threads : held[s] > 0 /\ held[t] > 0 => s = t

\* Under FairSpec, used as a lock: whoever waits, somebody gets in.
SomebodyGetsIn ==
    \A t \in Threads :
        locking /\ made > 0 /\ call[t] = "get" ~> \E s \in Threads : held[s] > 0

=============================================================================
