---------------------------- MODULE BoundedQueue ----------------------------
(***************************************************************************)
(* bounded_queue<Type, max_size, overwrite> (data-structures/queue.hpp): a *)
(* ring of max_size slots under one mutex, and two condition variables.    *)
(*                                                                         *)
(* A thread holds the mutex from the moment it enters a call, or wakes up  *)
(* inside one, until it waits again or leaves, so that each of these is    *)
(* one action: PutBegin, GetBegin, PutResume, GetResume, Clear.  Between   *)
(* them it is asleep on a condition variable, or awake and waiting for the *)
(* mutex.  A sleeper is woken by a notify_one, by the end of its time, or  *)
(* for no reason, which condition variables allow.                         *)
(*                                                                         *)
(* A non-blocking call is a timed one whose time is over from the start:   *)
(* it, too, waits on the condition variable, and lets go of the mutex.     *)
(***************************************************************************)
EXTENDS Naturals, FiniteSets

CONSTANTS
    Threads,     \* those who use the queue
    Items,       \* values of Type
    NoItem,      \* an initial slot; the hands of a thread that puts nothing
    MaxSize,     \* max_size
    Overwrite,   \* overwrite
    Calls        \* what the program calls

AllCalls == {"put", "put_for", "get", "get_for", "clear", "clear_unwatched"}
Putting == {"put", "put_for"}
Getting == {"get", "get_for"}
Timed == {"put_for", "get_for"}

\* MaxSize is a static_assert of the class.
ASSUME QueueAssumption ==
    /\ MaxSize \in Nat \ {0}
    /\ Overwrite \in BOOLEAN
    /\ Calls \subseteq AllCalls
    /\ NoItem \notin Items

ASSUME ThreadsAssumption == IsFiniteSet(Threads)

VARIABLES
    buffer,      \* _buffer, indices as in the code
    producer,    \* _producer_index
    consumer,    \* _consumer_index
    size,        \* _size
    call,        \* the call a thread is waiting in, or "none"
    item,        \* the item a thread that waits in a put has in its hands
    asleep,      \* the threads that wait on a condition variable
    late         \* the timed threads whose time is over

ring == <<buffer, producer, consumer, size>>
callers == <<call, item, asleep, late>>
vars == <<ring, callers>>

Slots == 0 .. MaxSize - 1

TypeOK ==
    /\ buffer \in [Slots -> Items \cup {NoItem}]
    /\ producer \in Slots
    /\ consumer \in Slots
    /\ size \in 0 .. MaxSize
    /\ call \in [Threads -> Putting \cup Getting \cup {"none"}]
    /\ item \in [Threads -> Items \cup {NoItem}]
    /\ \A t \in Threads : item[t] \in Items <=> call[t] \in Putting
    /\ asleep \subseteq {t \in Threads : call[t] # "none"}
    /\ late \subseteq {t \in Threads : call[t] \in Timed}

Init ==
    /\ buffer = [s \in Slots |-> NoItem]
    /\ producer = 0
    /\ consumer = 0
    /\ size = 0
    /\ call = [t \in Threads |-> "none"]
    /\ item = [t \in Threads |-> NoItem]
    /\ asleep = {}
    /\ late = {}

-----------------------------------------------------------------------------
Following(s) == (s + 1) % MaxSize

In(calls) == {t \in Threads : call[t] \in calls}

\* notify_one wakes one of those who sleep, whichever, if there is any.
NotifyOne(sleepers) ==
    \/ sleepers = {} /\ UNCHANGED asleep
    \/ \E t \in sleepers : asleep' = asleep \ {t}

\* Faults: only the first item, or the first free slot, is announced.
NotifyNotEmpty_First == IF size = 0 THEN NotifyOne(asleep \cap In(Getting))
                                    ELSE UNCHANGED asleep
NotifySpace_First == IF size = MaxSize THEN NotifyOne(asleep \cap In(Putting))
                                       ELSE UNCHANGED asleep

\* _not_empty.notify_one(), _space_available.notify_one()
NotifyNotEmpty == NotifyOne(asleep \cap In(Getting))
NotifySpace == NotifyOne(asleep \cap In(Putting))

\* Fault: the queue is full one item too late.
Full_Late == size > MaxSize

Full == size = MaxSize
Empty == size = 0

\* Fault: the oldest item is overwritten but stays the next one to be read.
Oldest_Kept == consumer

\* An item that overwrites the oldest makes the next one the oldest.
Oldest == IF Full THEN Following(consumer) ELSE consumer

\* Fault: the size is not clamped.
Grown_Unclamped == size + 1

Grown == IF Full THEN MaxSize ELSE size + 1

\* The end of a put.
Insert(i) ==
    /\ buffer' = [buffer EXCEPT ![producer] = i]
    /\ producer' = Following(producer)
    /\ size' = Grown
    /\ consumer' = Oldest
    /\ NotifyNotEmpty

\* The end of a get.
Remove ==
    /\ consumer' = Following(consumer)
    /\ size' = size - 1
    /\ NotifySpace
    /\ UNCHANGED <<buffer, producer>>

\* t waits, in `what`, with i in its hands.
Wait(t, what, i) ==
    /\ call' = [call EXCEPT ![t] = what]
    /\ item' = [item EXCEPT ![t] = i]
    /\ asleep' = asleep \cup {t}
    /\ UNCHANGED <<ring, late>>

\* t returns or throws.
Leave(t) ==
    /\ call' = [call EXCEPT ![t] = "none"]
    /\ item' = [item EXCEPT ![t] = NoItem]
    /\ late' = late \ {t}

-----------------------------------------------------------------------------
\* put(), timed put() and put_nonblocking(), up to the return or the wait.
PutBegin(t, what, i) ==
    /\ what \in Putting \cap Calls
    /\ call[t] = "none"
    /\ \/ ~Full /\ Insert(i) /\ UNCHANGED <<call, item, late>>
       \/ Full /\ Wait(t, what, i)

GetBegin(t, what) ==
    /\ what \in Getting \cap Calls
    /\ call[t] = "none"
    /\ \/ ~Empty /\ Remove /\ UNCHANGED <<call, item, late>>
       \/ Empty /\ Wait(t, what, NoItem)

\* Fault: whoever is late overwrites.
Overwrites_Always(t) == t \in late

\* A timed put that is late overwrites, if the queue does.
Overwrites(t) == t \in late /\ Overwrite

\* A putting thread has the mutex again: it looks once more at the size,
\* inserts, sleeps on, or throws QUEUE_FULL or QUEUE_TIMEOUT.
PutResume(t) ==
    /\ call[t] \in Putting /\ t \notin asleep
    /\ \/ ~Full /\ Insert(item[t]) /\ Leave(t)
       \/ Full /\ Overwrites(t) /\ Insert(item[t]) /\ Leave(t)
       \/ Full /\ t \in late /\ ~Overwrites(t) /\ Leave(t) /\ UNCHANGED <<ring, asleep>>
       \/ Full /\ t \notin late /\ Wait(t, call[t], item[t])

GetResume(t) ==
    /\ call[t] \in Getting /\ t \notin asleep
    /\ \/ ~Empty /\ Remove /\ Leave(t)
       \/ Empty /\ t \in late /\ Leave(t) /\ UNCHANGED <<ring, asleep>>
       \/ Empty /\ t \notin late /\ Wait(t, call[t], item[t])

\* Fault: every wakeup gives the thread its whole time again.
LateOnes_Restarted(t) == late

LateOnes(t) == late \cup {t}

\* The time of a timed wait is over.
Expire(t) ==
    /\ call[t] \in Timed /\ t \notin late
    /\ late' = LateOnes(t)
    /\ asleep' = asleep \ {t}
    /\ UNCHANGED <<ring, call, item>>

\* A spurious wakeup.
Stir(t) ==
    /\ t \in asleep
    /\ asleep' = asleep \ {t}
    /\ UNCHANGED <<ring, call, item, late>>

\* clear() announces nothing: a careful program calls it only when nobody
\* sleeps in a put.
Clear ==
    /\ \/ "clear" \in Calls
       \/ "clear_unwatched" \in Calls /\ asleep \cap In(Putting) = {}
    /\ size' = 0
    /\ producer' = 0
    /\ consumer' = 0
    /\ UNCHANGED <<buffer, callers>>

-----------------------------------------------------------------------------
Resume(t) == PutResume(t) \/ GetResume(t)

ThreadNext(t) ==
    \/ \E what \in Putting, i \in Items : PutBegin(t, what, i)
    \/ \E what \in Getting : GetBegin(t, what)
    \/ Resume(t) \/ Expire(t) \/ Stir(t)

Next == Clear \/ \E t \in Threads : ThreadNext(t)

Spec == Init /\ [][Next]_vars

\* Time passes, and a thread that is awake gets the mutex.
Fairness == \A t \in Threads : WF_vars(Resume(t)) /\ WF_vars(Expire(t))

FairSpec == Spec /\ Fairness

-----------------------------------------------------------------------------
(* Correctness.                                                            *)

\* The two indices and the size describe the same stretch of the ring.
RingOK == producer = (consumer + size) % MaxSize

\* The items from the oldest to the newest.
Contents == [k \in 1 .. size |-> buffer[(consumer + k - 1) % MaxSize]]

Buffer == INSTANCE BoundedBuffer WITH queue <- Contents, Capacity <- MaxSize

\* The ring is a first-in first-out buffer, through wrap-around, overwriting,
\* time limits and spurious wakeups.
ImplementsBuffer == Buffer!Spec

\* While somebody sleeps in a get, at least as many other threads are awake
\* in a get as there are items: each of them will take one, so that no item
\* stays behind with a sleeper beside it.
ItemsAreOffered ==
    asleep \cap In(Getting) # {} =>
        size <= Cardinality(In(Getting) \ asleep)

\* The same for those who sleep in a put, and the free slots.
SpaceIsOffered ==
    asleep \cap In(Putting) # {} =>
        MaxSize - size <= Cardinality(In(Putting) \ asleep)

\* Under FairSpec: a timed call comes back, whatever the others do.
TimedReturns ==
    \A t \in Threads : call[t] \in Timed ~> call[t] = "none"

=============================================================================
