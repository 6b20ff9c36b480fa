--------------------------- MODULE UnboundedQueue ---------------------------
(***************************************************************************)
(* queue<Type> (data-structures/queue.hpp): a deque with a counter of its  *)
(* own under one mutex, and a condition variable for those who get.        *)
(* As in BoundedQueue each stretch under the mutex is one step.            *)
(***************************************************************************)
EXTENDS Naturals, FiniteSets, Sequences

CONSTANTS
    Threads,
    MaxPuts      \* bound: items that are put; they are numbered

VARIABLES
    buffer,      \* _buffer
    size,        \* _size
    getting,     \* the threads in a get that did not find an item at once
    asleep,      \* those of them that wait on _not_empty
    timed,       \* those of them with a time limit
    late,        \* those of them whose time is over
    puts,        \* items that were put
    got          \* history: the last item that was got

queueVars == <<buffer, size, getting, asleep, timed, late, puts, got>>

QueueInit ==
    /\ buffer = <<>> /\ size = 0
    /\ getting = {} /\ asleep = {} /\ timed = {} /\ late = {}
    /\ puts = 0 /\ got = 0

\* Fault: only the first item is announced.
Announce_First ==
    IF size = 0 /\ asleep # {} THEN \E t \in asleep : asleep' = asleep \ {t} ELSE UNCHANGED asleep

\* _not_empty.notify_one()
Announce == IF asleep # {} THEN \E t \in asleep : asleep' = asleep \ {t} ELSE UNCHANGED asleep

\* put() never waits.
Put ==
    /\ puts < MaxPuts
    /\ puts' = puts + 1
    /\ buffer' = Append(buffer, puts + 1)
    /\ size' = size + 1
    /\ Announce
    /\ UNCHANGED <<getting, timed, late, got>>

TakeFront ==
    /\ size # 0
    /\ got' = Head(buffer)
    /\ buffer' = Tail(buffer)
    /\ size' = size - 1

\* get() and its timed form; get_nonblocking() is one without any time.
GetBegin(t, limited) ==
    /\ t \notin getting
    /\ \/ TakeFront /\ UNCHANGED <<getting, asleep, timed>>
       \/ /\ size = 0
          /\ getting' = getting \cup {t}
          /\ asleep' = asleep \cup {t}
          /\ timed' = IF limited THEN timed \cup {t} ELSE timed
          /\ UNCHANGED <<buffer, size, got>>
    /\ UNCHANGED <<late, puts>>

\* A thread that is awake has the mutex: it takes an item, throws QUEUE_EMPTY
\* or QUEUE_TIMEOUT, or sleeps on.
GetResume(t) ==
    /\ t \in getting \ asleep
    /\ \/ /\ \/ TakeFront
             \/ size = 0 /\ t \in late /\ UNCHANGED <<buffer, size, got>>
          /\ getting' = getting \ {t}
          /\ timed' = timed \ {t} /\ late' = late \ {t}
          /\ UNCHANGED asleep
       \/ /\ size = 0 /\ t \notin late
          /\ asleep' = asleep \cup {t}
          /\ UNCHANGED <<buffer, size, got, getting, timed, late>>
    /\ UNCHANGED puts

\* The end of a timed wait.
Expire(t) ==
    /\ t \in timed \ late
    /\ late' = late \cup {t}
    /\ asleep' = asleep \ {t}
    /\ UNCHANGED <<buffer, size, getting, timed, puts, got>>

\* A spurious wakeup.
Stir(t) ==
    /\ t \in asleep
    /\ asleep' = asleep \ {t}
    /\ UNCHANGED <<buffer, size, getting, timed, late, puts, got>>

Clear ==
    /\ size' = 0
    /\ buffer' = <<>>
    /\ UNCHANGED <<getting, asleep, timed, late, puts, got>>

QueueNext ==
    \/ Put \/ Clear
    \/ \E t \in Threads :
          \/ \E limited \in BOOLEAN : GetBegin(t, limited)
          \/ GetResume(t) \/ Expire(t) \/ Stir(t)

QueueSpec == QueueInit /\ [][QueueNext]_queueVars

-----------------------------------------------------------------------------
\* The counter is the length of the deque, items come out in the order in which
\* they went in, and nobody sleeps beside an item that no thread that is awake
\* will take.
GettersAreServed ==
    /\ size = Len(buffer)
    /\ \A i \in 1 .. size : buffer[i] > (IF i = 1 THEN got ELSE buffer[i - 1])
    /\ asleep # {} => size <= Cardinality(getting \ asleep)
=============================================================================
