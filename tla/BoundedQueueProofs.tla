------------------------- MODULE BoundedQueueProofs -------------------------
(***************************************************************************)
(* For every capacity, every set of threads and every set of items: the    *)
(* ring of BoundedQueue stays well formed, and it is a first-in first-out  *)
(* buffer.                                                                 *)
(***************************************************************************)
EXTENDS BoundedQueue, SequenceTheorems, FiniteSetTheorems, TLAPS

-----------------------------------------------------------------------------
(* Indices modulo the size of the ring.                                    *)

\* An index that runs over the end of the ring once comes back by its size.
LEMMA ModWrap ==
    ASSUME NEW M \in Nat \ {0}, NEW a \in 0 .. M - 1, NEW b \in 0 .. M
    PROVE  /\ a + b < M => (a + b) % M = a + b
           /\ a + b >= M => (a + b) % M = a + b - M
<1>1. CASE a + b < M
    BY <1>1, SMT
<1>2. CASE a + b >= M
    BY <1>2, SMT
<1> QED
    BY <1>1, <1>2

\* Offsets below the size of the ring lead to different slots.
LEMMA ModDistinct ==
    ASSUME NEW M \in Nat \ {0}, NEW a \in 0 .. M - 1,
           NEW b \in 0 .. M - 1, NEW c \in 0 .. M - 1, b # c
    PROVE  (a + b) % M # (a + c) % M
<1> DEFINE Wrap(x) == IF x < M THEN x ELSE x - M
<1>1. (a + b) % M = Wrap(a + b)
    <2>1. b \in 0 .. M
        OBVIOUS
    <2>2. a + b < M => (a + b) % M = a + b
        BY <2>1, ModWrap
    <2>3. a + b >= M => (a + b) % M = a + b - M
        BY <2>1, ModWrap
    <2> QED
        BY <2>2, <2>3
<1>2. (a + c) % M = Wrap(a + c)
    <2>1. c \in 0 .. M
        OBVIOUS
    <2>2. a + c < M => (a + c) % M = a + c
        BY <2>1, ModWrap
    <2>3. a + c >= M => (a + c) % M = a + c - M
        BY <2>1, ModWrap
    <2> QED
        BY <2>2, <2>3
<1>3. Wrap(a + b) # Wrap(a + c)
    BY SMT
<1> QED
    BY <1>1, <1>2, <1>3

\* What one step further in the ring means for an offset.
LEMMA ModStep ==
    ASSUME NEW M \in Nat \ {0}, NEW a \in 0 .. M - 1, NEW b \in 0 .. M - 1
    PROVE  (((a + 1) % M) + b) % M = (a + (b + 1)) % M
<1>1. CASE a + 1 < M
    <2>1. (a + 1) % M = a + 1
        BY <1>1, SMT
    <2>2. (a + 1) + b = a + (b + 1)
        BY SMT
    <2> QED
        BY <2>1, <2>2
<1>2. CASE a + 1 = M
    <2>1. (a + 1) % M = 0
        BY <1>2, ModWrap, SMT
    <2>2. (0 + b) % M = b
        BY SMT
    <2>3. (a + (b + 1)) % M = b
        BY <1>2, ModWrap, SMT
    <2> QED
        BY <2>1, <2>2, <2>3
<1> QED
    BY <1>1, <1>2, SMT

\* Once around the ring.
LEMMA ModTurn ==
    ASSUME NEW M \in Nat \ {0}, NEW a \in 0 .. M - 1
    PROVE  (a + M) % M = a
<1>1. M \in 0 .. M /\ a + M >= M
    OBVIOUS
<1>2. (a + M) % M = a + M - M
    BY <1>1, ModWrap
<1> QED
    BY <1>2

\* An offset that grows by one.
LEMMA ModGrow ==
    ASSUME NEW M \in Nat \ {0}, NEW a \in 0 .. M - 1, NEW b \in 0 .. M - 1
    PROVE  (((a + b) % M) + 1) % M = (a + (b + 1)) % M
<1>1. b \in 0 .. M /\ b + 1 \in 0 .. M
    OBVIOUS
<1>2. CASE a + b < M
    <2>1. (a + b) % M = a + b
        BY <1>1, <1>2, ModWrap
    <2>2. (a + b) + 1 = a + (b + 1)
        OBVIOUS
    <2> QED
        BY <2>1, <2>2
<1>3. CASE a + b >= M
    <2>1. (a + b) % M = a + b - M
        BY <1>1, <1>3, ModWrap
    <2>2. a + (b + 1) >= M
        BY <1>3
    <2>3. (a + (b + 1)) % M = a + (b + 1) - M
        BY <1>1, <2>2, ModWrap
    <2>4. a + b - M + 1 \in 0 .. M - 1 /\ a + b - M + 1 = a + (b + 1) - M
        BY <1>3
    <2>5. \A x \in 0 .. M - 1 : x % M = x
        BY SMT
    <2> QED
        BY <2>1, <2>3, <2>4, <2>5
<1> QED
    BY <1>2, <1>3

\* A slot of the ring.
LEMMA ModSlot ==
    ASSUME NEW M \in Nat \ {0}, NEW a \in 0 .. M - 1, NEW b \in 0 .. M
    PROVE  (a + b) % M \in 0 .. M - 1
    BY ModWrap, SMT

-----------------------------------------------------------------------------
(* Types and the ring.                                                     *)

\* The inductive invariant.
Inv == TypeOK /\ RingOK

LEMMA InvInit == Init => Inv
<1> SUFFICES ASSUME Init PROVE Inv
    OBVIOUS
<1>1. 0 \in Slots
    BY QueueAssumption DEF Slots
<1>2. TypeOK
    BY <1>1, QueueAssumption DEF Init, TypeOK, Putting, Getting, Timed, Slots
<1>3. RingOK
    BY QueueAssumption, SMT DEF Init, RingOK
<1> QED
    BY <1>2, <1>3 DEF Inv

\* notify_one only wakes.
LEMMA NotifyType ==
    ASSUME NEW S, NotifyOne(S)
    PROVE  asleep' \subseteq asleep
    BY DEF NotifyOne

\* The indices after a put.
LEMMA InsertRing ==
    ASSUME Inv, NEW i \in Items, Insert(i)
    PROVE  /\ buffer' \in [Slots -> Items \cup {NoItem}]
           /\ producer' \in Slots /\ consumer' \in Slots
           /\ size' \in 0 .. MaxSize
           /\ RingOK'
           /\ asleep' \subseteq asleep
<1> USE QueueAssumption DEF Inv, TypeOK, Slots
<1>1. buffer' \in [Slots -> Items \cup {NoItem}]
    BY DEF Insert
<1>2. producer' = (producer + 1) % MaxSize /\ producer' \in Slots
    <2>1. 1 \in 0 .. MaxSize
        OBVIOUS
    <2> QED
        BY <2>1, ModSlot DEF Insert, Following
<1>3. CASE Full
    <2>1. consumer' = (consumer + 1) % MaxSize /\ size' = MaxSize
        BY <1>3 DEF Insert, Full, Oldest, Grown, Following
    <2>2. producer = (consumer + MaxSize) % MaxSize
        BY <1>3 DEF Full, RingOK
    <2>3. producer = consumer
        BY <2>2, ModTurn
    <2>4. producer' = consumer'
        BY <1>2, <2>1, <2>3
    <2>5. (consumer' + MaxSize) % MaxSize = consumer'
        BY <1>2, <2>4, ModTurn
    <2> QED
        BY <1>1, <1>2, <2>1, <2>4, <2>5, NotifyType DEF RingOK, Insert, NotifyNotEmpty
<1>4. CASE ~Full
    <2>1. consumer' = consumer /\ size' = size + 1 /\ size \in 0 .. MaxSize - 1
        BY <1>4, SMT DEF Insert, Full, Oldest, Grown
    <2>2. (((consumer + size) % MaxSize) + 1) % MaxSize = (consumer + (size + 1)) % MaxSize
        BY <2>1, ModGrow
    <2> QED
        BY <1>1, <1>2, <2>1, <2>2, NotifyType DEF RingOK, Insert, NotifyNotEmpty
<1> QED
    BY <1>3, <1>4

\* The indices after a get.
LEMMA RemoveRing ==
    ASSUME Inv, ~Empty, Remove
    PROVE  /\ consumer' \in Slots /\ size' \in 0 .. MaxSize
           /\ UNCHANGED <<buffer, producer>>
           /\ RingOK'
           /\ asleep' \subseteq asleep
<1> USE QueueAssumption DEF Inv, TypeOK, Slots
<1>1. size - 1 \in 0 .. MaxSize - 1 /\ size' = size - 1
    BY SMT DEF Empty, Remove
<1>2. consumer' = (consumer + 1) % MaxSize
    BY DEF Remove, Following
<1>3. consumer' \in Slots
    <2>1. 1 \in 0 .. MaxSize
        OBVIOUS
    <2> QED
        BY <2>1, <1>2, ModSlot
<1>4. (consumer' + size') % MaxSize = (consumer + (size - 1 + 1)) % MaxSize
    BY <1>1, <1>2, ModStep
<1>5. size - 1 + 1 = size
    BY <1>1, SMT
<1> QED
    BY <1>1, <1>3, <1>4, <1>5, NotifyType, SMT DEF RingOK, Remove, NotifySpace

\* The types of what a step does to the callers.
CallersOK ==
    /\ call \in [Threads -> Putting \cup Getting \cup {"none"}]
    /\ item \in [Threads -> Items \cup {NoItem}]
    /\ \A t \in Threads : item[t] \in Items <=> call[t] \in Putting
    /\ asleep \subseteq {t \in Threads : call[t] # "none"}
    /\ late \subseteq {t \in Threads : call[t] \in Timed}

LEMMA CallersFromType == TypeOK => CallersOK
    BY DEF TypeOK, CallersOK

\* A thread begins to wait, or goes on waiting.
LEMMA WaitCallers ==
    ASSUME Inv, NEW t \in Threads, NEW what \in Putting \cup Getting, NEW i,
           IF what \in Putting THEN i \in Items ELSE i = NoItem,
           t \notin late, Wait(t, what, i)
    PROVE  Inv'
<1>1. CallersOK
    BY CallersFromType DEF Inv
<1>2. call' = [call EXCEPT ![t] = what] /\ item' = [item EXCEPT ![t] = i]
      /\ asleep' = asleep \cup {t} /\ late' = late
    BY DEF Wait
<1>3. CallersOK'
    <2>1. call' \in [Threads -> Putting \cup Getting \cup {"none"}]
        BY <1>1, <1>2 DEF CallersOK
    <2>2. item' \in [Threads -> Items \cup {NoItem}]
        BY <1>1, <1>2 DEF CallersOK
    <2>3. \A s \in Threads : item'[s] \in Items <=> call'[s] \in Putting
        BY <1>1, <1>2, QueueAssumption DEF CallersOK
    <2>4. asleep' \subseteq {s \in Threads : call'[s] # "none"}
        BY <1>1, <1>2 DEF CallersOK, Putting, Getting
    <2>5. late' \subseteq {s \in Threads : call'[s] \in Timed}
        BY <1>1, <1>2 DEF CallersOK
    <2> QED
        BY <2>1, <2>2, <2>3, <2>4, <2>5 DEF CallersOK
<1> QED
    BY <1>3 DEF Inv, TypeOK, RingOK, CallersOK, Wait, ring

\* A thread that is awake leaves.
LEMMA LeaveCallers ==
    ASSUME Inv, NEW t \in Threads, t \notin asleep, asleep' \subseteq asleep, Leave(t)
    PROVE  CallersOK'
<1>1. CallersOK
    BY CallersFromType DEF Inv
<1>2. call' = [call EXCEPT ![t] = "none"] /\ item' = [item EXCEPT ![t] = NoItem]
      /\ late' = late \ {t}
    BY DEF Leave
<1>3. "none" \notin Putting
    BY DEF Putting
<1> QED
    BY <1>1, <1>2, <1>3, QueueAssumption DEF CallersOK

\* The callers stay as they are, but for some who wake up.
LEMMA SameCallers ==
    ASSUME Inv, asleep' \subseteq asleep, UNCHANGED <<call, item, late>>
    PROVE  CallersOK'
    BY CallersFromType DEF Inv, CallersOK

LEMMA PutBeginInv ==
    ASSUME Inv, NEW t \in Threads, NEW what \in Putting, NEW i \in Items,
           PutBegin(t, what, i)
    PROVE  Inv'
<1>1. CASE Insert(i) /\ UNCHANGED <<call, item, late>>
    BY <1>1, InsertRing, SameCallers DEF Inv, TypeOK, CallersOK
<1>2. CASE Wait(t, what, i)
    <2>1. t \notin late
        BY DEF PutBegin, Inv, TypeOK, Timed
    <2> QED
        BY <1>2, <2>1, WaitCallers
<1> QED
    BY <1>1, <1>2 DEF PutBegin

LEMMA GetBeginInv ==
    ASSUME Inv, NEW t \in Threads, NEW what \in Getting, GetBegin(t, what)
    PROVE  Inv'
<1>1. CASE ~Empty /\ Remove /\ UNCHANGED <<call, item, late>>
    BY <1>1, RemoveRing, SameCallers DEF Inv, TypeOK, CallersOK
<1>2. CASE Wait(t, what, NoItem)
    <2>1. t \notin late
        BY DEF GetBegin, Inv, TypeOK, Timed
    <2>2. what \notin Putting
        BY DEF Putting, Getting
    <2> QED
        BY <1>2, <2>1, <2>2, WaitCallers
<1> QED
    BY <1>1, <1>2 DEF GetBegin

LEMMA PutResumeInv ==
    ASSUME Inv, NEW t \in Threads, PutResume(t)
    PROVE  Inv'
<1>1. call[t] \in Putting /\ t \notin asleep /\ item[t] \in Items
    BY DEF PutResume, Inv, TypeOK
<1>2. CASE Insert(item[t]) /\ Leave(t)
    BY <1>1, <1>2, InsertRing, LeaveCallers DEF Inv, TypeOK, CallersOK
<1>3. CASE Leave(t) /\ UNCHANGED <<ring, asleep>>
    BY <1>1, <1>3, LeaveCallers DEF Inv, TypeOK, CallersOK, RingOK, ring
<1>4. CASE t \notin late /\ Wait(t, call[t], item[t])
    BY <1>1, <1>4, WaitCallers
<1> QED
    BY <1>2, <1>3, <1>4 DEF PutResume

LEMMA GetResumeInv ==
    ASSUME Inv, NEW t \in Threads, GetResume(t)
    PROVE  Inv'
<1>1. call[t] \in Getting /\ t \notin asleep /\ call[t] \notin Putting
    BY DEF GetResume, Putting, Getting
<1>2. item[t] = NoItem
    BY <1>1 DEF Inv, TypeOK
<1>3. CASE ~Empty /\ Remove /\ Leave(t)
    BY <1>1, <1>3, RemoveRing, LeaveCallers DEF Inv, TypeOK, CallersOK
<1>4. CASE Leave(t) /\ UNCHANGED <<ring, asleep>>
    BY <1>1, <1>4, LeaveCallers DEF Inv, TypeOK, CallersOK, RingOK, ring
<1>5. CASE t \notin late /\ Wait(t, call[t], item[t])
    BY <1>1, <1>2, <1>5, WaitCallers
<1> QED
    BY <1>3, <1>4, <1>5 DEF GetResume

LEMMA InvStep == Inv /\ [Next]_vars => Inv'
<1> SUFFICES ASSUME Inv, [Next]_vars PROVE Inv'
    OBVIOUS
<1>1. CASE Clear
    <2>1. 0 \in Slots /\ 0 \in 0 .. MaxSize /\ (0 + 0) % MaxSize = 0
        BY QueueAssumption, SMT DEF Slots
    <2> QED
        BY <1>1, <2>1 DEF Clear, Inv, TypeOK, RingOK, callers
<1>2. ASSUME NEW t \in Threads, ThreadNext(t) PROVE Inv'
    <2>1. CASE Expire(t)
        BY <2>1 DEF Expire, LateOnes, Inv, TypeOK, RingOK, ring
    <2>2. CASE Stir(t)
        BY <2>2 DEF Stir, Inv, TypeOK, RingOK, ring
    <2> QED
        BY <1>2, <2>1, <2>2, PutBeginInv, GetBeginInv, PutResumeInv, GetResumeInv
           DEF ThreadNext, Resume
<1>3. CASE UNCHANGED vars
    BY <1>3 DEF vars, ring, callers, Inv, TypeOK, RingOK
<1> QED
    BY <1>1, <1>2, <1>3 DEF Next

\* Types, and the indices of the ring: they agree with the size after any
\* sequence of puts, overwriting or not, gets, time-outs and clears.
THEOREM TypeCorrect == Spec => []TypeOK
<1>1. Inv => TypeOK
    BY DEF Inv
<1> QED
    BY <1>1, InvInit, InvStep, PTL DEF Spec

THEOREM RingCorrect == Spec => []RingOK
<1>1. Inv => RingOK
    BY DEF Inv
<1> QED
    BY <1>1, InvInit, InvStep, PTL DEF Spec

-----------------------------------------------------------------------------
(* The refinement: what each end of a call does to the contents.           *)

\* A function on 1 .. n with the elements of a sequence is that sequence.
LEMMA SameSeq ==
    ASSUME NEW S, NEW s \in Seq(S), NEW f, f = [k \in 1 .. Len(s) |-> f[k]],
           \A k \in 1 .. Len(s) : f[k] = s[k]
    PROVE  f = s
<1>1. s \in [1 .. Len(s) -> S]
    BY LenProperties
<1>2. s = [k \in 1 .. Len(s) |-> s[k]]
    BY <1>1
<1> QED
    BY <1>2

\* The slot that stands at an offset from the oldest item.
LEMMA ContentsIsSeq ==
    ASSUME Inv
    PROVE  /\ Contents \in Seq(Items \cup {NoItem})
           /\ Len(Contents) = size
           /\ \A k \in 1 .. size : Contents[k] = buffer[(consumer + (k - 1)) % MaxSize]
<1> USE DEF Inv, TypeOK, Slots
<1>1. size \in Nat
    OBVIOUS
<1>2. \A k \in 1 .. size : consumer + k - 1 = consumer + (k - 1)
    OBVIOUS
<1>3. \A k \in 1 .. size : Contents[k] = buffer[(consumer + (k - 1)) % MaxSize]
    BY <1>2 DEF Contents
<1>4. \A k \in 1 .. size : Contents[k] \in Items \cup {NoItem}
    <2> TAKE k \in 1 .. size
    <2>1. k - 1 \in 0 .. MaxSize
        BY QueueAssumption
    <2>2. (consumer + (k - 1)) % MaxSize \in Slots
        BY <2>1, QueueAssumption, ModSlot
    <2> QED
        BY <2>2, <1>3
<1>5. Contents \in [1 .. size -> Items \cup {NoItem}]
    BY <1>4 DEF Contents
<1> QED
    BY <1>1, <1>3, <1>5, SeqDef, LenProperties

\* A put that finds room appends.
LEMMA InsertAppends ==
    ASSUME Inv, NEW i \in Items, ~Full, Insert(i)
    PROVE  Contents' = Append(Contents, i)
<1>1. Inv /\ size \in 0 .. MaxSize - 1 /\ size' = size + 1 /\ consumer' = consumer
      /\ consumer \in 0 .. MaxSize - 1
    BY QueueAssumption, SMT DEF Inv, TypeOK, Full, Insert, Grown, Oldest, Slots
<1>2. buffer' = [buffer EXCEPT ![producer] = i] /\ producer = (consumer + size) % MaxSize
    BY DEF Insert, Inv, RingOK
<1>3. \A k \in 1 .. size + 1 : consumer + k - 1 = consumer + (k - 1)
    BY <1>1
<1>4. \A k \in 1 .. size + 1 : Contents'[k] = buffer'[(consumer + (k - 1)) % MaxSize]
    BY <1>1, <1>3 DEF Contents
<1>5. ASSUME NEW k \in 1 .. size PROVE Contents'[k] = Contents[k]
    <2>1. k - 1 \in 0 .. MaxSize - 1 /\ k - 1 # size
        BY <1>1, QueueAssumption
    <2>2. (consumer + (k - 1)) % MaxSize # producer
        BY <1>1, <1>2, <2>1, QueueAssumption, ModDistinct
    <2>3. (consumer + (k - 1)) % MaxSize \in Slots
        BY <1>1, <2>1, QueueAssumption, ModSlot DEF Slots
    <2>4. buffer'[(consumer + (k - 1)) % MaxSize] = buffer[(consumer + (k - 1)) % MaxSize]
        BY <1>2, <2>2, <2>3 DEF Inv, TypeOK
    <2>5. k \in 1 .. size + 1
        BY <1>1
    <2>6. Contents'[k] = buffer'[(consumer + (k - 1)) % MaxSize]
        BY <1>4, <2>5
    <2>7. Contents[k] = buffer[(consumer + (k - 1)) % MaxSize]
        BY <1>3, <2>5 DEF Contents
    <2> QED
        BY <2>4, <2>6, <2>7
<1>6. Contents'[size + 1] = i
    <2>1. size + 1 \in 1 .. size + 1 /\ (size + 1) - 1 = size
        BY <1>1
    <2>2. Contents'[size + 1] = buffer'[producer]
        BY <1>2, <1>4, <2>1
    <2> QED
        BY <1>2, <2>2 DEF Inv, TypeOK
<1>7. Contents' = [k \in 1 .. size + 1 |-> Contents'[k]]
    BY <1>1 DEF Contents
<1>8. /\ Append(Contents, i) \in Seq(Items \cup {NoItem})
      /\ Len(Append(Contents, i)) = size + 1
      /\ \A k \in 1 .. size + 1 :
           Append(Contents, i)[k] = IF k = size + 1 THEN i ELSE Contents[k]
    BY ContentsIsSeq, <1>1, AppendProperties
<1>9. \A k \in 1 .. size + 1 : Contents'[k] = Append(Contents, i)[k]
    BY <1>1, <1>5, <1>6, <1>8
<1> QED
    BY <1>7, <1>8, <1>9, SameSeq

\* A get takes the first.
LEMMA RemoveTakesHead ==
    ASSUME Inv, ~Empty, Remove
    PROVE  Contents # <<>> /\ Contents' = Tail(Contents)
<1>1. size \in 1 .. MaxSize /\ size' = size - 1 /\ consumer \in 0 .. MaxSize - 1
    BY QueueAssumption, SMT DEF Inv, TypeOK, Empty, Remove, Slots
<1>2. consumer' = (consumer + 1) % MaxSize /\ buffer' = buffer
    BY DEF Remove, Following
<1>3. ASSUME NEW k \in 1 .. size - 1 PROVE Contents'[k] = Contents[k + 1]
    <2>1. k - 1 \in 0 .. MaxSize - 1 /\ (k - 1) + 1 = k /\ (k + 1) - 1 = k
        BY <1>1, QueueAssumption
    <2>2. (((consumer + 1) % MaxSize) + (k - 1)) % MaxSize = (consumer + k) % MaxSize
        BY <1>1, <2>1, QueueAssumption, ModStep
    <2>3. consumer' \in Slots
        BY RemoveRing
    <2>4. consumer' + k - 1 = consumer' + (k - 1)
        BY <2>3, QueueAssumption DEF Slots
    <2>5. Contents'[k] = buffer[(consumer' + (k - 1)) % MaxSize]
        BY <1>1, <1>2, <2>4 DEF Contents
    <2>6. Contents[k + 1] = buffer[(consumer + k) % MaxSize]
        BY <1>1, <2>1, ContentsIsSeq
    <2> QED
        BY <1>2, <2>2, <2>5, <2>6
<1>4. Contents' = [k \in 1 .. size - 1 |-> Contents'[k]]
    BY <1>1 DEF Contents
<1>5. /\ Contents # <<>>
      /\ Tail(Contents) \in Seq(Items \cup {NoItem})
      /\ Len(Tail(Contents)) = size - 1
      /\ \A k \in 1 .. size - 1 : Tail(Contents)[k] = Contents[k + 1]
    <2>1. Contents \in Seq(Items \cup {NoItem}) /\ Len(Contents) = size
        BY ContentsIsSeq
    <2>2. Contents # <<>>
        BY <1>1, <2>1
    <2> QED
        BY <1>1, <2>1, <2>2, HeadTailProperties
<1> QED
    BY <1>3, <1>4, <1>5, SameSeq

\* A put into a full ring drops the first and appends.
LEMMA InsertOverwrites ==
    ASSUME Inv, NEW i \in Items, Full, Insert(i)
    PROVE  Contents' = Append(Tail(Contents), i)
<1>1. size = MaxSize /\ size' = MaxSize /\ consumer \in 0 .. MaxSize - 1
      /\ MaxSize \in Nat \ {0}
    BY QueueAssumption DEF Inv, TypeOK, Full, Insert, Grown, Slots
<1>2. producer = consumer
    BY <1>1, ModTurn DEF Inv, RingOK
<1>3. consumer' = (consumer + 1) % MaxSize /\ buffer' = [buffer EXCEPT ![consumer] = i]
    BY <1>2 DEF Insert, Oldest, Full, Following
<1>4. consumer' \in Slots
    BY InsertRing
<1>5. ASSUME NEW k \in 1 .. MaxSize
      PROVE  Contents'[k] = buffer'[(consumer + k) % MaxSize]
    <2>1. k - 1 \in 0 .. MaxSize - 1 /\ (k - 1) + 1 = k
        BY <1>1
    <2>2. (((consumer + 1) % MaxSize) + (k - 1)) % MaxSize = (consumer + k) % MaxSize
        BY <1>1, <2>1, ModStep
    <2>3. consumer' + k - 1 = consumer' + (k - 1)
        BY <1>4, <1>1 DEF Slots
    <2>4. Contents'[k] = buffer'[(consumer' + (k - 1)) % MaxSize]
        BY <1>1, <2>3 DEF Contents
    <2> QED
        BY <1>3, <2>2, <2>4
<1>6. ASSUME NEW k \in 1 .. MaxSize - 1 PROVE Contents'[k] = Contents[k + 1]
    <2>1. k \in 0 .. MaxSize /\ k \in 1 .. MaxSize /\ k \in 0 .. MaxSize - 1 /\ 0 \in 0 .. MaxSize - 1 /\ k # 0 /\ k + 1 \in 1 .. MaxSize
          /\ (k + 1) - 1 = k
        BY <1>1
    <2>2. (consumer + k) % MaxSize # (consumer + 0) % MaxSize
        BY <1>1, <2>1, ModDistinct
    <2>3. (consumer + 0) % MaxSize = consumer
        BY <1>1, SMT
    <2>4. (consumer + k) % MaxSize \in Slots
        BY <1>1, <2>1, ModSlot DEF Slots
    <2>5. buffer'[(consumer + k) % MaxSize] = buffer[(consumer + k) % MaxSize]
        BY <1>3, <2>2, <2>3, <2>4 DEF Inv, TypeOK
    <2>6. Contents[k + 1] = buffer[(consumer + k) % MaxSize]
        BY <1>1, <2>1, ContentsIsSeq
    <2> QED
        BY <1>5, <2>1, <2>5, <2>6
<1>7. Contents'[MaxSize] = i
    <2>1. MaxSize \in 1 .. MaxSize
        BY <1>1
    <2>2. (consumer + MaxSize) % MaxSize = consumer
        BY <1>1, ModTurn
    <2> QED
        BY <1>1, <1>3, <1>5, <2>1, <2>2 DEF Inv, TypeOK, Slots
<1>8. Contents' = [k \in 1 .. MaxSize |-> Contents'[k]]
    BY <1>1 DEF Contents
<1>9. /\ Append(Tail(Contents), i) \in Seq(Items \cup {NoItem})
      /\ Len(Append(Tail(Contents), i)) = MaxSize
      /\ \A k \in 1 .. MaxSize :
           Append(Tail(Contents), i)[k] = IF k = MaxSize THEN i ELSE Contents[k + 1]
    <2>1. Contents \in Seq(Items \cup {NoItem}) /\ Len(Contents) = MaxSize /\ Contents # <<>>
        BY <1>1, ContentsIsSeq
    <2>2. /\ Tail(Contents) \in Seq(Items \cup {NoItem})
          /\ Len(Tail(Contents)) = MaxSize - 1
          /\ \A k \in 1 .. MaxSize - 1 : Tail(Contents)[k] = Contents[k + 1]
        BY <1>1, <2>1, HeadTailProperties
    <2> QED
        BY <1>1, <2>2, AppendProperties
<1>10. \A k \in 1 .. MaxSize : Contents'[k] = Append(Tail(Contents), i)[k]
    BY <1>1, <1>6, <1>7, <1>9
<1> QED
    BY <1>8, <1>9, <1>10, SameSeq

\* Every step of the ring is a step of the buffer, or leaves it alone.
LEMMA BufferInit == Init => Buffer!Init
<1> SUFFICES ASSUME Init PROVE Contents = <<>>
    BY DEF Buffer!Init
<1>1. Inv /\ size = 0
    BY InvInit DEF Init
<1> QED
    BY <1>1, ContentsIsSeq

LEMMA BufferStep == Inv /\ [Next]_vars => [Buffer!Next]_Contents
<1> SUFFICES ASSUME Inv, [Next]_vars PROVE Buffer!Next \/ Contents' = Contents
    OBVIOUS
<1>1. ASSUME UNCHANGED ring PROVE Contents' = Contents
    BY <1>1 DEF ring, Contents
<1>2. ASSUME NEW i \in Items, ~Full, Insert(i) PROVE Buffer!Next
    <2>1. Len(Contents) < MaxSize
        BY <1>2, ContentsIsSeq, QueueAssumption, SMT DEF Full, Inv, TypeOK
    <2> QED
        BY <1>2, <2>1, InsertAppends DEF Buffer!Next, Buffer!Put
<1>3. ASSUME NEW i \in Items, Full, Overwrite, Insert(i) PROVE Buffer!Next
    <2>1. Len(Contents) = MaxSize
        BY <1>3, ContentsIsSeq DEF Full
    <2> QED
        BY <1>3, <2>1, InsertOverwrites DEF Buffer!Next, Buffer!PutOver
<1>4. ASSUME ~Empty, Remove PROVE Buffer!Next
    BY <1>4, RemoveTakesHead DEF Buffer!Next, Buffer!Get
<1>5. CASE Clear
    <2>1. Inv' /\ size' = 0
        BY <1>5, InvStep DEF Next, Clear
    <2>2. Contents' = [k \in 1 .. 0 |-> buffer'[(consumer' + k - 1) % MaxSize]]
        BY <2>1 DEF Contents
    <2>3. Contents' = <<>>
        BY <2>2, SMT
    <2> QED
        BY <2>3 DEF Buffer!Next, Buffer!Clear
<1>6. ASSUME NEW t \in Threads, ThreadNext(t)
      PROVE  Buffer!Next \/ Contents' = Contents
    <2>1. ASSUME NEW what \in Putting, NEW i \in Items, PutBegin(t, what, i)
          PROVE  Buffer!Next \/ Contents' = Contents
        BY <2>1, <1>1, <1>2 DEF PutBegin, Wait
    <2>2. ASSUME NEW what \in Getting, GetBegin(t, what)
          PROVE  Buffer!Next \/ Contents' = Contents
        BY <2>2, <1>1, <1>4 DEF GetBegin, Wait
    <2>3. ASSUME PutResume(t) PROVE Buffer!Next \/ Contents' = Contents
        <3>1. item[t] \in Items
            BY <2>3 DEF PutResume, Inv, TypeOK
        <3> QED
            BY <2>3, <3>1, <1>1, <1>2, <1>3 DEF PutResume, Overwrites, Wait
    <2>4. ASSUME GetResume(t) PROVE Buffer!Next \/ Contents' = Contents
        BY <2>4, <1>1, <1>4 DEF GetResume, Wait
    <2>5. ASSUME Expire(t) \/ Stir(t) PROVE Contents' = Contents
        BY <2>5, <1>1 DEF Expire, Stir
    <2> QED
        BY <1>6, <2>1, <2>2, <2>3, <2>4, <2>5 DEF ThreadNext, Resume
<1>7. CASE UNCHANGED vars
    BY <1>7, <1>1 DEF vars
<1> QED
    BY <1>5, <1>6, <1>7 DEF Next

\* For every capacity, whether it overwrites or not, and however many threads
\* use it, the ring is a first-in first-out buffer (queue.hpp:379-508).
THEOREM RefinesBuffer == Spec => ImplementsBuffer
<1> QED
    BY InvInit, InvStep, BufferInit, BufferStep, PTL
       DEF Spec, ImplementsBuffer, Buffer!Spec

-----------------------------------------------------------------------------
(* Nobody sleeps beside what he waits for.                                 *)

\* Those who are awake in a call are a finite set: one more or one less
\* counts for one.
LEMMA AwakeCounts ==
    ASSUME NEW A \in SUBSET Threads, NEW B \in SUBSET Threads
    PROVE  /\ Cardinality(A) \in Nat
           /\ A \subseteq B => Cardinality(A) <= Cardinality(B)
           /\ \A t \in A : Cardinality(A \ {t}) = Cardinality(A) - 1
           /\ \A t \in Threads \ A : Cardinality(A \cup {t}) = Cardinality(A) + 1
<1>1. IsFiniteSet(A) /\ IsFiniteSet(B)
    BY ThreadsAssumption, FS_Subset
<1> QED
    BY <1>1, FS_CardinalityType, FS_Subset, FS_RemoveElement, FS_AddElement

AwakeIn(calls) == In(calls) \ asleep

\* notify_one: if somebody still sleeps afterwards, somebody was woken.
LEMMA NotifyWakes ==
    ASSUME NEW calls, In(calls)' = In(calls), NotifyOne(asleep \cap In(calls)),
           asleep' \cap In(calls)' # {}
    PROVE  /\ asleep \cap In(calls) # {}
           /\ Cardinality(AwakeIn(calls)') = Cardinality(AwakeIn(calls)) + 1
<1>1. In(calls) \subseteq Threads
    BY DEF In
<1>2. PICK t \in asleep \cap In(calls) : asleep' = asleep \ {t}
    BY <1>1 DEF NotifyOne
<1>3. AwakeIn(calls)' = AwakeIn(calls) \cup {t}
    BY <1>1, <1>2 DEF AwakeIn
<1>4. t \in Threads \ AwakeIn(calls) /\ AwakeIn(calls) \in SUBSET Threads
    BY <1>1, <1>2 DEF AwakeIn
<1> QED
    BY <1>2, <1>3, <1>4, AwakeCounts

\* Where the callers are after each kind of step.
LEMMA CallersMove ==
    ASSUME Inv, NEW t \in Threads
    PROVE  /\ UNCHANGED call => In(Putting)' = In(Putting) /\ In(Getting)' = In(Getting)
           /\ call[t] \in Putting /\ Leave(t) =>
                In(Getting)' = In(Getting) /\ In(Putting)' = In(Putting) \ {t}
           /\ call[t] \in Getting /\ Leave(t) =>
                In(Putting)' = In(Putting) /\ In(Getting)' = In(Getting) \ {t}
           /\ \A what \in Putting : \A i :
                call[t] \in Putting \cup {"none"} /\ Wait(t, what, i) =>
                  In(Getting)' = In(Getting) /\ t \notin In(Getting)
           /\ \A what \in Getting : \A i :
                call[t] \in Getting \cup {"none"} /\ Wait(t, what, i) =>
                  In(Putting)' = In(Putting) /\ t \notin In(Putting)
    BY DEF Inv, TypeOK, In, Leave, Wait, Putting, Getting

\* The number of those who are awake is a number.
LEMMA AwakeNat ==
    ASSUME NEW calls
    PROVE  /\ Cardinality(AwakeIn(calls)) \in Nat
           /\ Cardinality(AwakeIn(calls)') \in Nat
<1>1. AwakeIn(calls) \in SUBSET Threads /\ AwakeIn(calls)' \in SUBSET Threads
    BY DEF AwakeIn, In
<1> QED
    BY <1>1, AwakeCounts

ItemsInv == asleep \cap In(Getting) # {} => size <= Cardinality(AwakeIn(Getting))

LEMMA ItemsStep == Inv /\ ItemsInv /\ [Next]_vars => ItemsInv'
<1> SUFFICES ASSUME Inv, ItemsInv, [Next]_vars, asleep' \cap In(Getting)' # {}
             PROVE  size' <= Cardinality(AwakeIn(Getting)')
    BY DEF ItemsInv
<1>1. size \in Nat /\ size' \in 0 .. MaxSize /\ MaxSize \in Nat
    BY InvStep, QueueAssumption DEF Inv, TypeOK
<1>2. CASE size' = 0
    BY <1>2, AwakeNat
\* Whoever puts wakes one, if one sleeps.
<1>3. ASSUME NEW i \in Items, Insert(i), In(Getting)' = In(Getting)
      PROVE  size' <= Cardinality(AwakeIn(Getting)')
    <2>1. /\ asleep \cap In(Getting) # {}
          /\ Cardinality(AwakeIn(Getting)') = Cardinality(AwakeIn(Getting)) + 1
        BY <1>3, NotifyWakes DEF Insert, NotifyNotEmpty
    <2>2. size' <= size + 1
        BY <1>1, <1>3, SMT DEF Insert, Grown, Full
    <2> QED
        BY <1>1, <2>1, <2>2, AwakeNat DEF ItemsInv
\* The getters stay where they are, but for some who wake up.
<1>4. ASSUME In(Getting)' = In(Getting), asleep' \cap In(Getting) \subseteq asleep,
             size' <= size
      PROVE  size' <= Cardinality(AwakeIn(Getting)')
    <2>1. asleep \cap In(Getting) # {} /\ AwakeIn(Getting) \subseteq AwakeIn(Getting)'
        BY <1>4 DEF AwakeIn
    <2>2. Cardinality(AwakeIn(Getting)) <= Cardinality(AwakeIn(Getting)')
        <3>1. AwakeIn(Getting) \in SUBSET Threads /\ AwakeIn(Getting)' \in SUBSET Threads
            BY DEF AwakeIn, In
        <3> QED
            BY <2>1, <3>1, AwakeCounts
    <2> QED
        BY <1>1, <1>4, <2>1, <2>2, AwakeNat DEF ItemsInv
<1>5. CASE Clear
    BY <1>5, <1>2 DEF Clear
<1>6. ASSUME NEW t \in Threads, ThreadNext(t)
      PROVE  size' <= Cardinality(AwakeIn(Getting)')
    <2>1. ASSUME NEW what \in Putting, NEW i \in Items, PutBegin(t, what, i)
          PROVE  size' <= Cardinality(AwakeIn(Getting)')
        <3>1. CASE Insert(i) /\ UNCHANGED <<call, item, late>>
            BY <3>1, <1>3, CallersMove
        <3>2. CASE Wait(t, what, i)
            <4>1. In(Getting)' = In(Getting) /\ t \notin In(Getting)
                BY <2>1, <3>2, CallersMove DEF PutBegin
            <4>2. asleep' \cap In(Getting) \subseteq asleep /\ size' <= size
                BY <3>2, <4>1, <1>1 DEF Wait, ring
            <4> QED
                BY <4>1, <4>2, <1>4
        <3> QED
            BY <2>1, <3>1, <3>2 DEF PutBegin
    <2>2. ASSUME NEW what \in Getting, GetBegin(t, what)
          PROVE  size' <= Cardinality(AwakeIn(Getting)')
        <3>1. CASE ~Empty /\ Remove /\ UNCHANGED <<call, item, late>>
            <4>1. asleep' \subseteq asleep /\ size' <= size
                BY <3>1, <1>1, RemoveRing, SMT DEF Remove
            <4> QED
                BY <3>1, <4>1, <1>4, CallersMove
        <3>2. CASE Empty /\ Wait(t, what, NoItem)
            BY <3>2, <1>2 DEF Empty, Wait, ring
        <3> QED
            BY <2>2, <3>1, <3>2 DEF GetBegin
    <2>3. ASSUME PutResume(t) PROVE size' <= Cardinality(AwakeIn(Getting)')
        <3>1. call[t] \in Putting /\ item[t] \in Items
            BY <2>3 DEF PutResume, Inv, TypeOK
        <3>2. CASE Insert(item[t]) /\ Leave(t)
            BY <3>1, <3>2, <1>3, CallersMove
        <3>3. CASE Leave(t) /\ UNCHANGED <<ring, asleep>>
            BY <3>1, <3>3, <1>1, <1>4, CallersMove DEF ring
        <3>4. CASE Wait(t, call[t], item[t])
            <4>1. In(Getting)' = In(Getting) /\ t \notin In(Getting)
                BY <3>1, <3>4, CallersMove
            <4>2. asleep' \cap In(Getting) \subseteq asleep /\ size' <= size
                BY <3>4, <4>1, <1>1 DEF Wait, ring
            <4> QED
                BY <4>1, <4>2, <1>4
        <3> QED
            BY <2>3, <3>2, <3>3, <3>4 DEF PutResume
    <2>4. ASSUME GetResume(t) PROVE size' <= Cardinality(AwakeIn(Getting)')
        <3>1. CASE ~Empty /\ Remove /\ Leave(t)
            <4>1. t \in AwakeIn(Getting) /\ call[t] \in Getting
                BY <2>4 DEF GetResume, AwakeIn, In
            <4>2. asleep' \subseteq asleep /\ size' = size - 1
                BY <3>1, RemoveRing DEF Remove
            <4>3. In(Getting)' = In(Getting) \ {t}
                BY <3>1, <4>1, CallersMove
            <4>4. asleep \cap In(Getting) # {} /\ AwakeIn(Getting) \ {t} \subseteq AwakeIn(Getting)'
                BY <4>2, <4>3 DEF AwakeIn
            <4>5. Cardinality(AwakeIn(Getting) \ {t}) = Cardinality(AwakeIn(Getting)) - 1
                <5>1. AwakeIn(Getting) \in SUBSET Threads
                    BY DEF AwakeIn, In
                <5> QED
                    BY <4>1, <5>1, AwakeCounts
            <4>6. Cardinality(AwakeIn(Getting) \ {t}) <= Cardinality(AwakeIn(Getting)')
                <5>1. AwakeIn(Getting) \ {t} \in SUBSET Threads
                      /\ AwakeIn(Getting)' \in SUBSET Threads
                    BY DEF AwakeIn, In
                <5> QED
                    BY <4>4, <5>1, AwakeCounts
            <4> QED
                BY <1>1, <4>2, <4>4, <4>5, <4>6, AwakeNat DEF ItemsInv
        <3>2. CASE Empty /\ UNCHANGED ring
            BY <3>2, <1>2 DEF Empty, ring
        <3> QED
            BY <2>4, <3>1, <3>2 DEF GetResume, Wait
    <2>5. ASSUME Expire(t) \/ Stir(t) PROVE size' <= Cardinality(AwakeIn(Getting)')
        BY <2>5, <1>1, <1>4, CallersMove DEF Expire, Stir, ring
    <2> QED
        BY <1>6, <2>1, <2>2, <2>3, <2>4, <2>5 DEF ThreadNext, Resume
<1>7. CASE UNCHANGED vars
    BY <1>7, <1>1, <1>4 DEF vars, ring, callers, In
<1> QED
    BY <1>5, <1>6, <1>7 DEF Next

\* No item stays behind with a sleeper beside it, for any number of threads.
THEOREM ItemsAreOfferedCorrect == Spec => []ItemsAreOffered
<1>1. Init => ItemsInv
    BY DEF Init, ItemsInv
<1>2. ItemsInv => ItemsAreOffered
    BY DEF ItemsInv, ItemsAreOffered, AwakeIn
<1> QED
    BY <1>1, <1>2, InvInit, InvStep, ItemsStep, PTL DEF Spec

SpaceInv ==
    asleep \cap In(Putting) # {} => MaxSize - size <= Cardinality(AwakeIn(Putting))

LEMMA SpaceStep ==
    ASSUME "clear" \notin Calls
    PROVE  Inv /\ SpaceInv /\ [Next]_vars => SpaceInv'
<1> SUFFICES ASSUME Inv, SpaceInv, [Next]_vars, asleep' \cap In(Putting)' # {}
             PROVE  MaxSize - size' <= Cardinality(AwakeIn(Putting)')
    BY DEF SpaceInv
<1>1. size \in 0 .. MaxSize /\ size' \in 0 .. MaxSize /\ MaxSize \in Nat
    BY InvStep, QueueAssumption DEF Inv, TypeOK
<1>2. CASE size' = MaxSize
    BY <1>1, <1>2, AwakeNat
\* Whoever gets wakes one, if one sleeps.
<1>3. ASSUME ~Empty, Remove, In(Putting)' = In(Putting)
      PROVE  MaxSize - size' <= Cardinality(AwakeIn(Putting)')
    <2>1. /\ asleep \cap In(Putting) # {}
          /\ Cardinality(AwakeIn(Putting)') = Cardinality(AwakeIn(Putting)) + 1
        BY <1>3, NotifyWakes DEF Remove, NotifySpace
    <2>2. size' = size - 1
        BY <1>3 DEF Remove
    <2> QED
        BY <1>1, <2>1, <2>2, AwakeNat DEF SpaceInv
\* The putters stay where they are, but for some who wake up.
<1>4. ASSUME In(Putting)' = In(Putting), asleep' \cap In(Putting) \subseteq asleep,
             size <= size'
      PROVE  MaxSize - size' <= Cardinality(AwakeIn(Putting)')
    <2>1. asleep \cap In(Putting) # {} /\ AwakeIn(Putting) \subseteq AwakeIn(Putting)'
        BY <1>4 DEF AwakeIn
    <2>2. Cardinality(AwakeIn(Putting)) <= Cardinality(AwakeIn(Putting)')
        <3>1. AwakeIn(Putting) \in SUBSET Threads /\ AwakeIn(Putting)' \in SUBSET Threads
            BY DEF AwakeIn, In
        <3> QED
            BY <2>1, <3>1, AwakeCounts
    <2> QED
        BY <1>1, <1>4, <2>1, <2>2, AwakeNat DEF SpaceInv
<1>5. ~Clear
    BY DEF Clear, callers, In
<1>6. ASSUME NEW t \in Threads, ThreadNext(t)
      PROVE  MaxSize - size' <= Cardinality(AwakeIn(Putting)')
    <2>1. ASSUME NEW what \in Getting, GetBegin(t, what)
          PROVE  MaxSize - size' <= Cardinality(AwakeIn(Putting)')
        <3>1. CASE ~Empty /\ Remove /\ UNCHANGED <<call, item, late>>
            BY <3>1, <1>3, CallersMove
        <3>2. CASE Wait(t, what, NoItem)
            <4>1. In(Putting)' = In(Putting) /\ t \notin In(Putting)
                BY <2>1, <3>2, CallersMove DEF GetBegin
            <4>2. asleep' \cap In(Putting) \subseteq asleep /\ size <= size'
                BY <3>2, <4>1, <1>1 DEF Wait, ring
            <4> QED
                BY <4>1, <4>2, <1>4
        <3> QED
            BY <2>1, <3>1, <3>2 DEF GetBegin
    <2>2. ASSUME NEW what \in Putting, NEW i \in Items, PutBegin(t, what, i)
          PROVE  MaxSize - size' <= Cardinality(AwakeIn(Putting)')
        <3>1. CASE Insert(i) /\ UNCHANGED <<call, item, late>>
            <4>1. asleep' \subseteq asleep
                BY <3>1, InsertRing
            <4>2. size <= size'
                BY <3>1, <1>1 DEF Insert, Grown, Full
            <4> QED
                BY <3>1, <4>1, <4>2, <1>4, CallersMove
        <3>2. CASE Full /\ Wait(t, what, i)
            BY <3>2, <1>2 DEF Full, Wait, ring
        <3> QED
            BY <2>2, <3>1, <3>2 DEF PutBegin
    <2>3. ASSUME GetResume(t) PROVE MaxSize - size' <= Cardinality(AwakeIn(Putting)')
        <3>1. call[t] \in Getting
            BY <2>3 DEF GetResume
        <3>2. CASE ~Empty /\ Remove /\ Leave(t)
            BY <3>1, <3>2, <1>3, CallersMove
        <3>3. CASE Leave(t) /\ UNCHANGED <<ring, asleep>>
            BY <3>1, <3>3, <1>1, <1>4, CallersMove DEF ring
        <3>4. CASE Wait(t, call[t], item[t])
            <4>1. In(Putting)' = In(Putting) /\ t \notin In(Putting)
                BY <3>1, <3>4, CallersMove
            <4>2. asleep' \cap In(Putting) \subseteq asleep /\ size <= size'
                BY <3>4, <4>1, <1>1 DEF Wait, ring
            <4> QED
                BY <4>1, <4>2, <1>4
        <3> QED
            BY <2>3, <3>2, <3>3, <3>4 DEF GetResume
    <2>4. ASSUME PutResume(t) PROVE MaxSize - size' <= Cardinality(AwakeIn(Putting)')
        <3>1. t \in AwakeIn(Putting) /\ call[t] \in Putting /\ item[t] \in Items
            BY <2>4 DEF PutResume, AwakeIn, In, Inv, TypeOK
        <3>2. CASE ~Full /\ Insert(item[t]) /\ Leave(t)
            <4>1. asleep' \subseteq asleep /\ size' = size + 1
                BY <3>1, <3>2, InsertRing DEF Insert, Grown, Full
            <4>2. In(Putting)' = In(Putting) \ {t}
                BY <3>1, <3>2, CallersMove
            <4>3. asleep \cap In(Putting) # {} /\ AwakeIn(Putting) \ {t} \subseteq AwakeIn(Putting)'
                BY <4>1, <4>2 DEF AwakeIn
            <4>4. Cardinality(AwakeIn(Putting) \ {t}) = Cardinality(AwakeIn(Putting)) - 1
                <5>1. AwakeIn(Putting) \in SUBSET Threads
                    BY DEF AwakeIn, In
                <5> QED
                    BY <3>1, <5>1, AwakeCounts
            <4>5. Cardinality(AwakeIn(Putting) \ {t}) <= Cardinality(AwakeIn(Putting)')
                <5>1. AwakeIn(Putting) \ {t} \in SUBSET Threads
                      /\ AwakeIn(Putting)' \in SUBSET Threads
                    BY DEF AwakeIn, In
                <5> QED
                    BY <4>3, <5>1, AwakeCounts
            <4> QED
                BY <1>1, <4>1, <4>3, <4>4, <4>5, AwakeNat DEF SpaceInv
        <3>3. CASE Full /\ (UNCHANGED ring \/ Insert(item[t]))
            BY <3>3, <1>1, <1>2 DEF Full, ring, Insert, Grown
        <3> QED
            BY <2>4, <3>2, <3>3 DEF PutResume, Wait
    <2>5. ASSUME Expire(t) \/ Stir(t)
          PROVE  MaxSize - size' <= Cardinality(AwakeIn(Putting)')
        BY <2>5, <1>1, <1>4, CallersMove DEF Expire, Stir, ring
    <2> QED
        BY <1>6, <2>1, <2>2, <2>3, <2>4, <2>5 DEF ThreadNext, Resume
<1>7. CASE UNCHANGED vars
    BY <1>7, <1>1, <1>4 DEF vars, ring, callers, In
<1> QED
    BY <1>5, <1>6, <1>7 DEF Next

\* No space stays free with a sleeper beside it, unless the program calls
\* clear(), which announces nothing, while somebody sleeps in a put.
THEOREM SpaceIsOfferedCorrect ==
    ASSUME "clear" \notin Calls
    PROVE  Spec => []SpaceIsOffered
<1>1. Init => SpaceInv
    BY DEF Init, SpaceInv
<1>2. SpaceInv => SpaceIsOffered
    BY DEF SpaceInv, SpaceIsOffered, AwakeIn
<1>3. Inv /\ SpaceInv /\ [Next]_vars => SpaceInv'
    BY SpaceStep
<1> QED
    BY <1>1, <1>2, <1>3, InvInit, InvStep, PTL DEF Spec

=============================================================================
