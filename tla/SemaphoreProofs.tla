--------------------------- MODULE SemaphoreProofs ---------------------------
(***************************************************************************)
(* For every count and every set of threads: a semaphore counts its units, *)
(* and one of a single unit, used as a lock, is a mutex.                   *)
(***************************************************************************)
EXTENDS Semaphore, FiniteSetTheorems, ListLemmas

LEMMA UnitsRange ==
    ASSUME NEW n \in InitCounts
    PROVE  Units(n) \in 0 .. Count
<1> DEFINE S == {n, Count}
<1>1. n \in Nat /\ \E x \in S : \A y \in S : x <= y
    BY SemaphoreAssumption
<1>2. Min(S) \in S /\ \A y \in S : Min(S) <= y
    BY <1>1 DEF Min
<1> QED
    BY <1>1, <1>2, SemaphoreAssumption DEF Units

-----------------------------------------------------------------------------
(* Sums over a function.  FoldFunction adds its values in the order in     *)
(* which CHOOSE picks the arguments; SumOver(h, S) are its partial sums.   *)

Picked(s) == CHOOSE x \in s : TRUE

Rest(s) == s \ {Picked(s)}

\* The sums over the sets in D.
Adds(f, h, D) == f = [s \in D |-> IF s = {} THEN 0 ELSE h[Picked(s)] + f[Rest(s)]]

SumOver(h, S) == CHOOSE f : Adds(f, h, SUBSET S)

Total(h) == FoldFunction(+, 0, h)

LEMMA RestSmaller ==
    ASSUME NEW S, IsFiniteSet(S), NEW s \in SUBSET S
    PROVE  /\ Cardinality(s) \in Nat /\ Cardinality(s) <= Cardinality(S)
           /\ s # {} => /\ Picked(s) \in s /\ Rest(s) \in SUBSET S
                        /\ Cardinality(Rest(s)) = Cardinality(s) - 1
                        /\ Cardinality(s) > 0
           /\ Cardinality(s) = 0 => s = {}
<1>1. IsFiniteSet(s) /\ Cardinality(s) \in Nat /\ Cardinality(s) <= Cardinality(S)
    BY FS_Subset, FS_CardinalityType
<1>2. ASSUME s # {} PROVE Picked(s) \in s
    BY <1>2 DEF Picked
<1>3. ASSUME s # {} PROVE Cardinality(Rest(s)) = Cardinality(s) - 1
    BY <1>1, <1>2, <1>3, FS_RemoveElement DEF Rest
<1>4. Cardinality(s) = 0 <=> s = {}
    BY <1>1, FS_EmptySet
<1> QED
    BY <1>1, <1>2, <1>3, <1>4 DEF Rest

\* What holds of the sets with n elements or fewer for every n holds of all.
LEMMA SumExists ==
    ASSUME NEW S, IsFiniteSet(S), NEW h
    PROVE  \E f : Adds(f, h, SUBSET S)
<1> DEFINE Upto(n) == {s \in SUBSET S : Cardinality(s) <= n}
           I == {n \in Nat : \E f : Adds(f, h, Upto(n))}
           N == Cardinality(S)
<1>1. N \in Nat
    BY FS_CardinalityType
<1>2. 0 \in I
    <2>1. \A s \in Upto(0) : s = {}
        BY RestSmaller
    <2>2. Adds([s \in Upto(0) |-> 0], h, Upto(0))
        BY <2>1 DEF Adds
    <2> QED
        BY <2>2
<1>3. ASSUME NEW n \in 0 .. N - 1, n \in I
      PROVE  n + 1 \in I
    <2>1. PICK f : Adds(f, h, Upto(n))
        BY <1>3
    <2>2. n \in Nat /\ n + 1 \in Nat
        OBVIOUS
    <2>3. \A s \in Upto(n + 1) : s # {} => Rest(s) \in Upto(n)
        BY <2>2, RestSmaller
    <2>4. \A s \in Upto(n) : s \in Upto(n + 1)
        BY <2>2, RestSmaller
    <2> HIDE DEF Upto
    <2>5. PICK g : g = [s \in Upto(n + 1) |-> IF s = {} THEN 0 ELSE h[Picked(s)] + f[Rest(s)]]
        OBVIOUS
    <2>6. \A s \in Upto(n) : g[s] = f[s]
        BY <2>1, <2>4, <2>5 DEF Adds
    <2>7. \A s \in Upto(n + 1) : s # {} => g[Rest(s)] = f[Rest(s)]
        BY <2>3, <2>6
    <2>8. Adds(g, h, Upto(n + 1))
        BY <2>5, <2>7 DEF Adds
    <2> QED
        BY <2>2, <2>8
<1>4. N \in I
    <2> HIDE DEF I, N
    <2>1. 0 .. N \subseteq I
        BY <1>1, <1>2, <1>3, SetInduction
    <2> QED
        BY <1>1, <2>1
<1>5. Upto(N) = SUBSET S
    BY RestSmaller
<1> QED
    BY <1>4, <1>5

LEMMA SumOverAdds ==
    ASSUME NEW S, IsFiniteSet(S), NEW h
    PROVE  \A s \in SUBSET S :
               SumOver(h, S)[s] = IF s = {} THEN 0 ELSE h[Picked(s)] + SumOver(h, S)[Rest(s)]
<1>1. Adds(SumOver(h, S), h, SUBSET S)
    BY SumExists DEF SumOver
<1> HIDE DEF SumOver
<1> QED
    BY <1>1 DEF Adds

LEMMA SumIsFold ==
    ASSUME NEW S, NEW h \in [S -> Nat]
    PROVE  Total(h) = SumOver(h, S)[S]
<1>1. DOMAIN h = S
    OBVIOUS
<1>2. Total(h) = MapThenFoldSet(+, 0, LAMBDA x : h[x], Picked, S)
    BY <1>1 DEF Total, FoldFunction, FoldFunctionOnSet, Picked
<1> QED
    BY <1>2 DEF MapThenFoldSet, SumOver, Adds, Rest

\* A set of sets that has every set whose Rest it has, has all.
LEMMA RestInduction ==
    ASSUME NEW S, IsFiniteSet(S), NEW P,
           {} \in P,
           \A s \in SUBSET S : s # {} /\ Rest(s) \in P => s \in P
    PROVE  SUBSET S \subseteq P
<1> DEFINE I == {n \in Nat : \A s \in SUBSET S : Cardinality(s) <= n => s \in P}
           N == Cardinality(S)
<1>1. N \in Nat
    BY FS_CardinalityType
<1>2. 0 \in I
    <2>1. ASSUME NEW s \in SUBSET S, Cardinality(s) <= 0 PROVE s \in P
        <3>1. s = {}
            BY <2>1, RestSmaller
        <3> QED
            BY <3>1
    <2> QED
        BY <2>1
<1>3. ASSUME NEW n \in 0 .. N - 1, n \in I
      PROVE  n + 1 \in I
    <2>1. ASSUME NEW s \in SUBSET S, Cardinality(s) <= n + 1 PROVE s \in P
        <3>1. CASE s = {}
            BY <3>1
        <3>2. CASE s # {}
            <4>1. Rest(s) \in SUBSET S /\ Cardinality(Rest(s)) <= n
                BY <2>1, <3>2, RestSmaller
            <4> QED
                BY <1>3, <3>2, <4>1
        <3> QED
            BY <3>1, <3>2
    <2> QED
        BY <2>1
<1>4. N \in I
    <2> HIDE DEF I, N
    <2>1. 0 .. N \subseteq I
        BY <1>1, <1>2, <1>3, SetInduction
    <2> QED
        BY <1>1, <2>1
<1> QED
    BY <1>1, <1>4, RestSmaller

\* A sum of numbers is a number, at least as large as each of them.
LEMMA SumType ==
    ASSUME NEW S, IsFiniteSet(S), NEW h \in [S -> Nat]
    PROVE  /\ Total(h) \in Nat
           /\ \A x \in S : h[x] <= Total(h)
<1> DEFINE P == {s \in SUBSET S : /\ SumOver(h, S)[s] \in Nat
                                  /\ \A x \in s : h[x] <= SumOver(h, S)[s]}
<1>1. {} \in P
    BY SumOverAdds
<1>2. ASSUME NEW s \in SUBSET S, s # {}, Rest(s) \in P
      PROVE  s \in P
    <2>1. SumOver(h, S)[s] = h[Picked(s)] + SumOver(h, S)[Rest(s)] /\ Picked(s) \in s
        BY <1>2, SumOverAdds, RestSmaller
    <2>2. \A x \in s : x = Picked(s) \/ x \in Rest(s)
        BY DEF Rest
    <2>3. SumOver(h, S)[Rest(s)] \in Nat /\ \A x \in Rest(s) : h[x] <= SumOver(h, S)[Rest(s)]
        BY <1>2
    <2>4. \A x \in s : h[x] \in Nat
        OBVIOUS
    <2> QED
        BY <2>1, <2>2, <2>3, <2>4
<1>3. S \in P
    <2> HIDE DEF P
    <2> QED
        BY <1>1, <1>2, RestInduction
<1> QED
    BY <1>3, SumIsFold

\* One value of a function moves its sum as far as it moves.
LEMMA SumMoves ==
    ASSUME NEW S, IsFiniteSet(S), NEW h \in [S -> Nat], NEW g \in [S -> Nat], NEW x \in S,
           \A y \in S \ {x} : g[y] = h[y]
    PROVE  Total(g) + h[x] = Total(h) + g[x]
<1> DEFINE F(s) == SumOver(h, S)[s]
           G(s) == SumOver(g, S)[s]
           P == {s \in SUBSET S : /\ F(s) \in Nat /\ G(s) \in Nat
                                  /\ x \in s => G(s) + h[x] = F(s) + g[x]
                                  /\ x \notin s => G(s) = F(s)}
<1>1. \A s \in SUBSET S : s # {} => F(s) = h[Picked(s)] + F(Rest(s))
    BY SumOverAdds
<1>2. \A s \in SUBSET S : s # {} => G(s) = g[Picked(s)] + G(Rest(s))
    BY SumOverAdds
<1>3. F({}) = 0 /\ G({}) = 0
    BY SumOverAdds
<1> HIDE DEF F, G
<1>4. {} \in P
    BY <1>3
<1>5. ASSUME NEW s \in SUBSET S, s # {}, Rest(s) \in P
      PROVE  s \in P
    <2>1. PICK y : y = Picked(s)
        OBVIOUS
    <2>2. y \in s /\ h[y] \in Nat /\ g[y] \in Nat /\ h[x] \in Nat /\ g[x] \in Nat
        BY <1>5, <2>1, RestSmaller
    <2>3. F(s) = h[y] + F(Rest(s)) /\ G(s) = g[y] + G(Rest(s))
        BY <1>1, <1>2, <1>5, <2>1
    <2>4. F(Rest(s)) \in Nat /\ G(Rest(s)) \in Nat
        BY <1>5
    <2>5. CASE x = y
        <3>1. x \notin Rest(s) /\ x \in s
            BY <2>1, <2>2, <2>5 DEF Rest
        <3>2. G(Rest(s)) = F(Rest(s))
            BY <1>5, <3>1
        <3> QED
            BY <2>2, <2>3, <2>4, <2>5, <3>1, <3>2
    <2>6. CASE x # y
        <3>1. x \in Rest(s) <=> x \in s
            BY <2>1, <2>6 DEF Rest
        <3>2. g[y] = h[y]
            BY <2>2, <2>6
        <3>3. /\ x \in s => G(Rest(s)) + h[x] = F(Rest(s)) + g[x]
              /\ x \notin s => G(Rest(s)) = F(Rest(s))
            BY <1>5, <3>1
        <3> QED
            BY <2>2, <2>3, <2>4, <3>2, <3>3
    <2> QED
        BY <2>5, <2>6
<1>6. S \in P
    <2> HIDE DEF P
    <2> QED
        BY <1>4, <1>5, RestInduction
<1> QED
    BY <1>6, SumIsFold DEF F, G

LEMMA SumOfZeros ==
    ASSUME NEW S, IsFiniteSet(S), NEW h \in [S -> Nat], \A x \in S : h[x] = 0
    PROVE  Total(h) = 0
<1> DEFINE P == {s \in SUBSET S : SumOver(h, S)[s] = 0}
<1>1. {} \in P
    BY SumOverAdds
<1>2. ASSUME NEW s \in SUBSET S, s # {}, Rest(s) \in P
      PROVE  s \in P
    <2>1. SumOver(h, S)[s] = h[Picked(s)] + SumOver(h, S)[Rest(s)] /\ Picked(s) \in s
        BY <1>2, SumOverAdds, RestSmaller
    <2>2. h[Picked(s)] = 0 /\ SumOver(h, S)[Rest(s)] = 0
        BY <1>2, <2>1
    <2> QED
        BY <2>1, <2>2
<1>3. S \in P
    <2> HIDE DEF P
    <2> QED
        BY <1>1, <1>2, RestInduction
<1> QED
    BY <1>3, SumIsFold

-----------------------------------------------------------------------------
(* What the steps of the queue do to the number of its bytes.              *)

SizeOK == size \in 0 .. Count

\* The queue of a semaphore does not overwrite: a byte is put only where
\* there is room.
LEMMA PutSize ==
    ASSUME SizeOK, NEW t \in Threads,
           Sem!PutBegin(t, "put_for", Unit) \/ Sem!PutResume(t)
    PROVE  \/ size < Count /\ size' = size + 1
           \/ size' = size
    BY SemaphoreAssumption
       DEF SizeOK, Sem!PutBegin, Sem!PutResume, Sem!Insert, Sem!Grown, Sem!Full,
           Sem!Overwrites, Sem!Wait, Sem!ring

LEMMA GetSize ==
    ASSUME SizeOK, NEW t \in Threads, NEW what,
           Sem!GetBegin(t, what) \/ Sem!GetResume(t)
    PROVE  \/ size > 0 /\ size' = size - 1
           \/ size' = size
    BY SemaphoreAssumption
       DEF SizeOK, Sem!GetBegin, Sem!GetResume, Sem!Remove, Sem!Empty,
           Sem!Wait, Sem!ring

LEMMA SizeStep ==
    ASSUME SizeOK, [Next]_vars
    PROVE  SizeOK' /\ [Counting!Next]_size
<1>1. ASSUME NEW t \in Threads, Elapse(t) PROVE size' = size
    BY <1>1 DEF Elapse, Sem!Expire, Sem!Stir, Sem!ring
<1>2. ASSUME size < Count /\ size' = size + 1 PROVE SizeOK' /\ Counting!Next
    BY <1>2, SemaphoreAssumption DEF SizeOK, Counting!Next, Counting!Give
<1>3. ASSUME size > 0 /\ size' = size - 1 PROVE SizeOK' /\ Counting!Next
    BY <1>3, SemaphoreAssumption DEF SizeOK, Counting!Next, Counting!Take
<1>4. ASSUME size' = size PROVE SizeOK' /\ [Counting!Next]_size
    BY <1>4 DEF SizeOK
<1>5. CASE UNCHANGED vars
    BY <1>4, <1>5 DEF vars, queueVars
<1>6. ASSUME NEW t \in Threads, Unlock(t) \/ UnlockResume(t)
      PROVE  SizeOK' /\ [Counting!Next]_size
    BY <1>6, <1>2, <1>4, PutSize DEF Unlock, UnlockResume
<1>7. ASSUME NEW t \in Threads, NEW what, Lock(t, what) \/ LockResume(t)
      PROVE  SizeOK' /\ [Counting!Next]_size
    BY <1>7, <1>3, <1>4, GetSize DEF Lock, LockResume
<1> QED
    BY <1>1, <1>4, <1>5, <1>6, <1>7 DEF Next

LEMMA SizeInit == Init => SizeOK /\ Counting!Init
    BY UnitsRange DEF Init, SizeOK, Counting!Init, Units

\* A semaphore is a counting semaphore: the size of its queue is the number
\* of its units, between 0 and count, whatever its users do.
THEOREM RefinesCounting == Spec => ImplementsCounting
<1>1. SizeOK /\ [Next]_vars => SizeOK' /\ [Counting!Next]_size
    BY SizeStep
<1> QED
    BY <1>1, SizeInit, PTL DEF Spec, ImplementsCounting, Counting!Spec

-----------------------------------------------------------------------------
(* A lock of one unit.                                                     *)

\* The unit is in the queue or in one thread's hands, so that nobody waits to
\* give: a give in progress could bring a second unit.
OneUnit ==
    /\ size \in 0 .. 1
    /\ held \in [Threads -> 0 .. 1]
    /\ \A s, t \in Threads : held[s] = 1 /\ held[t] = 1 => s = t
    /\ size = 1 => \A t \in Threads : held[t] = 0
    /\ call \in [Threads -> {"none", "get", "get_for"}]

LEMMA OneUnitLock ==
    ASSUME locking, OneUnit, NEW t \in Threads, NEW what \in {"get", "get_for"},
           Lock(t, what) \/ LockResume(t)
    PROVE  OneUnit'
<1>1. CASE size > 0 /\ size' = size - 1 /\ Hold(t)
    <2>1. size = 1 /\ size' = 0 /\ \A s \in Threads : held[s] = 0
        BY <1>1 DEF OneUnit
    <2>2. held' = [held EXCEPT ![t] = held[t] + 1]
        BY <2>1, <1>1 DEF Hold, Obtains, OneUnit
    <2>3. call' \in [Threads -> {"none", "get", "get_for"}]
        BY <2>1 DEF Lock, LockResume, Sem!GetBegin, Sem!GetResume, Sem!Leave, Sem!Wait,
                    OneUnit
    <2>4. held' \in [Threads -> 0 .. 1] /\ \A s \in Threads : held'[s] = 1 => s = t
        BY <2>1, <2>2 DEF OneUnit
    <2> QED
        BY <2>1, <2>3, <2>4 DEF OneUnit
<1>2. CASE size' = size /\ Hold(t)
    <2>1. held' = held
        BY <1>2 DEF Hold, Obtains, OneUnit
    <2>2. call' \in [Threads -> {"none", "get", "get_for"}]
        BY DEF Lock, LockResume, Sem!GetBegin, Sem!GetResume, Sem!Leave, Sem!Wait,
               OneUnit
    <2> QED
        BY <1>2, <2>1, <2>2 DEF OneUnit
<1>3. SizeOK
    BY SemaphoreAssumption DEF OneUnit, SizeOK
<1> QED
    BY <1>1, <1>2, <1>3, GetSize DEF Lock, LockResume

LEMMA OneUnitUnlock ==
    ASSUME locking, OneUnit, NEW t \in Threads, Unlock(t)
    PROVE  OneUnit'
<1>1. held[t] = 1 /\ size = 0 /\ held' = [held EXCEPT ![t] = 0]
    <2>1. held[t] > 0 /\ held' = [held EXCEPT ![t] = held[t] - 1]
        BY DEF Unlock, OneUnit
    <2>2. held[t] = 1
        BY <2>1 DEF OneUnit
    <2>3. size = 0
        BY <2>2 DEF OneUnit
    <2> QED
        BY <2>1, <2>2, <2>3
<1>2. size' = 1 /\ call' = call
    BY <1>1, SemaphoreAssumption DEF Unlock, Sem!PutBegin, Sem!Full, Sem!Insert, Sem!Grown
<1>3. \A s \in Threads : held'[s] = 0
    BY <1>1 DEF OneUnit
<1> QED
    BY <1>1, <1>2, <1>3 DEF OneUnit

LEMMA OneUnitStep ==
    ASSUME locking, OneUnit, [Next]_vars
    PROVE  OneUnit'
<1>1. ASSUME NEW t \in Threads PROVE ~UnlockResume(t)
    BY DEF UnlockResume, Sem!PutResume, Sem!Putting, OneUnit
<1>2. ASSUME NEW t \in Threads, Elapse(t) PROVE OneUnit'
    BY <1>2 DEF Elapse, Sem!Expire, Sem!Stir, Sem!ring, OneUnit
<1>3. CASE UNCHANGED vars
    BY <1>3 DEF vars, queueVars, OneUnit
<1> QED
    BY <1>1, <1>2, <1>3, OneUnitLock, OneUnitUnlock DEF Next

LEMMA OneUnitInit ==
    ASSUME Init, locking, made = 1
    PROVE  OneUnit
    BY DEF Init, OneUnit

\* What the theorem needs to be inductive.
LockInv == locking /\ made = 1 => OneUnit

LEMMA UserStep ==
    ASSUME [Next]_vars
    PROVE  locking' = locking /\ made' = made
    BY DEF Next, vars, userVars, Lock, LockResume, Hold, Unlock, UnlockResume, Elapse

\* A semaphore made with one unit and used as a lock keeps everybody but its
\* holder out, whatever its maximum.
THEOREM MutualExclusionCorrect == Spec => []MutualExclusion
<1>1. Init => LockInv
    BY OneUnitInit DEF LockInv
<1>2. LockInv /\ [Next]_vars => LockInv'
    BY OneUnitStep, UserStep DEF LockInv
<1>3. LockInv => MutualExclusion
    BY DEF LockInv, OneUnit, MutualExclusion
<1> QED
    BY <1>1, <1>2, <1>3, PTL DEF Spec

-----------------------------------------------------------------------------
(* A lock of any number of units.                                          *)

\* Whoever gives holds a unit, so there is room for it and nobody waits to
\* give; a get that takes a unit puts it in the hands of its thread.
AllUnits ==
    /\ size \in 0 .. Count
    /\ made \in 0 .. Count
    /\ held \in [Threads -> Nat]
    /\ size + Total(held) = made
    /\ call \in [Threads -> {"none", "get", "get_for"}]

LEMMA AllUnitsLock ==
    ASSUME IsFiniteSet(Threads), locking, AllUnits,
           NEW t \in Threads, NEW what \in {"get", "get_for"},
           Lock(t, what) \/ LockResume(t)
    PROVE  AllUnits'
<1>1. made' = made /\ Hold(t)
    BY DEF Lock, LockResume, Hold, userVars
<1>2. call' \in [Threads -> {"none", "get", "get_for"}]
    BY DEF Lock, LockResume, Sem!GetBegin, Sem!GetResume, Sem!Leave, Sem!Wait, AllUnits
<1>3. CASE size > 0 /\ size' = size - 1
    <2>1. held' = [held EXCEPT ![t] = held[t] + 1]
        <3>1. size' < size
            BY <1>3 DEF AllUnits
        <3> QED
            BY <1>1, <3>1 DEF Hold, Obtains
    <2>2. /\ held' \in [Threads -> Nat] /\ held'[t] = held[t] + 1
          /\ \A s \in Threads \ {t} : held'[s] = held[s]
        BY <2>1 DEF AllUnits
    <2>3. Total(held') + held[t] = Total(held) + held'[t]
        BY <2>2, SumMoves DEF AllUnits
    <2>4. Total(held') \in Nat /\ Total(held) \in Nat
        BY <2>2, SumType DEF AllUnits
    <2>5. Total(held') = Total(held) + 1
        BY <2>2, <2>3, <2>4 DEF AllUnits
    <2>6. size' \in 0 .. Count /\ size' + Total(held') = made'
        BY <1>1, <1>3, <2>4, <2>5, SemaphoreAssumption DEF AllUnits
    <2> QED
        BY <1>1, <1>2, <2>2, <2>6 DEF AllUnits
<1>4. CASE size' = size
    <2>1. held' = held
        BY <1>1, <1>4 DEF Hold, Obtains, AllUnits
    <2> QED
        BY <1>1, <1>2, <1>4, <2>1 DEF AllUnits
<1> QED
    BY <1>3, <1>4, GetSize DEF Lock, LockResume, AllUnits, SizeOK

LEMMA AllUnitsUnlock ==
    ASSUME IsFiniteSet(Threads), locking, AllUnits, NEW t \in Threads, Unlock(t)
    PROVE  AllUnits'
<1>1. held[t] > 0 /\ held' = [held EXCEPT ![t] = held[t] - 1] /\ made' = made
    BY DEF Unlock, AllUnits, userVars
<1>2. /\ held' \in [Threads -> Nat] /\ held'[t] = held[t] - 1
      /\ \A s \in Threads \ {t} : held'[s] = held[s]
    BY <1>1 DEF AllUnits
<1>3. /\ Total(held) \in Nat /\ Total(held') \in Nat
      /\ held[t] <= Total(held)
    BY <1>2, SumType DEF AllUnits
<1>4. Total(held') + held[t] = Total(held) + held'[t]
    BY <1>2, SumMoves DEF AllUnits
<1>5. Total(held') = Total(held) - 1
    BY <1>1, <1>2, <1>3, <1>4 DEF AllUnits
<1>6. size < Count
    BY <1>1, <1>3, SemaphoreAssumption DEF AllUnits
<1>7. size' = size + 1 /\ call' = call
    BY <1>6, SemaphoreAssumption DEF Unlock, Sem!PutBegin, Sem!Full, Sem!Insert, Sem!Grown,
                                     AllUnits
<1>8. size' \in 0 .. Count /\ size' + Total(held') = made'
    BY <1>1, <1>3, <1>5, <1>6, <1>7, SemaphoreAssumption DEF AllUnits
<1> QED
    BY <1>1, <1>2, <1>7, <1>8 DEF AllUnits

LEMMA AllUnitsStep ==
    ASSUME IsFiniteSet(Threads), locking, AllUnits, [Next]_vars
    PROVE  AllUnits'
<1>1. ASSUME NEW t \in Threads PROVE ~UnlockResume(t)
    BY DEF UnlockResume, Sem!PutResume, Sem!Putting, AllUnits
<1>2. ASSUME NEW t \in Threads, Elapse(t) PROVE AllUnits'
    BY <1>2 DEF Elapse, Sem!Expire, Sem!Stir, Sem!ring, userVars, AllUnits
<1>3. CASE UNCHANGED vars
    BY <1>3 DEF vars, queueVars, userVars, AllUnits
<1> QED
    BY <1>1, <1>2, <1>3, AllUnitsLock, AllUnitsUnlock DEF Next

LEMMA AllUnitsInit ==
    ASSUME IsFiniteSet(Threads), Init
    PROVE  AllUnits
<1>1. made \in 0 .. Count
    BY UnitsRange DEF Init
<1>2. held \in [Threads -> Nat] /\ \A t \in Threads : held[t] = 0
    BY DEF Init
<1>3. Total(held) = 0
    BY <1>2, SumOfZeros
<1> QED
    BY <1>1, <1>2, <1>3 DEF Init, AllUnits

\* Used as a lock by any finite set of threads, a semaphore of any maximum
\* loses and gains no unit, and no unlock is refused.
THEOREM UnitsConservedCorrect ==
    ASSUME IsFiniteSet(Threads)
    PROVE  Spec => []UnitsConserved
<1> DEFINE UnitsInv == locking => AllUnits
<1>1. Init => UnitsInv
    BY AllUnitsInit
<1>2. UnitsInv /\ [Next]_vars => UnitsInv'
    BY AllUnitsStep, UserStep
<1>3. UnitsInv => UnitsConserved
    BY DEF AllUnits, UnitsConserved, Total
<1> QED
    BY <1>1, <1>2, <1>3, PTL DEF Spec

=============================================================================
