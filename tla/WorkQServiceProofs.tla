------------------------- MODULE WorkQServiceProofs -------------------------
(***************************************************************************)
(* The work queues implement WorkService: for any sets of queues, works    *)
(* and clients, every step of WorkQ is a step of the service or changes    *)
(* nothing in it.  The first half is about the works in a list that also   *)
(* has flushers in it.                                                     *)
(***************************************************************************)
EXTENDS WorkQProofs

-----------------------------------------------------------------------------
(* The works in a list.                                                    *)

\* Sifted is the function that its definition describes.
LEMMA SiftedExists ==
    ASSUME NEW s \in Seq(Nodes)
    PROVE  /\ Sifted(s)[0] = <<>>
           /\ \A i \in 1 .. Len(s) :
                Sifted(s)[i] = IF s[i] \in Works THEN Append(Sifted(s)[i - 1], s[i])
                                                 ELSE Sifted(s)[i - 1]
<1> DEFINE Next1(f, i) == IF i = 0 THEN <<>>
                          ELSE IF s[i] \in Works THEN Append(f[i - 1], s[i]) ELSE f[i - 1]
           Has == {n \in 0 .. Len(s) : \E f : f = [i \in 0 .. n |-> Next1(f, i)]}
<1>0. Len(s) \in Nat
    BY LenProperties
<1>1. 0 \in Has
    <2>1. PICK f : f = [i \in 0 .. 0 |-> <<>>]
        OBVIOUS
    <2>2. f = [i \in 0 .. 0 |-> Next1(f, i)]
        BY <2>1
    <2> QED
        BY <1>0, <2>2
<1>2. ASSUME NEW n \in 0 .. Len(s) - 1, n \in Has
      PROVE  n + 1 \in Has
    <2>1. PICK f : f = [i \in 0 .. n |-> Next1(f, i)]
        BY <1>2
    <2>2. PICK g : g = [i \in 0 .. n + 1 |-> IF i = n + 1 THEN Next1(f, i) ELSE f[i]]
        OBVIOUS
    <2>3. ASSUME NEW i \in 0 .. n + 1
          PROVE  g[i] = Next1(g, i)
        <3>1. CASE i = 0
            BY <1>0, <2>1, <2>2, <3>1
        <3>2. CASE i # 0
            <4>1. i - 1 \in 0 .. n /\ i - 1 # n + 1
                BY <1>0, <3>2
            <4>2. g[i - 1] = f[i - 1]
                BY <2>2, <4>1
            <4>3. g[i] = Next1(f, i)
                <5>1. CASE i = n + 1
                    BY <2>2, <5>1
                <5>2. CASE i # n + 1
                    <6>1. i \in 0 .. n
                        BY <1>0, <5>2
                    <6>2. f[i] = Next1(f, i)
                        BY <2>1, <6>1
                    <6> QED
                        BY <2>2, <5>2, <6>2
                <5> QED
                    BY <5>1, <5>2
            <4> QED
                BY <4>2, <4>3
        <3> QED
            BY <3>1, <3>2
    <2>4. g = [i \in 0 .. n + 1 |-> g[i]]
        BY <2>2
    <2>5. g = [i \in 0 .. n + 1 |-> Next1(g, i)]
        BY <2>3, <2>4
    <2>6. n + 1 \in 0 .. Len(s)
        BY <1>0
    <2> HIDE DEF Next1
    <2> QED
        BY <2>5, <2>6
<1>3. Len(s) \in Has
    <2> HIDE DEF Has
    <2>1. 0 .. Len(s) \subseteq Has
        BY <1>0, <1>1, <1>2, SetInduction
    <2> QED
        BY <1>0, <2>1
<1>4. PICK f : f = [i \in 0 .. Len(s) |-> Next1(f, i)]
    BY <1>3
<1>5. Sifted(s) = CHOOSE h : h = [i \in 0 .. Len(s) |-> Next1(h, i)]
    BY DEF Sifted
<1>6. Sifted(s) = [i \in 0 .. Len(s) |-> Next1(Sifted(s), i)]
    BY <1>4, <1>5
<1>7. \A i \in 0 .. Len(s) : Sifted(s)[i] = Next1(Sifted(s), i)
    <2> HIDE DEF Next1
    <2> QED
        BY <1>6
<1>8. 0 \in 0 .. Len(s) /\ \A i \in 1 .. Len(s) : i \in 0 .. Len(s) /\ i # 0
    BY <1>0
<1> QED
    BY <1>7, <1>8

LEMMA SiftedType ==
    ASSUME NEW s \in Seq(Nodes)
    PROVE  \A i \in 0 .. Len(s) : Sifted(s)[i] \in Seq(Works)
<1> DEFINE Good == {i \in 0 .. Len(s) : Sifted(s)[i] \in Seq(Works)}
<1>0. Len(s) \in Nat
    BY LenProperties
<1>1. 0 \in Good
    <2>1. Sifted(s)[0] = <<>>
        BY SiftedExists
    <2>2. Sifted(s)[0] \in Seq(Works)
        BY <2>1, EmptySeq
    <2> QED
        BY <1>0, <2>2
<1>2. ASSUME NEW i \in 0 .. Len(s) - 1, i \in Good
      PROVE  i + 1 \in Good
    <2>1. i + 1 \in 1 .. Len(s) /\ (i + 1) - 1 = i
        BY <1>0
    <2>2. Sifted(s)[i + 1] = IF s[i + 1] \in Works THEN Append(Sifted(s)[i], s[i + 1])
                                                   ELSE Sifted(s)[i]
        BY <2>1, SiftedExists
    <2>3. s[i + 1] \in Works => Append(Sifted(s)[i], s[i + 1]) \in Seq(Works)
        BY <1>2, AppendProperties
    <2>4. Sifted(s)[i + 1] \in Seq(Works)
        BY <1>2, <2>2, <2>3
    <2>5. i + 1 \in 0 .. Len(s)
        BY <1>0
    <2> QED
        BY <2>4, <2>5
<1> HIDE DEF Good
<1>3. 0 .. Len(s) \subseteq Good
    BY <1>0, <1>1, <1>2, SetInduction
<1> QED
    BY <1>3 DEF Good

LEMMA WorksOfType ==
    ASSUME NEW s \in Seq(Nodes)
    PROVE  WorksOf(s) \in Seq(Works)
<1>1. Len(s) \in 0 .. Len(s)
    BY LenProperties
<1> QED
    BY <1>1, SiftedType DEF WorksOf

LEMMA WorksOfEmpty == WorksOf(<<>>) = <<>>
<1>1. <<>> \in Seq(Nodes) /\ Len(<<>>) = 0
    BY EmptySeq
<1> QED
    BY <1>1, SiftedExists DEF WorksOf

\* What comes behind a piece of a list does not matter to the piece.
LEMMA SiftedPrefix ==
    ASSUME NEW a \in Seq(Nodes), NEW b \in Seq(Nodes)
    PROVE  \A i \in 0 .. Len(a) : Sifted(a \o b)[i] = Sifted(a)[i]
<1> DEFINE Same == {i \in 0 .. Len(a) : Sifted(a \o b)[i] = Sifted(a)[i]}
<1>0. PICK s \in Seq(Nodes) : s = a \o b
    BY ConcatProperties
<1>1. /\ Len(a) \in Nat /\ Len(b) \in Nat /\ Len(s) = Len(a) + Len(b)
      /\ \A i \in 1 .. Len(a) : i \in 1 .. Len(s) /\ s[i] = a[i]
    BY <1>0, LenProperties, ConcatProperties
<1>2. 0 \in Same
    <2>1. Sifted(s)[0] = <<>> /\ Sifted(a)[0] = <<>>
        BY SiftedExists
    <2> QED
        BY <1>0, <1>1, <2>1
<1>3. ASSUME NEW i \in 0 .. Len(a) - 1, i \in Same
      PROVE  i + 1 \in Same
    <2>1. i + 1 \in 1 .. Len(a) /\ i + 1 \in 1 .. Len(s) /\ (i + 1) - 1 = i
        BY <1>1
    <2>2. Sifted(s)[i + 1] = IF s[i + 1] \in Works THEN Append(Sifted(s)[i], s[i + 1])
                                                   ELSE Sifted(s)[i]
        BY <2>1, SiftedExists
    <2>3. Sifted(a)[i + 1] = IF a[i + 1] \in Works THEN Append(Sifted(a)[i], a[i + 1])
                                                   ELSE Sifted(a)[i]
        BY <2>1, SiftedExists
    <2> QED
        BY <1>0, <1>1, <1>3, <2>1, <2>2, <2>3
<1> HIDE DEF Same
<1>4. 0 .. Len(a) \subseteq Same
    BY <1>1, <1>2, <1>3, SetInduction
<1> QED
    BY <1>4 DEF Same

\* The works of two pieces put together.
LEMMA WorksOfConcat ==
    ASSUME NEW a \in Seq(Nodes), NEW b \in Seq(Nodes)
    PROVE  WorksOf(a \o b) = WorksOf(a) \o WorksOf(b)
<1> DEFINE Fits == {i \in 0 .. Len(b) :
                      Sifted(a \o b)[Len(a) + i] = WorksOf(a) \o Sifted(b)[i]}
<1>0. PICK s \in Seq(Nodes) : s = a \o b
    BY ConcatProperties
<1>1. /\ Len(a) \in Nat /\ Len(b) \in Nat /\ Len(s) = Len(a) + Len(b)
      /\ \A i \in 1 .. Len(a) + Len(b) : s[i] = IF i <= Len(a) THEN a[i] ELSE b[i - Len(a)]
    BY <1>0, LenProperties, ConcatProperties
<1>2. WorksOf(a) \in Seq(Works)
    BY WorksOfType
<1>3. 0 \in Fits
    <2>1. Sifted(a \o b)[Len(a)] = WorksOf(a)
        BY <1>1, SiftedPrefix DEF WorksOf
    <2>2. Sifted(b)[0] = <<>> /\ WorksOf(a) \o <<>> = WorksOf(a)
        BY <1>2, SiftedExists, ConcatEmptySeq
    <2>3. Sifted(a \o b)[Len(a) + 0] = WorksOf(a) \o Sifted(b)[0]
        <3>1. Len(a) + 0 = Len(a)
            BY <1>1
        <3> QED
            BY <2>1, <2>2, <3>1
    <2>4. 0 \in 0 .. Len(b)
        BY <1>1
    <2> QED
        BY <2>3, <2>4
<1>4. ASSUME NEW i \in 0 .. Len(b) - 1, i \in Fits
      PROVE  i + 1 \in Fits
    <2> HIDE DEF Fits
    <2>1. PICK k : k = Len(a) + i + 1
        OBVIOUS
    <2>2. /\ k \in 1 .. Len(s) /\ k - 1 = Len(a) + i /\ Len(a) + (i + 1) = k
          /\ i + 1 \in 1 .. Len(b) /\ (i + 1) - 1 = i /\ i + 1 \in 0 .. Len(b)
          /\ i \in 0 .. Len(b)
        BY <1>1, <2>1
    <2>3. s[k] = b[i + 1]
        <3>1. ~(k <= Len(a)) /\ k - Len(a) = i + 1
            BY <1>1, <2>1
        <3> QED
            BY <1>1, <2>2, <3>1
    <2>4. Sifted(s)[k] = IF s[k] \in Works THEN Append(Sifted(s)[k - 1], s[k])
                                           ELSE Sifted(s)[k - 1]
        BY <2>2, SiftedExists
    <2>5. Sifted(b)[i + 1] = IF b[i + 1] \in Works THEN Append(Sifted(b)[i], b[i + 1])
                                                   ELSE Sifted(b)[i]
        BY <2>2, SiftedExists
    <2>6. PICK x \in Seq(Works), y \in Seq(Works) : x = WorksOf(a) /\ y = Sifted(b)[i]
        BY <1>2, <2>2, SiftedType
    <2>7. Sifted(s)[k - 1] = x \o y
        BY <1>0, <1>4, <2>2, <2>6 DEF Fits
    <2>8. PICK z : z = Sifted(b)[i + 1]
        OBVIOUS
    <2>9. Sifted(s)[k] = x \o z
        <3>1. CASE b[i + 1] \in Works
            <4>1. PICK e \in Works : e = b[i + 1]
                BY <3>1
            <4>2. z = Append(y, e)
                BY <2>5, <2>6, <2>8, <4>1
            <4>3. PICK xy : xy = x \o y
                OBVIOUS
            <4>4. Sifted(s)[k] = Append(xy, e)
                BY <2>3, <2>4, <2>7, <4>1, <4>3
            <4>5. PICK r : r = Append(xy, e)
                OBVIOUS
            <4>6. r = x \o z
                BY <4>2, <4>3, <4>5, AppendJoin
            <4> QED
                BY <4>4, <4>5, <4>6
        <3>2. CASE b[i + 1] \notin Works
            BY <2>3, <2>4, <2>5, <2>6, <2>7, <2>8, <3>2
        <3> QED
            BY <3>1, <3>2
    <2> QED
        BY <1>0, <2>2, <2>6, <2>8, <2>9 DEF Fits
<1> HIDE DEF Fits
<1>5. 0 .. Len(b) \subseteq Fits
    BY <1>1, <1>3, <1>4, SetInduction
<1>6. Len(b) \in Fits
    BY <1>1, <1>5
<1> QED
    BY <1>0, <1>1, <1>6 DEF Fits, WorksOf

\* A list of one node.
LEMMA WorksOfOne ==
    ASSUME NEW n \in Nodes
    PROVE  WorksOf(<<n>>) = IF n \in Works THEN <<n>> ELSE <<>>
<1>1. PICK s : s = <<n>>
    OBVIOUS
<1>2. s \in Seq(Nodes) /\ Len(s) = 1 /\ s[1] = n
    BY <1>1
<1>3. Sifted(s)[1] = IF n \in Works THEN Append(<<>>, n) ELSE <<>>
    <2>1. 1 \in 1 .. Len(s) /\ 1 - 1 = 0
        BY <1>2
    <2>2. Sifted(s)[1] = IF s[1] \in Works THEN Append(Sifted(s)[1 - 1], s[1])
                                           ELSE Sifted(s)[1 - 1]
        BY <1>2, <2>1, SiftedExists
    <2>3. Sifted(s)[1 - 1] = <<>>
        BY <1>2, <2>1, SiftedExists
    <2> QED
        BY <1>2, <2>2, <2>3
<1>4. Append(<<>>, n) = <<n>>
    OBVIOUS
<1> QED
    BY <1>1, <1>2, <1>3, <1>4 DEF WorksOf

\* What stands in two pieces put together.
LEMMA ConcatContains ==
    ASSUME NEW S, NEW a \in Seq(S), NEW b \in Seq(S), NEW n
    PROVE  Contains(a \o b, n) <=> Contains(a, n) \/ Contains(b, n)
<1>1. PICK s \in Seq(S) : s = a \o b
    BY ConcatProperties
<1>2. /\ Len(a) \in Nat /\ Len(b) \in Nat /\ Len(s) = Len(a) + Len(b)
      /\ \A i \in 1 .. Len(a) + Len(b) : s[i] = IF i <= Len(a) THEN a[i] ELSE b[i - Len(a)]
    BY <1>1, LenProperties, ConcatProperties
<1>3. ASSUME Contains(s, n) PROVE Contains(a, n) \/ Contains(b, n)
    <2>1. PICK i \in 1 .. Len(s) : s[i] = n
        BY <1>3 DEF Contains
    <2>2. CASE i <= Len(a)
        BY <1>2, <2>1, <2>2 DEF Contains
    <2>3. CASE ~(i <= Len(a))
        <3>1. i - Len(a) \in 1 .. Len(b) /\ b[i - Len(a)] = n
            BY <1>2, <2>1, <2>3
        <3> QED
            BY <3>1 DEF Contains
    <2> QED
        BY <2>2, <2>3
<1>4. ASSUME Contains(a, n) PROVE Contains(s, n)
    <2>1. PICK i \in 1 .. Len(a) : a[i] = n
        BY <1>4 DEF Contains
    <2>2. i \in 1 .. Len(s) /\ s[i] = n
        BY <1>2, <2>1
    <2> QED
        BY <2>2 DEF Contains
<1>5. ASSUME Contains(b, n) PROVE Contains(s, n)
    <2>1. PICK i \in 1 .. Len(b) : b[i] = n
        BY <1>5 DEF Contains
    <2>2. PICK k : k = Len(a) + i
        OBVIOUS
    <2>3. k \in 1 .. Len(s) /\ ~(k <= Len(a)) /\ k - Len(a) = i
        BY <1>2, <2>2
    <2>4. s[k] = n
        BY <1>2, <2>1, <2>3
    <2> QED
        BY <2>3, <2>4 DEF Contains
<1> QED
    BY <1>1, <1>3, <1>4, <1>5

\* A list of one element.
LEMMA OneContains ==
    ASSUME NEW e, NEW n
    PROVE  Contains(<<e>>, n) <=> n = e
<1>1. PICK s : s = <<e>>
    OBVIOUS
<1>2. Len(s) = 1 /\ s[1] = e
    BY <1>1
<1>3. 1 .. Len(s) = {1}
    BY <1>2
<1> QED
    BY <1>1, <1>2, <1>3 DEF Contains

\* The list, taken apart at a position.
LEMMA ThreePieces ==
    ASSUME NEW S, NEW s \in Seq(S), NEW i \in 1 .. Len(s)
    PROVE  /\ SubSeq(s, 1, i - 1) \in Seq(S) /\ SubSeq(s, i + 1, Len(s)) \in Seq(S)
           /\ s[i] \in S
           /\ s = SubSeq(s, 1, i - 1) \o (<<s[i]>> \o SubSeq(s, i + 1, Len(s)))
<1>1. Len(s) \in Nat /\ i \in 1 .. Len(s) + 1 /\ i + 1 \in 1 .. Len(s) + 1
    BY LenProperties
<1>2. SubSeq(s, 1, i - 1) \in Seq(S) /\ SubSeq(s, i + 1, Len(s)) \in Seq(S) /\ s[i] \in S
    BY <1>1, CutProperties
<1>3. SubSeq(s, i, Len(s)) = <<s[i]>> \o SubSeq(s, i + 1, Len(s))
    <2>1. Len(s) \in i .. Len(s)
        BY <1>1
    <2> QED
        BY <2>1, SubSeqRecursiveFirst
<1>4. SubSeq(s, 1, i - 1) \o SubSeq(s, (i - 1) + 1, Len(s)) = SubSeq(s, 1, Len(s))
    <2>1. PICK k : k = i - 1
        OBVIOUS
    <2>2. 1 \in 1 .. Len(s) + 1 /\ k \in 1 - 1 .. Len(s) /\ Len(s) \in k .. Len(s)
        BY <1>1, <2>1
    <2> QED
        BY <2>1, <2>2, ConcatAdjacentSubSeq
<1>5. (i - 1) + 1 = i
    BY <1>1
<1> QED
    BY <1>2, <1>3, <1>4, <1>5, SubSeqFull

\* Removal of an element that stands once, between two pieces.
LEMMA RemoveMiddle ==
    ASSUME NEW S, NEW x \in Seq(S), NEW y \in Seq(S), NEW e \in S,
           ~Contains(x, e), ~Contains(y, e),
           NEW one, one = <<e>>, NEW ey, ey = one \o y, NEW s, s = x \o ey
    PROVE  RemoveFirst(s, e) = x \o y
<1>1. one \in Seq(S) /\ Len(one) = 1 /\ one[1] = e
    OBVIOUS
<1>2. /\ Len(y) \in Nat /\ ey \in Seq(S) /\ Len(ey) = 1 + Len(y)
      /\ \A i \in 1 .. 1 + Len(y) : ey[i] = IF i <= 1 THEN one[i] ELSE y[i - 1]
    <2>1. Len(y) \in Nat
        BY LenProperties
    <2>2. PICK l \in Nat : l = Len(y)
        BY <2>1
    <2>3. /\ ey \in Seq(S) /\ Len(ey) = 1 + l
          /\ \A i \in 1 .. 1 + l : ey[i] = IF i <= 1 THEN one[i] ELSE y[i - 1]
        BY <1>1, <2>2, TwoPieces
    <2> QED
        BY <2>2, <2>3
<1>3. /\ Len(x) \in Nat /\ s \in Seq(S) /\ Len(s) = Len(x) + 1 + Len(y)
      /\ \A i \in 1 .. Len(x) + 1 + Len(y) : s[i] = IF i <= Len(x) THEN x[i] ELSE ey[i - Len(x)]
    <2>1. Len(x) \in Nat
        BY LenProperties
    <2>2. PICK k \in Nat, l \in Nat : k = Len(x) /\ l = Len(ey)
        BY <2>1, <1>2
    <2>3. /\ s \in Seq(S) /\ Len(s) = k + l
          /\ \A i \in 1 .. k + l : s[i] = IF i <= k THEN x[i] ELSE ey[i - k]
        BY <1>2, <2>2, TwoPieces
    <2>4. k + l = Len(x) + 1 + Len(y)
        BY <1>2, <2>1, <2>2
    <2> QED
        BY <2>1, <2>2, <2>3, <2>4
<1>4. PICK m : m = Len(x) + 1
    OBVIOUS
<1>0. s \in Seq(S)
    BY <1>3
<1>5. ASSUME NEW i \in 1 .. Len(s)
      PROVE  /\ i < m => i \in 1 .. Len(x) /\ s[i] = x[i]
             /\ i = m => s[i] = e
             /\ i > m => i - m \in 1 .. Len(y) /\ s[i] = y[i - m]
    <2>1. CASE i < m
        BY <1>3, <1>4, <2>1
    <2>2. CASE i = m
        <3>1. ~(i <= Len(x)) /\ i - Len(x) = 1
            BY <1>3, <1>4, <2>2
        <3>2. s[i] = ey[1] /\ 1 \in 1 .. 1 + Len(y)
            BY <1>2, <1>3, <3>1
        <3> QED
            BY <1>1, <1>2, <2>2, <3>2, <1>4
    <2>3. CASE i > m
        <3>1. ~(i <= Len(x)) /\ i - Len(x) \in 1 .. 1 + Len(y) /\ ~(i - Len(x) <= 1)
              /\ (i - Len(x)) - 1 = i - m /\ i - m \in 1 .. Len(y)
            BY <1>2, <1>3, <1>4, <2>3
        <3>2. s[i] = ey[i - Len(x)]
            BY <1>3, <3>1
        <3>3. ey[i - Len(x)] = y[(i - Len(x)) - 1]
            BY <1>2, <3>1
        <3>4. ~(i < m) /\ i # m
            BY <1>3, <1>4, <2>3
        <3> QED
            BY <3>1, <3>2, <3>3, <3>4
    <2> QED
        BY <2>1, <2>2, <2>3
<1>6. m \in 1 .. Len(s) /\ s[m] = e
    <2>1. m \in 1 .. Len(s)
        BY <1>2, <1>3, <1>4
    <2> QED
        BY <2>1, <1>5
<1>7. Where(s, e) = m
    <2>1. PICK p : p = Where(s, e)
        OBVIOUS
    <2>2. p \in 1 .. Len(s) /\ s[p] = e
        <3>1. p \in 0 .. Len(s) /\ (p = 0 <=> \A i \in 1 .. Len(s) : s[i] # e)
                /\ (p # 0 => s[p] = e)
            <4>1. /\ Where(s, e) \in 0 .. Len(s)
                  /\ Where(s, e) = 0 <=> \A i \in 1 .. Len(s) : s[i] # e
                  /\ Where(s, e) # 0 => s[Where(s, e)] = e
                BY ONLY <1>0, WhereProperties
            <4> QED
                BY <2>1, <4>1
        <3> QED
            BY <1>3, <1>6, <3>1
    <2>3. ~(p < m)
        BY <1>5, <2>2 DEF Contains
    <2>4. ~(p > m)
        BY <1>5, <2>2 DEF Contains
    <2> QED
        BY <1>3, <1>4, <2>1, <2>2, <2>3, <2>4
<1>8. RemoveFirst(s, e) = RemoveAt(s, m)
    <2>1. m # 0
        BY <1>6
    <2> QED
        BY <1>3, <1>7, <2>1, RemoveFirstProperties
<1>9. PICK t \in Seq(S), u \in Seq(S) : t = RemoveAt(s, m) /\ u = x \o y
    BY <1>3, <1>6, RemoveAtProperties, ConcatProperties
<1>10. /\ Len(t) = Len(s) - 1
       /\ \A j \in 1 .. Len(s) - 1 : t[j] = IF j < m THEN s[j] ELSE s[j + 1]
    BY ONLY <1>0, <1>6, <1>9, RemoveAtProperties
<1>11. /\ Len(u) = Len(x) + Len(y)
       /\ \A j \in 1 .. Len(x) + Len(y) : u[j] = IF j <= Len(x) THEN x[j] ELSE y[j - Len(x)]
    BY <1>9, ConcatProperties
<1>12. Len(t) = Len(u)
    BY <1>2, <1>3, <1>10, <1>11
<1>13. ASSUME NEW j \in 1 .. Len(t)
       PROVE  t[j] = u[j]
    <2>0. j \in 1 .. Len(s) - 1 /\ j \in 1 .. Len(x) + Len(y)
        BY <1>2, <1>3, <1>10
    <2>1. CASE j < m
        <3>1. j <= Len(x) /\ j \in 1 .. Len(s)
            BY <1>3, <1>4, <2>0, <2>1
        <3> QED
            BY <1>5, <1>10, <1>11, <2>0, <2>1, <3>1
    <2>2. CASE ~(j < m)
        <3>1. ~(j <= Len(x)) /\ j + 1 \in 1 .. Len(s) /\ j + 1 > m /\ (j + 1) - m = j - Len(x)
            BY <1>3, <1>4, <2>0, <2>2
        <3>2. t[j] = s[j + 1]
            BY <1>10, <2>0, <2>2
        <3>3. s[j + 1] = y[j - Len(x)]
            BY <1>5, <3>1
        <3> QED
            BY <1>11, <2>0, <3>1, <3>2, <3>3
    <2> QED
        BY <2>1, <2>2
<1>14. t = u
    BY <1>12, <1>13, SeqEqual
<1> QED
    BY <1>8, <1>9, <1>14

\* Sifting invents nothing.
LEMMA WorksOfContains ==
    ASSUME NEW s \in Seq(Nodes), NEW w, Contains(WorksOf(s), w)
    PROVE  Contains(s, w)
<1> DEFINE Old == {i \in 0 .. Len(s) : Contains(Sifted(s)[i], w) => Contains(s, w)}
<1>0. Len(s) \in Nat
    BY LenProperties
<1>1. 0 \in Old
    <2>1. Sifted(s)[0] = <<>>
        BY SiftedExists
    <2>2. ~Contains(<<>>, w)
        BY EmptySeq DEF Contains
    <2> QED
        BY <1>0, <2>1, <2>2
<1>2. ASSUME NEW i \in 0 .. Len(s) - 1, i \in Old
      PROVE  i + 1 \in Old
    <2>1. i + 1 \in 1 .. Len(s) /\ (i + 1) - 1 = i /\ i \in 0 .. Len(s) /\ i + 1 \in 0 .. Len(s)
        BY <1>0
    <2>2. Sifted(s)[i + 1] = IF s[i + 1] \in Works THEN Append(Sifted(s)[i], s[i + 1])
                                                   ELSE Sifted(s)[i]
        BY <2>1, SiftedExists
    <2>3. PICK t \in Seq(Works) : t = Sifted(s)[i]
        BY <2>1, SiftedType
    <2>4. CASE s[i + 1] \in Works
        <3>1. Contains(Append(t, s[i + 1]), w) => Contains(t, w) \/ w = s[i + 1]
            BY <2>4, AppendLinks
        <3>2. w = s[i + 1] => Contains(s, w)
            BY <2>1 DEF Contains
        <3> QED
            BY <1>2, <2>1, <2>2, <2>3, <2>4, <3>1, <3>2
    <2>5. CASE s[i + 1] \notin Works
        BY <1>2, <2>1, <2>2, <2>5
    <2> QED
        BY <2>4, <2>5
<1> HIDE DEF Old
<1>3. 0 .. Len(s) \subseteq Old
    BY <1>0, <1>1, <1>2, SetInduction
<1>4. Len(s) \in Old
    BY <1>0, <1>3
<1> QED
    BY <1>4 DEF Old, WorksOf

\* A submission appends to the line.
LEMMA WorksOfAppend ==
    ASSUME NEW s \in Seq(Nodes), NEW w \in Works
    PROVE  WorksOf(Append(s, w)) = Append(WorksOf(s), w)
<1>1. w \in Nodes
    BY DEF Nodes
<1>2. PICK one : one = <<w>>
    OBVIOUS
<1>3. one \in Seq(Nodes) /\ one \in Seq(Works) /\ WorksOf(one) = one
    BY <1>1, <1>2, WorksOfOne
<1>4. Append(s, w) = s \o one
    BY <1>1, <1>2, AppendIsConcat
<1>5. WorksOf(s \o one) = WorksOf(s) \o one
    BY <1>3, WorksOfConcat
<1>6. Append(WorksOf(s), w) = WorksOf(s) \o one
    <2>1. WorksOf(s) \in Seq(Works)
        BY WorksOfType
    <2> QED
        BY ONLY <1>2, <2>1, w \in Works, AppendIsConcat
<1> QED
    BY <1>4, <1>5, <1>6

\* A flusher that is put between the nodes changes nothing in the line.
LEMMA WorksOfInsert ==
    ASSUME NEW s \in Seq(Nodes), NEW i \in 1 .. Len(s) + 1, NEW c \in Clients
    PROVE  WorksOf(InsertAt(s, i, c)) = WorksOf(s)
<1>1. c \in Nodes /\ c \notin Works /\ Len(s) \in Nat
    BY DistinctObjects, LenProperties DEF Nodes
<1>2. PICK one : one = <<c>>
    OBVIOUS
<1>3. one \in Seq(Nodes) /\ WorksOf(one) = <<>>
    BY <1>1, <1>2, WorksOfOne
<1>4. PICK a : a = SubSeq(s, 1, i - 1)
    OBVIOUS
<1>5. PICK b : b = SubSeq(s, i, Len(s))
    OBVIOUS
<1>6. a \in Seq(Nodes) /\ b \in Seq(Nodes)
    BY <1>4, <1>5, CutProperties
<1>7. a \o b = s
    <2>1. PICK k : k = i - 1
        OBVIOUS
    <2>2. 1 \in 1 .. Len(s) + 1 /\ k \in 1 - 1 .. Len(s) /\ Len(s) \in k .. Len(s) /\ k + 1 = i
        BY <1>1, <2>1
    <2>3. SubSeq(s, 1, k) \o SubSeq(s, k + 1, Len(s)) = SubSeq(s, 1, Len(s))
        BY <2>2, ConcatAdjacentSubSeq
    <2>4. SubSeq(s, 1, Len(s)) = s
        BY SubSeqFull
    <2> QED
        BY <1>4, <1>5, <2>1, <2>2, <2>3, <2>4
<1>8. PICK m : m = a \o one
    OBVIOUS
<1>9. m \in Seq(Nodes) /\ InsertAt(s, i, c) = m \o b
    <2>1. m \in Seq(Nodes)
        BY <1>3, <1>6, <1>8, ConcatProperties
    <2> QED
        BY <2>1, <1>2, <1>4, <1>5, <1>8 DEF InsertAt
<1>10. WorksOf(m) = WorksOf(a)
    <2>1. WorksOf(m) = WorksOf(a) \o <<>>
        BY <1>3, <1>6, <1>8, WorksOfConcat
    <2> QED
        BY <1>6, <2>1, WorksOfType, ConcatEmptySeq
<1>11. WorksOf(m \o b) = WorksOf(m) \o WorksOf(b)
    BY <1>6, <1>9, WorksOfConcat
<1>12. WorksOf(a \o b) = WorksOf(a) \o WorksOf(b)
    BY <1>6, WorksOfConcat
<1> QED
    BY <1>7, <1>9, <1>10, <1>11, <1>12

LEMMA WorksOfFlusherPlace ==
    ASSUME NEW s \in Seq(Nodes), NEW w, NEW c \in Clients
    PROVE  WorksOf(FlusherPlace(s, w, c)) = WorksOf(s)
<1>1. c \in Nodes /\ Len(s) \in Nat
    BY LenProperties DEF Nodes
<1>2. Where(s, w) + 1 \in 1 .. Len(s) + 1 /\ 1 \in 1 .. Len(s) + 1
    BY <1>1, WhereProperties
<1>3. Cons(c, s) = InsertAt(s, 1, c)
    BY <1>1, ConsIsInsert
<1> QED
    BY <1>2, <1>3, WorksOfInsert DEF FlusherPlace, InsertAfter

\* The thread takes the first of the line, or a flusher before it.
LEMMA WorksOfTail ==
    ASSUME NEW s \in Seq(Nodes), s # <<>>
    PROVE  /\ Head(s) \in Works =>
                /\ WorksOf(s) # <<>>
                /\ Head(WorksOf(s)) = Head(s)
                /\ Tail(WorksOf(s)) = WorksOf(Tail(s))
           /\ Head(s) \notin Works => WorksOf(Tail(s)) = WorksOf(s)
<1>1. PICK h \in Nodes : h = Head(s)
    BY HeadTailProperties
<1>2. PICK t \in Seq(Nodes) : t = Tail(s)
    BY HeadTailProperties
<1>3. PICK one : one = <<h>>
    OBVIOUS
<1>4. one \in Seq(Nodes)
    BY <1>3
<1>5. s = one \o t
    <2>1. Len(s) \in Nat \ {0}
        BY EmptySeq
    <2>2. SubSeq(s, 1, Len(s)) = <<s[1]>> \o SubSeq(s, 1 + 1, Len(s))
        <3>1. 1 \in 1 .. Len(s) /\ Len(s) \in 1 .. Len(s)
            BY <2>1
        <3> QED
            BY <3>1, SubSeqRecursiveFirst
    <2>3. SubSeq(s, 1, Len(s)) = s /\ SubSeq(s, 2, Len(s)) = t /\ s[1] = h
        <3>1. SubSeq(s, 1, Len(s)) = s
            BY SubSeqFull
        <3>2. Tail(s) = SubSeq(s, 2, Len(s))
            BY TailIsSubSeq
        <3>3. Head(s) = s[1]
            OBVIOUS
        <3> QED
            BY <1>1, <1>2, <3>1, <3>2, <3>3
    <2>4. 1 + 1 = 2
        OBVIOUS
    <2> QED
        BY <1>3, <2>2, <2>3, <2>4
<1>6. PICK r \in Seq(Works) : r = WorksOf(t)
    BY WorksOfType
<1>7. PICK o : o = WorksOf(one)
    OBVIOUS
<1>8. WorksOf(s) = o \o r
    BY <1>4, <1>5, <1>6, <1>7, WorksOfConcat
<1>9. o = IF h \in Works THEN one ELSE <<>>
    BY <1>3, <1>7, WorksOfOne
<1>10. CASE h \in Works
    <2>1. one \in Seq(Works)
        BY <1>3, <1>10
    <2>2. PICK u \in Seq(Works) : u = one \o r
        BY <2>1, ConcatProperties
    <2>3. u = Cons(h, r)
        BY <1>3, <2>2 DEF Cons
    <2>4. /\ Len(r) \in Nat /\ Len(u) = Len(r) + 1
          /\ \A j \in 1 .. Len(r) + 1 : u[j] = IF j = 1 THEN h ELSE r[j - 1]
        <3>1. Len(r) \in Nat
            BY LenProperties
        <3>2. /\ Len(Cons(h, r)) = Len(r) + 1
              /\ \A j \in 1 .. Len(r) + 1 : Cons(h, r)[j] = IF j = 1 THEN h ELSE r[j - 1]
            BY ONLY <1>10, r \in Seq(Works), ConsProperties
        <3> QED
            BY <2>3, <3>1, <3>2
    <2>5. u # <<>> /\ Head(u) = h
        <3>1. u # <<>>
            BY <2>4, EmptySeq
        <3>2. u[1] = h
            BY <2>4
        <3> QED
            BY <3>1, <3>2
    <2>6. PICK v \in Seq(Works) : v = Tail(u)
        BY <2>5, HeadTailProperties
    <2>7. Len(v) = Len(u) - 1 /\ \A j \in 1 .. Len(v) : v[j] = u[j + 1]
        BY <2>5, <2>6, HeadTailProperties
    <2>8. Len(v) = Len(r)
        BY <2>4, <2>7
    <2>9. ASSUME NEW j \in 1 .. Len(v)
          PROVE  v[j] = r[j]
        <3>1. j + 1 \in 1 .. Len(r) + 1 /\ j + 1 # 1 /\ (j + 1) - 1 = j
            BY <2>4, <2>8
        <3> QED
            BY <2>4, <2>7, <3>1
    <2>10. v = r
        BY <2>8, <2>9, SeqEqual
    <2>11. WorksOf(s) = u
        BY <1>8, <1>9, <1>10, <2>2
    <2> QED
        BY <1>1, <1>2, <1>6, <1>10, <2>5, <2>6, <2>10, <2>11
<1>11. CASE h \notin Works
    <2>1. WorksOf(s) = <<>> \o r
        BY <1>8, <1>9, <1>11
    <2>2. <<>> \o r = r
        BY ConcatEmptySeq
    <2> QED
        BY <1>1, <1>2, <1>6, <1>11, <2>1, <2>2
<1> QED
    BY <1>10, <1>11

\* A cancellation takes the work out of the line.
LEMMA WorksOfRemove ==
    ASSUME NEW s \in Seq(Nodes), NEW w \in Works, Contains(s, w), AtMostOnce(s, w)
    PROVE  WorksOf(RemoveFirst(s, w)) = RemoveFirst(WorksOf(s), w)
<1>1. w \in Nodes /\ Len(s) \in Nat
    BY LenProperties DEF Nodes
<1>2. PICK i \in 1 .. Len(s) : i = Where(s, w) /\ s[i] = w
    <2>1. /\ Where(s, w) \in 0 .. Len(s)
          /\ Where(s, w) = 0 <=> \A i \in 1 .. Len(s) : s[i] # w
          /\ Where(s, w) # 0 => s[Where(s, w)] = w
        BY WhereProperties
    <2>2. Where(s, w) # 0
        BY <2>1 DEF Contains
    <2> QED
        BY <1>1, <2>1, <2>2
<1>3. PICK a : a = SubSeq(s, 1, i - 1)
    OBVIOUS
<1>4. PICK b : b = SubSeq(s, i + 1, Len(s))
    OBVIOUS
<1>5. PICK one : one = <<w>>
    OBVIOUS
<1>6. PICK wb : wb = one \o b
    OBVIOUS
<1>7. /\ a \in Seq(Nodes) /\ b \in Seq(Nodes) /\ one \in Seq(Nodes) /\ one \in Seq(Works)
      /\ wb \in Seq(Nodes) /\ s = a \o wb
    <2>1. a \in Seq(Nodes) /\ b \in Seq(Nodes) /\ s = a \o (<<s[i]>> \o b)
        BY <1>3, <1>4, ThreePieces
    <2>2. one \in Seq(Nodes) /\ one \in Seq(Works)
        BY <1>1, <1>5
    <2>3. wb \in Seq(Nodes)
        BY <1>6, <2>1, <2>2, ConcatProperties
    <2> QED
        BY <1>2, <1>5, <1>6, <2>1, <2>2, <2>3
<1>8. ~Contains(a, w) /\ ~Contains(b, w)
    <2>1. /\ Len(a) = i - 1 /\ \A j \in 1 .. i - 1 : a[j] = s[j]
        <3>1. i \in 1 .. Len(s) + 1
            BY <1>1
        <3> QED
            BY <1>3, <3>1, CutProperties
    <2>2. ~Contains(a, w)
        <3>1. ASSUME NEW j \in 1 .. Len(a), a[j] = w
              PROVE  FALSE
            <4>1. j \in 1 .. Len(s) /\ j # i /\ s[j] = w
                BY <1>1, <2>1, <3>1
            <4> QED
                BY <1>2, <4>1 DEF AtMostOnce
        <3> QED
            BY <3>1 DEF Contains
    <2>3. /\ Len(b) = Len(s) - (i + 1) + 1
          /\ \A j \in 1 .. Len(s) - (i + 1) + 1 : b[j] = s[(i + 1) + j - 1]
        <3>1. i + 1 \in 1 .. Len(s) + 1
            BY <1>1
        <3> QED
            BY <1>4, <3>1, CutProperties
    <2>4. ~Contains(b, w)
        <3>1. ASSUME NEW j \in 1 .. Len(b), b[j] = w
              PROVE  FALSE
            <4>1. PICK k : k = (i + 1) + j - 1
                OBVIOUS
            <4>2. k \in 1 .. Len(s) /\ k # i
                BY <1>1, <2>3, <4>1
            <4>3. s[k] = w
                BY <2>3, <3>1, <4>1
            <4> QED
                BY <1>2, <4>2, <4>3 DEF AtMostOnce
        <3> QED
            BY <3>1 DEF Contains
    <2> QED
        BY <2>2, <2>4
<1>9. RemoveFirst(s, w) = a \o b
    <2>1. RemoveFirst(s, w) = RemoveAt(s, i)
        <3>1. i # 0
            BY <1>1
        <3> QED
            BY ONLY s \in Seq(Nodes), <1>2, <3>1, RemoveFirstProperties
    <2> QED
        BY <1>3, <1>4, <2>1 DEF RemoveAt
<1>10. PICK x \in Seq(Works) : x = WorksOf(a)
    BY <1>7, WorksOfType
<1>11. PICK y \in Seq(Works) : y = WorksOf(b)
    BY <1>7, WorksOfType
<1>12. ~Contains(x, w) /\ ~Contains(y, w)
    BY <1>7, <1>8, <1>10, <1>11, WorksOfContains
<1>13. WorksOf(RemoveFirst(s, w)) = x \o y
    BY <1>7, <1>9, <1>10, <1>11, WorksOfConcat
<1>14. PICK wy : wy = one \o y
    OBVIOUS
<1>15. WorksOf(one) = one
    BY <1>1, <1>5, WorksOfOne
<1>16. WorksOf(wb) = wy
    BY <1>6, <1>7, <1>11, <1>14, <1>15, WorksOfConcat
<1>17. WorksOf(s) = x \o wy
    <2>1. WorksOf(a \o wb) = WorksOf(a) \o WorksOf(wb)
        BY <1>7, WorksOfConcat
    <2> QED
        BY <1>7, <1>10, <1>16, <2>1
<1>18. PICK l : l = WorksOf(s)
    OBVIOUS
<1>19. RemoveFirst(l, w) = x \o y
    <2>1. l = x \o wy
        BY <1>17, <1>18
    <2> QED
        BY ONLY x \in Seq(Works), y \in Seq(Works), w \in Works, <1>5, <1>12, <1>14, <2>1,
                RemoveMiddle
<1> QED
    BY <1>13, <1>18, <1>19

-----------------------------------------------------------------------------
(* The steps.                                                              *)

\* What the service sees of a state.
Lines == [q \in Queues |-> Line(q)]
Execs == [q \in Queues |-> IF cur[q] \in Works THEN cur[q] ELSE None]
Condemned == {w \in Works : "CANCELING" \in wflags[w]}

\* Two definitions that the service takes from the same library.
LEMMA SameOperators ==
    ASSUME NEW s, NEW w
    PROVE  /\ Service!RemoveFirst(s, w) = RemoveFirst(s, w)
           /\ Service!Contains(s, w) <=> Contains(s, w)
    BY DEF Service!RemoveFirst, RemoveFirst, Service!RemoveAt, RemoveAt,
         Service!SelectInSeq, SelectInSeq, Service!Min, Min, Service!Contains, Contains

\* A step in which the lists keep their works and no work begins, ends or is
\* condemned is none of the service.
LEMMA ServiceRests ==
    ASSUME \A q \in Queues : WorksOf(pending'[q]) = WorksOf(pending[q]),
           \A q \in Queues : cur'[q] = cur[q] \/ (cur[q] \notin Works /\ cur'[q] \notin Works),
           \A w \in Works : "CANCELING" \in wflags'[w] <=> "CANCELING" \in wflags[w]
    PROVE  UNCHANGED Service!vars
<1>1. Lines' = Lines
    BY DEF Lines, Line
<1>2. Execs' = Execs
    BY DEF Execs
<1>3. Condemned' = Condemned
    BY DEF Condemned
<1> QED
    BY <1>1, <1>2, <1>3 DEF Service!vars, Lines, Execs, Condemned

LEMMA ServiceInit == Init => Service!Init
<1> SUFFICES ASSUME Init
             PROVE  Service!Init
    OBVIOUS
<1>1. Lines = [q \in Queues |-> <<>>]
    BY WorksOfEmpty DEF Init, Lines, Line
<1>2. Execs = [q \in Queues |-> None]
    BY DEF Init, Execs
<1>3. Condemned = {}
    BY DEF Init, Condemned, Nodes
<1> QED
    BY <1>1, <1>2, <1>3 DEF Service!Init, Lines, Execs, Condemned

LEMMA ServiceAccepts ==
    ASSUME LinkInv, NEW t, NEW w \in Works, NEW q \in Queues,
           "RUNNING" \in wflags[w] => q = wqueue[w],
           SubmitLocked(t, w, q)
    PROVE  Service!Accept(w, q)
<1> USE DEF LinkInv
<1>1. /\ w \in Nodes /\ \A v \in Works : v \in Nodes
      /\ "QUEUED" \notin wflags[w] /\ "CANCELING" \notin wflags[w]
      /\ \A p \in Queues : pending[p] \in Seq(Nodes)
    BY DEF SubmitLocked, Submittable, Nodes, TypeOK
<1>2. /\ pending' = [pending EXCEPT ![q] = Append(pending[q], w)]
      /\ wflags' = [wflags EXCEPT ![w] = @ \cup {"QUEUED"}]
      /\ UNCHANGED cur
    BY DEF SubmitLocked, SetPending, workerVars
<1>3. w \notin Condemned
    BY <1>1 DEF Condemned
<1>4. \A p \in Queues : ~Service!Contains(Lines[p], w)
    <2>1. \A p \in Queues : ~Contains(pending[p], w)
        BY <1>1 DEF QueuedIsLinked
    <2>2. \A p \in Queues : ~Contains(WorksOf(pending[p]), w)
        BY <1>1, <2>1, WorksOfContains
    <2> QED
        BY <2>2, SameOperators DEF Lines, Line
<1>5. \A p \in Queues : Execs[p] = w => p = q
    <2> SUFFICES ASSUME NEW p \in Queues, Execs[p] = w
                 PROVE  p = q
        OBVIOUS
    <2>1. cur[p] = w
        BY DistinctObjects DEF Execs
    <2>2. p \in {r \in Queues : cur[r] = w}
        BY <2>1
    <2> QED
        BY <2>2 DEF RunningIsOwned
<1>6. Lines' = [Lines EXCEPT ![q] = Append(@, w)]
    <2>1. WorksOf(Append(pending[q], w)) = Append(WorksOf(pending[q]), w)
        BY <1>1, WorksOfAppend
    <2>2. pending'[q] = Append(pending[q], w)
        BY <1>2 DEF TypeOK
    <2>3. \A p \in Queues : p # q => pending'[p] = pending[p]
        BY <1>2 DEF TypeOK
    <2> QED
        BY <2>1, <2>2, <2>3 DEF Lines, Line
<1>7. Execs' = Execs /\ Condemned' = Condemned
    <2>1. \A v \in Works : "CANCELING" \in wflags'[v] <=> "CANCELING" \in wflags[v]
        BY <1>1, <1>2 DEF TypeOK
    <2> QED
        BY <1>2, <2>1 DEF Execs, Condemned
<1> QED
    BY <1>3, <1>4, <1>5, <1>6, <1>7 DEF Service!Accept, Lines, Execs, Condemned

LEMMA ServiceCancels ==
    ASSUME LinkInv, NEW w \in Works, wflags[w] # {}, CancelAsync(w), UNCHANGED cur
    PROVE  Service!CancelWork(w)
<1> USE DEF LinkInv
<1>1. /\ w \in Nodes /\ \A v \in Works : v \in Nodes
      /\ \A p \in Queues : pending[p] \in Seq(Nodes)
      /\ wflags[w] \subseteq {"RUNNING", "CANCELING", "QUEUED"}
      /\ "CANCELING" \in wflags[w] => wflags[w] = {"CANCELING", "RUNNING"}
    BY DEF Nodes, TypeOK, WorkFlags, CancelingIsRunning
<1>2. /\ pending' = PendingWithout(w)
      /\ wflags' = [wflags EXCEPT ![w] = CancelledFlags(w)]
    BY DEF CancelAsync
<1>3. Unlinks(w) <=> "QUEUED" \in wflags[w]
    BY <1>1 DEF Unlinks
<1>4. ASSUME NEW q \in Queues
      PROVE  WorksOf(pending'[q]) = RemoveFirst(WorksOf(pending[q]), w)
    <2>1. CASE Contains(pending[q], w)
        <3>1. "QUEUED" \in wflags[w] /\ wqueue[w] = q /\ AtMostOnce(pending[q], w)
            BY <2>1 DEF QueuedIsLinked
        <3>2. pending'[q] = RemoveFirst(pending[q], w)
            BY <1>2, <1>3, <3>1 DEF PendingWithout, TypeOK
        <3> QED
            BY <1>1, <2>1, <3>1, <3>2, WorksOfRemove
    <2>2. CASE ~Contains(pending[q], w)
        <3>1. "QUEUED" \in wflags[w] => wqueue[w] # q
            BY <2>2 DEF QueuedIsLinked
        <3>2. pending'[q] = pending[q]
            BY <1>2, <1>3, <3>1 DEF PendingWithout, TypeOK
        <3>3. PICK l \in Seq(Works) : l = WorksOf(pending[q])
            BY <1>1, WorksOfType
        <3>4. ~Contains(l, w)
            BY <1>1, <2>2, <3>3, WorksOfContains
        <3>5. Where(l, w) = 0
            BY <3>4, WhereProperties DEF Contains
        <3>6. RemoveFirst(l, w) = l
            BY <3>5, RemoveFirstProperties
        <3> QED
            BY <3>2, <3>3, <3>6
    <2> QED
        BY <2>1, <2>2
<1>5. Lines' = [q \in Queues |-> Service!RemoveFirst(Lines[q], w)]
    BY <1>4, SameOperators DEF Lines, Line
<1>6. "CANCELING" \in wflags'[w] <=> "RUNNING" \in wflags[w]
    <2>1. wflags'[w] = CancelledFlags(w)
        BY <1>1, <1>2 DEF TypeOK
    <2>2. CASE "RUNNING" \in wflags[w]
        BY <2>1, <2>2 DEF CancelledFlags
    <2>3. CASE "RUNNING" \notin wflags[w]
        <3>1. wflags[w] = {"QUEUED"}
            BY <1>1, <2>3
        <3> QED
            BY <1>3, <2>1, <2>3, <3>1 DEF CancelledFlags
    <2> QED
        BY <2>2, <2>3
<1>7. (\E q \in Queues : Execs[q] = w) <=> "RUNNING" \in wflags[w]
    <2>1. {q \in Queues : cur[q] = w} = IF "RUNNING" \in wflags[w] THEN {wqueue[w]} ELSE {}
        BY DEF RunningIsOwned
    <2>2. \A q \in Queues : Execs[q] = w <=> cur[q] = w
        BY DistinctObjects DEF Execs
    <2> QED
        BY <2>1, <2>2
<1>8. Condemned' = IF \E q \in Queues : Execs[q] = w THEN Condemned \cup {w} ELSE Condemned
    <2>1. \A v \in Works : v # w => wflags'[v] = wflags[v]
        BY <1>1, <1>2 DEF TypeOK
    <2>2. "CANCELING" \in wflags[w] => "RUNNING" \in wflags[w]
        BY <1>1
    <2> QED
        BY <1>6, <1>7, <2>1, <2>2 DEF Condemned
<1>9. Execs' = Execs
    BY DEF Execs
<1> QED
    BY <1>5, <1>8, <1>9 DEF Service!CancelWork, Lines, Execs, Condemned

LEMMA ServiceBegins ==
    ASSUME LinkInv, NEW q \in Queues, Take(q)
    PROVE  Service!Begin(q) \/ UNCHANGED Service!vars
<1> USE DEF LinkInv
<1>1. pending[q] # <<>> /\ pending[q] \in Seq(Nodes) /\ worker[q] = "top"
    BY DEF Take, Finds, TypeOK
<1>2. PICK n \in Nodes : n = Head(pending[q])
    BY <1>1, HeadTailProperties
<1>3. /\ pending' = [pending EXCEPT ![q] = Tail(pending[q])]
      /\ wflags' = [wflags EXCEPT ![n] = TakenFlags(n)]
      /\ cur' = [cur EXCEPT ![q] = n]
    BY <1>2 DEF Take, SetPending
<1>4. cur[q] = None
    BY <1>1 DEF BusyIsRunning
<1>5. /\ pending'[q] = Tail(pending[q])
      /\ \A p \in Queues : p # q => pending'[p] = pending[p]
    BY <1>3 DEF TypeOK
<1>6. cur'[q] = n /\ \A p \in Queues : p # q => cur'[p] = cur[p]
    BY <1>3 DEF TypeOK
<1>7. \A w \in Works : "CANCELING" \in wflags'[w] <=> "CANCELING" \in wflags[w]
    <2>1. \A w \in Works : w \in Nodes
        BY DEF Nodes
    <2> QED
        BY <1>3, <2>1 DEF TypeOK, TakenFlags
<1>8. CASE n \in Works
    <2>1. /\ WorksOf(pending[q]) # <<>>
          /\ Head(WorksOf(pending[q])) = n
          /\ Tail(WorksOf(pending[q])) = WorksOf(Tail(pending[q]))
        BY <1>1, <1>2, <1>8, WorksOfTail
    <2>2. Lines[q] = WorksOf(pending[q])
        BY DEF Lines, Line
    <2>3. Lines' = [Lines EXCEPT ![q] = Tail(@)]
        BY <1>5, <2>1 DEF Lines, Line
    <2>4. Execs[q] = None
        BY <1>4 DEF Execs
    <2>5. Execs' = [Execs EXCEPT ![q] = n]
        BY <1>6, <1>8 DEF Execs
    <2>6. Condemned' = Condemned
        BY <1>7 DEF Condemned
    <2>7. Lines[q] # <<>> /\ Execs' = [Execs EXCEPT ![q] = Head(Lines[q])]
        BY <2>1, <2>2, <2>5
    <2> QED
        BY <2>3, <2>4, <2>6, <2>7 DEF Service!Begin, Lines, Execs, Condemned
<1>9. CASE n \notin Works
    <2>1. WorksOf(Tail(pending[q])) = WorksOf(pending[q])
        BY <1>1, <1>2, <1>9, WorksOfTail
    <2>2. \A p \in Queues : WorksOf(pending'[p]) = WorksOf(pending[p])
        BY <1>5, <2>1
    <2>3. \A p \in Queues : cur'[p] = cur[p] \/ (cur[p] \notin Works /\ cur'[p] \notin Works)
        BY <1>4, <1>6, <1>9, DistinctObjects
    <2> QED
        BY <1>7, <2>2, <2>3, ServiceRests
<1> QED
    BY <1>8, <1>9

LEMMA ServiceEnds ==
    ASSUME LinkInv, NEW q \in Queues, Finish(q)
    PROVE  Service!End(q) \/ UNCHANGED Service!vars
<1> USE DEF LinkInv
<1>1. PICK n : n = cur[q]
    OBVIOUS
<1>2. n \in Nodes
    <2>1. n # None
        BY <1>1 DEF Finish, BusyIsRunning
    <2> QED
        BY <1>1, <2>1 DEF TypeOK
<1>3. /\ wflags' = [wflags EXCEPT ![n] = FinishedFlags(n)]
      /\ cur' = [cur EXCEPT ![q] = None]
      /\ UNCHANGED pending
    BY <1>1 DEF Finish
<1>4. cur'[q] = None /\ \A p \in Queues : p # q => cur'[p] = cur[p]
    BY <1>3 DEF TypeOK
<1>5. /\ "CANCELING" \notin wflags'[n]
      /\ \A w \in Works : w # n => wflags'[w] = wflags[w]
    <2>1. wflags'[n] = FinishedFlags(n)
        BY <1>2, <1>3 DEF TypeOK
    <2>2. \A w \in Works : w \in Nodes
        BY DEF Nodes
    <2> QED
        BY <1>3, <2>1, <2>2 DEF TypeOK, FinishedFlags
<1>6. CASE n \in Works
    <2>1. Execs[q] = n /\ n # None
        BY <1>1, <1>6, DistinctObjects DEF Execs
    <2>2. Execs' = [Execs EXCEPT ![q] = None]
        BY <1>4 DEF Execs
    <2>3. Condemned' = Condemned \ {n}
        BY <1>5, <1>6 DEF Condemned
    <2>4. Lines' = Lines
        BY <1>3 DEF Lines, Line
    <2>5. Condemned' = Condemned \ {Execs[q]} /\ Execs[q] # None
        BY <2>1, <2>3
    <2> QED
        BY <2>2, <2>4, <2>5 DEF Service!End, Lines, Execs, Condemned
<1>7. CASE n \notin Works
    <2>1. \A p \in Queues : cur'[p] = cur[p] \/ (cur[p] \notin Works /\ cur'[p] \notin Works)
        BY <1>1, <1>4, <1>7, DistinctObjects
    <2>2. \A w \in Works : "CANCELING" \in wflags'[w] <=> "CANCELING" \in wflags[w]
        BY <1>5, <1>7
    <2> QED
        BY <1>3, <2>1, <2>2, ServiceRests
<1> QED
    BY <1>6, <1>7

ServiceStep == [Service!Next]_Service!vars

LEMMA ServiceFlushes ==
    ASSUME LinkInv, NEW c \in Clients, NEW w \in Works, Flush(c, w)
    PROVE  UNCHANGED Service!vars
<1> USE DEF LinkInv
<1>1. PICK q \in Queues : q = wqueue[w]
    <2>1. wflags[w] # {}
        BY DEF Flush
    <2> QED
        BY <2>1, BusyWork
<1>2. /\ pending' = [pending EXCEPT ![q] = FlusherPlace(pending[q], w, c)]
      /\ wflags' = [wflags EXCEPT ![c] = {"FLUSHING"}]
      /\ UNCHANGED cur
    BY <1>1, FlushPlaces DEF Flush, SetPending, workerVars
<1>3. \A p \in Queues : WorksOf(pending'[p]) = WorksOf(pending[p])
    <2>1. WorksOf(FlusherPlace(pending[q], w, c)) = WorksOf(pending[q])
        BY WorksOfFlusherPlace DEF TypeOK
    <2>2. pending'[q] = FlusherPlace(pending[q], w, c)
        BY <1>2 DEF TypeOK
    <2>3. \A p \in Queues : p # q => pending'[p] = pending[p]
        BY <1>2 DEF TypeOK
    <2> QED
        BY <2>1, <2>2, <2>3
<1>4. \A v \in Works : wflags'[v] = wflags[v]
    <2>1. \A v \in Works : v \in Nodes /\ v # c
        BY DistinctObjects DEF Nodes
    <2> QED
        BY <1>2, <2>1 DEF TypeOK
<1> QED
    BY <1>2, <1>3, <1>4, ServiceRests

LEMMA ServiceClientStep ==
    ASSUME LinkInv, NEW c \in Clients, ClientNext(c)
    PROVE  ServiceStep
<1> USE DEF queueVars, workerVars, lifeVars
<1>1. ASSUME NEW w \in Works, CancelSync(c, w)
      PROVE  ServiceStep
    <2>1. Service!CancelWork(w)
        BY <1>1, ServiceCancels DEF CancelSync
    <2> QED
        BY <2>1 DEF ServiceStep, Service!Next
<1>2. ASSUME NEW w \in Works, Flush(c, w)
      PROVE  ServiceStep
    BY <1>2, ServiceFlushes DEF ServiceStep
<1>3. ASSUME UNCHANGED <<wflags, pending, cur>>
      PROVE  ServiceStep
    <2>1. UNCHANGED Service!vars
        BY <1>3, ServiceRests
    <2> QED
        BY <2>1 DEF ServiceStep
<1>4. ASSUME NEW q \in Queues, Start(c, q) \/ Run(c, q)
      PROVE  ServiceStep
    <2>1. Launch(q)
        BY <1>4 DEF Start, Run
    <2>2. UNCHANGED <<wflags, pending, cur>>
        BY <2>1, LaunchFresh
    <2> QED
        BY <1>3, <2>2
<1>5. ASSUME NEW q \in Queues, Destroy(c, q)
      PROVE  ServiceStep
    BY <1>3, <1>5 DEF Destroy, BeginDrain
<1>6. ASSUME NEW q \in Queues, NEW plug \in BOOLEAN, Drain(c, q, plug)
      PROVE  ServiceStep
    BY <1>3, <1>6 DEF Drain, BeginDrain
<1>7. ASSUME NEW q \in Queues, NEW how \in {"stop", "stop_for"}, Stop(c, q, how)
      PROVE  ServiceStep
    BY <1>3, <1>7 DEF Stop
<1>8. ASSUME FlushReturn(c) \/ CancelReturn(c) \/ DrainReturn(c) \/ StopReturn(c)
               \/ StopForReturn(c) \/ RunReturn(c) \/ DestroyDrained(c) \/ DestroyReturn(c)
      PROVE  ServiceStep
    BY <1>3, <1>8 DEF FlushReturn, CancelReturn, SemTaken, DrainReturn, TokenTaken,
         StopReturn, StopForReturn, RunReturn, DestroyDrained, DestroyReturn
<1> QED
    BY <1>1, <1>2, <1>4, <1>5, <1>6, <1>7, <1>8 DEF ClientNext

LEMMA ServiceThreadStep ==
    ASSUME LinkInv, NEW t \in Threads, ThreadNext(t)
    PROVE  ServiceStep
<1>1. ASSUME NEW w \in Works, NEW q \in Queues, Submit(t, w, q)
      PROVE  ServiceStep
    <2>1. SubmitLocked(t, w, Target(w, q))
        BY <1>1 DEF Submit
    <2>2. PICK p \in Queues : p = Target(w, q) /\ ("RUNNING" \in wflags[w] => p = wqueue[w])
        BY BusyWork DEF Target
    <2>3. Service!Accept(w, p)
        BY <2>1, <2>2, ServiceAccepts
    <2> QED
        BY <2>3 DEF ServiceStep, Service!Next
<1>2. ASSUME NEW w \in Works, Resubmit(t, w)
      PROVE  ServiceStep
    <2>1. PICK p \in Queues : p = wqueue[w]
        BY <1>2 DEF Resubmit, LinkInv, TypeOK
    <2>2. Service!Accept(w, p)
        BY <1>2, <2>1, ServiceAccepts DEF Resubmit
    <2> QED
        BY <2>2 DEF ServiceStep, Service!Next
<1>3. ASSUME NEW w \in Works, Cancel(t, w)
      PROVE  ServiceStep
    <2>1. Service!CancelWork(w)
        BY <1>3, ServiceCancels DEF Cancel, workerVars
    <2> QED
        BY <2>1 DEF ServiceStep, Service!Next
<1>4. ASSUME UNCHANGED <<wflags, pending, cur>>
      PROVE  ServiceStep
    <2>1. UNCHANGED Service!vars
        BY <1>4, ServiceRests
    <2> QED
        BY <2>1 DEF ServiceStep
<1>5. ASSUME NEW w \in Works, NEW h \in Handlers, SetHandler(t, w, h)
      PROVE  ServiceStep
    BY <1>4, <1>5 DEF SetHandler, queueVars, workerVars
<1>6. ASSUME NEW q \in Queues, Unplug(t, q)
      PROVE  ServiceStep
    BY <1>4, <1>6 DEF Unplug, workerVars
<1> QED
    BY <1>1, <1>2, <1>3, <1>5, <1>6 DEF ThreadNext

LEMMA ServiceWorkerStep ==
    ASSUME LinkInv, NEW q \in Queues, WorkerStep(q) \/ Throw(q)
    PROVE  ServiceStep
<1>1. CASE Take(q)
    BY <1>1, ServiceBegins DEF ServiceStep, Service!Next
<1>2. CASE Finish(q)
    BY <1>2, ServiceEnds DEF ServiceStep, Service!Next
<1>3. CASE AnswerDrain(q) \/ Quit(q) \/ Sleep(q) \/ Wake(q) \/ Throw(q)
    <2>1. UNCHANGED <<wflags, pending, cur>>
        BY <1>3 DEF AnswerDrain, Quit, Sleep, Wake, Throw, queueVars, workerVars
    <2>2. UNCHANGED Service!vars
        BY <2>1, ServiceRests
    <2> QED
        BY <2>2 DEF ServiceStep
<1> QED
    BY <1>1, <1>2, <1>3 DEF WorkerStep

\* The queues implement the abstract service, with any number of queues that
\* share works, and whatever is flushed, drained, stopped, destroyed or thrown
\* meanwhile: works are begun first in first out, by one queue at a time, and
\* a work that was cancelled while it runs is not accepted before it ends.
THEOREM ImplementsServiceCorrect ==
    ASSUME "no_relaunch" \in Discipline
    PROVE  Spec => ImplementsService
<1>1. Init => Service!Init
    BY ServiceInit
<1>2. LinkInv /\ [Next]_vars => [Service!Next]_Service!vars
    <2> SUFFICES ASSUME LinkInv, [Next]_vars
                 PROVE  ServiceStep
        BY DEF ServiceStep
    <2>1. CASE UNCHANGED vars
        <3>1. UNCHANGED <<wflags, pending, cur>>
            BY <2>1 DEF vars, queueVars, workerVars
        <3>2. UNCHANGED Service!vars
            BY <3>1, ServiceRests
        <3> QED
            BY <3>2 DEF ServiceStep
    <2> QED
        BY <2>1, ServiceClientStep, ServiceThreadStep, ServiceWorkerStep DEF Next
<1> QED
    BY <1>1, <1>2, LinkCorrect, PTL DEF Spec, ImplementsService, Service!Spec

=============================================================================
