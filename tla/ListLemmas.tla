----------------------------- MODULE ListLemmas -----------------------------
(***************************************************************************)
(* What the sequence operators used for linked lists return: removal and   *)
(* insertion at a position, insertion at the front, search; and what the   *)
(* flattening of a sequence of sequences returns.  The lemmas are constant *)
(* facts about SequencesExt, for any set of elements.                      *)
(***************************************************************************)
EXTENDS SequencesExt, SequenceTheorems, WellFoundedInduction, TLAPS

\* A nonempty set of positions has a least element.
LEMMA MinExists ==
    ASSUME NEW I \in SUBSET Nat, I # {}
    PROVE  Min(I) \in I /\ \A j \in I : Min(I) <= j
<1> DEFINE R == OpToRel(<, Nat)
<1>1. IsWellFoundedOn(R, Nat)
    BY NatLessThanWellFounded
<1>2. PICK m \in I : \A j \in I : <<j, m>> \notin R
    BY <1>1, WFMin
<1>3. \A j \in I : ~(j < m)
    BY <1>2 DEF OpToRel
<1>4. \A j \in I : m <= j
    BY <1>3
<1> QED
    BY <1>4 DEF Min

\* A set of numbers that has 0 and the successor of each of its numbers below
\* a bound has all the numbers up to that bound.
LEMMA SetInduction ==
    ASSUME NEW I, NEW n \in Nat, 0 \in I,
           \A i \in 0 .. n - 1 : i \in I => i + 1 \in I
    PROVE  0 .. n \subseteq I
<1> DEFINE Out == {i \in 0 .. n : i \notin I}
<1> SUFFICES ASSUME Out # {}
             PROVE  FALSE
    OBVIOUS
<1>1. PICK m : m = Min(Out)
    OBVIOUS
<1>2. Out \in SUBSET Nat
    OBVIOUS
<1>3. m \in Out /\ \A j \in Out : m <= j
    BY <1>1, <1>2, MinExists
<1> HIDE DEF Out
<1>4. m \in 1 .. n /\ m \notin I
    BY <1>3 DEF Out
<1>5. m - 1 \in 0 .. n - 1 /\ ~(m <= m - 1)
    BY <1>4
<1>6. m - 1 \notin Out
    BY <1>3, <1>5
<1>7. m - 1 \in I
    BY <1>5, <1>6 DEF Out
<1>8. (m - 1) + 1 \in I
    BY <1>5, <1>7
<1> QED
    BY <1>4, <1>8

\* Two pieces put together: where the elements come from.
LEMMA TwoPieces ==
    ASSUME NEW S, NEW a \in Seq(S), NEW b \in Seq(S), NEW k \in Nat, NEW l \in Nat,
           Len(a) = k, Len(b) = l
    PROVE  /\ a \o b \in Seq(S)
           /\ Len(a \o b) = k + l
           /\ \A j \in 1 .. k + l : (a \o b)[j] = IF j <= k THEN a[j] ELSE b[j - k]
    BY ConcatProperties

\* Three pieces put together, in either order.  The provers want names for
\* what is put together first.
LEMMA ThreePiecesJoin ==
    ASSUME NEW S, NEW a \in Seq(S), NEW b \in Seq(S), NEW c \in Seq(S),
           NEW ab, ab = a \o b, NEW bc, bc = b \o c
    PROVE  ab \o c = a \o bc
<1>1. (a \o b) \o c = a \o (b \o c)
    BY ConcatAssociative
<1> QED
    BY <1>1

\* An element behind the second of two pieces is behind both.
LEMMA AppendJoin ==
    ASSUME NEW S, NEW a \in Seq(S), NEW b \in Seq(S), NEW e \in S,
           NEW ab, ab = a \o b, NEW be, be = Append(b, e), NEW abe, abe = Append(ab, e)
    PROVE  abe = a \o be
<1>1. <<e>> \in Seq(S)
    OBVIOUS
<1>2. PICK one \in Seq(S) : one = <<e>>
    BY <1>1
<1>3. ab \in Seq(S)
    BY ConcatProperties
<1>4. abe = ab \o one
    BY <1>2, <1>3, AppendIsConcat
<1>5. be = b \o one
    BY <1>2, AppendIsConcat
<1> QED
    BY <1>4, <1>5, ThreePiecesJoin

\* The two pieces of a sequence before and from position i.
LEMMA CutProperties ==
    ASSUME NEW S, NEW s \in Seq(S), NEW i \in 1 .. Len(s) + 1
    PROVE  /\ Len(s) \in Nat
           /\ \A j \in 1 .. Len(s) : s[j] \in S
           /\ SubSeq(s, 1, i - 1) \in Seq(S)
           /\ Len(SubSeq(s, 1, i - 1)) = i - 1
           /\ \A j \in 1 .. i - 1 : SubSeq(s, 1, i - 1)[j] = s[j]
           /\ SubSeq(s, i, Len(s)) \in Seq(S)
           /\ Len(SubSeq(s, i, Len(s))) = Len(s) - i + 1
           /\ \A j \in 1 .. Len(s) - i + 1 : SubSeq(s, i, Len(s))[j] = s[i + j - 1]
<1>1. Len(s) \in Nat /\ \A j \in 1 .. Len(s) : s[j] \in S
    BY LenProperties, ElementOfSeq
<1>2. \A j \in 1 .. i - 1 : s[j] \in S
    BY <1>1
<1>3. \A j \in i .. Len(s) : s[j] \in S
    BY <1>1
<1>4. /\ SubSeq(s, 1, i - 1) \in Seq(S)
      /\ Len(SubSeq(s, 1, i - 1)) = IF 1 <= i - 1 THEN (i - 1) - 1 + 1 ELSE 0
      /\ \A j \in 1 .. (i - 1) - 1 + 1 : SubSeq(s, 1, i - 1)[j] = s[1 + j - 1]
    <2>1. 1 \in Int /\ i - 1 \in Int
        BY <1>1
    <2> QED
        BY <1>2, <2>1, SubSeqProperties
<1>5. /\ SubSeq(s, i, Len(s)) \in Seq(S)
      /\ Len(SubSeq(s, i, Len(s))) = IF i <= Len(s) THEN Len(s) - i + 1 ELSE 0
      /\ \A j \in 1 .. Len(s) - i + 1 : SubSeq(s, i, Len(s))[j] = s[i + j - 1]
    <2>1. i \in Int /\ Len(s) \in Int
        BY <1>1
    <2> QED
        BY <1>3, <2>1, SubSeqProperties
<1>6. \A j \in 1 .. i - 1 : j \in 1 .. (i - 1) - 1 + 1 /\ 1 + j - 1 = j
    BY <1>1
<1> QED
    BY <1>1, <1>4, <1>5, <1>6

\* RemoveAt closes the gap.
LEMMA RemoveAtProperties ==
    ASSUME NEW S, NEW s \in Seq(S), NEW i \in 1 .. Len(s)
    PROVE  /\ RemoveAt(s, i) \in Seq(S)
           /\ Len(RemoveAt(s, i)) = Len(s) - 1
           /\ \A j \in 1 .. Len(s) - 1 :
                RemoveAt(s, i)[j] = IF j < i THEN s[j] ELSE s[j + 1]
<1>0. Len(s) \in Nat /\ i \in 1 .. Len(s) + 1 /\ i + 1 \in 1 .. Len(s) + 1
    BY LenProperties
<1>1. PICK a : a = SubSeq(s, 1, i - 1)
    OBVIOUS
<1>2. PICK b : b = SubSeq(s, i + 1, Len(s))
    OBVIOUS
<1>3. /\ a \in Seq(S) /\ Len(a) = i - 1
      /\ \A j \in 1 .. i - 1 : a[j] = s[j]
    BY <1>0, <1>1, CutProperties
<1>4. /\ b \in Seq(S) /\ Len(b) = Len(s) - i
      /\ \A j \in 1 .. Len(s) - i : b[j] = s[i + j]
    <2>1. /\ b \in Seq(S) /\ Len(b) = Len(s) - (i + 1) + 1
          /\ \A j \in 1 .. Len(s) - (i + 1) + 1 : b[j] = s[(i + 1) + j - 1]
        BY <1>0, <1>2, CutProperties
    <2>2. Len(s) - (i + 1) + 1 = Len(s) - i
        BY <1>0
    <2>3. \A j \in 1 .. Len(s) - i : (i + 1) + j - 1 = i + j
        BY <1>0
    <2> QED
        BY <2>1, <2>2, <2>3
<1>5. PICK k \in Nat, l \in Nat : k = i - 1 /\ l = Len(s) - i
    BY <1>0
<1>6. /\ a \o b \in Seq(S) /\ Len(a \o b) = Len(s) - 1
      /\ \A j \in 1 .. Len(s) - 1 : (a \o b)[j] = IF j <= i - 1 THEN a[j] ELSE b[j - (i - 1)]
    <2>1. Len(a) = k /\ Len(b) = l /\ a \in Seq(S) /\ b \in Seq(S)
        BY <1>3, <1>4, <1>5
    <2>2. /\ a \o b \in Seq(S) /\ Len(a \o b) = Len(a) + Len(b)
          /\ \A j \in 1 .. Len(a) + Len(b) :
               (a \o b)[j] = IF j <= Len(a) THEN a[j] ELSE b[j - Len(a)]
        BY <2>1, ConcatProperties
    <2>3. k + l = Len(s) - 1
        BY <1>0, <1>5
    <2> QED
        BY <2>1, <2>2, <2>3, <1>5
<1>7. ASSUME NEW j \in 1 .. Len(s) - 1
      PROVE  (a \o b)[j] = IF j < i THEN s[j] ELSE s[j + 1]
    <2>1. CASE j < i
        BY <2>1, <1>0, <1>3, <1>6
    <2>2. CASE ~(j < i)
        <3>1. j - (i - 1) \in 1 .. Len(s) - i /\ i + (j - (i - 1)) = j + 1
            BY <2>2, <1>0
        <3>2. (a \o b)[j] = b[j - (i - 1)]
            BY <2>2, <1>0, <1>6
        <3> QED
            BY <2>2, <3>1, <3>2, <1>4
    <2> QED
        BY <2>1, <2>2
<1>8. RemoveAt(s, i) = a \o b
    BY <1>1, <1>2 DEF RemoveAt
<1> QED
    BY <1>6, <1>7, <1>8

\* InsertAt makes room.
LEMMA InsertAtProperties ==
    ASSUME NEW S, NEW s \in Seq(S), NEW i \in 1 .. Len(s) + 1, NEW e \in S
    PROVE  /\ InsertAt(s, i, e) \in Seq(S)
           /\ Len(InsertAt(s, i, e)) = Len(s) + 1
           /\ \A j \in 1 .. Len(s) + 1 :
                InsertAt(s, i, e)[j] = IF j < i THEN s[j]
                                       ELSE IF j = i THEN e ELSE s[j - 1]
<1>0. Len(s) \in Nat
    BY LenProperties
<1>1. PICK a : a = SubSeq(s, 1, i - 1)
    OBVIOUS
<1>2. PICK b : b = SubSeq(s, i, Len(s))
    OBVIOUS
<1>3. /\ a \in Seq(S) /\ Len(a) = i - 1
      /\ \A j \in 1 .. i - 1 : a[j] = s[j]
    BY <1>0, <1>1, CutProperties
<1>4. /\ b \in Seq(S) /\ Len(b) = Len(s) - i + 1
      /\ \A j \in 1 .. Len(s) - i + 1 : b[j] = s[i + j - 1]
    BY <1>0, <1>2, CutProperties
<1>5. PICK k \in Nat, l \in Nat : k = i - 1 /\ l = Len(s) - i + 1
    BY <1>0
<1>6. PICK m : m = a \o <<e>>
    OBVIOUS
<1>7. /\ m \in Seq(S) /\ Len(m) = k + 1
      /\ \A j \in 1 .. k + 1 : m[j] = IF j <= k THEN a[j] ELSE e
    <2>1. Len(a) = k /\ a \in Seq(S)
        BY <1>3, <1>5
    <2>2. <<e>> \in Seq(S) /\ Len(<<e>>) = 1 /\ <<e>>[1] = e
        OBVIOUS
    <2>3. /\ m \in Seq(S) /\ Len(m) = k + 1
          /\ \A j \in 1 .. k + 1 : m[j] = IF j <= k THEN a[j] ELSE <<e>>[j - k]
        BY <2>1, <2>2, <1>6, TwoPieces
    <2>4. \A j \in 1 .. k + 1 : ~(j <= k) => j - k = 1
        OBVIOUS
    <2> QED
        BY <2>2, <2>3, <2>4
<1>8. /\ m \o b \in Seq(S) /\ Len(m \o b) = (k + 1) + l
      /\ \A j \in 1 .. (k + 1) + l :
           (m \o b)[j] = IF j <= k + 1 THEN m[j] ELSE b[j - (k + 1)]
    <2>1. PICK k1 \in Nat : k1 = k + 1
        OBVIOUS
    <2>2. Len(m) = k1 /\ Len(b) = l /\ m \in Seq(S) /\ b \in Seq(S)
        BY <1>4, <1>5, <1>7, <2>1
    <2>3. /\ m \o b \in Seq(S) /\ Len(m \o b) = Len(m) + Len(b)
          /\ \A j \in 1 .. Len(m) + Len(b) :
               (m \o b)[j] = IF j <= Len(m) THEN m[j] ELSE b[j - Len(m)]
        BY <2>2, ConcatProperties
    <2> QED
        BY <2>1, <2>2, <2>3
<1>9. (k + 1) + l = Len(s) + 1
    BY <1>0, <1>5
<1>10. ASSUME NEW j \in 1 .. Len(s) + 1
       PROVE  (m \o b)[j] = IF j < i THEN s[j] ELSE IF j = i THEN e ELSE s[j - 1]
    <2>1. CASE j <= k
        BY <2>1, <1>0, <1>3, <1>5, <1>7, <1>8, <1>9
    <2>2. CASE j = k + 1
        BY <2>2, <1>0, <1>5, <1>7, <1>8, <1>9
    <2>3. CASE j > k + 1
        <3>1. j - (k + 1) \in 1 .. Len(s) - i + 1 /\ i + (j - (k + 1)) - 1 = j - 1
            BY <2>3, <1>0, <1>5
        <3>2. (m \o b)[j] = b[j - (k + 1)]
            BY <2>3, <1>0, <1>5, <1>8, <1>9
        <3>3. ~(j < i) /\ j # i
            BY <2>3, <1>0, <1>5
        <3> QED
            BY <3>1, <3>2, <3>3, <1>4
    <2>4. j <= k \/ j = k + 1 \/ j > k + 1
        BY <1>0, <1>5
    <2> QED
        BY <2>1, <2>2, <2>3, <2>4
<1>11. InsertAt(s, i, e) = m \o b
    BY <1>1, <1>2, <1>6 DEF InsertAt
<1> QED
    BY <1>8, <1>9, <1>10, <1>11

\* Cons shifts everything by one.
LEMMA ConsProperties ==
    ASSUME NEW S, NEW s \in Seq(S), NEW e \in S
    PROVE  /\ Cons(e, s) \in Seq(S)
           /\ Len(Cons(e, s)) = Len(s) + 1
           /\ \A j \in 1 .. Len(s) + 1 : Cons(e, s)[j] = IF j = 1 THEN e ELSE s[j - 1]
<1>1. Len(s) \in Nat
    BY LenProperties
<1>2. <<e>> \in Seq(S) /\ Len(<<e>>) = 1 /\ <<e>>[1] = e
    OBVIOUS
<1>3. /\ <<e>> \o s \in Seq(S) /\ Len(<<e>> \o s) = 1 + Len(s)
      /\ \A j \in 1 .. 1 + Len(s) : (<<e>> \o s)[j] = IF j <= 1 THEN <<e>>[j] ELSE s[j - 1]
    <2>1. PICK l \in Nat : l = Len(s)
        BY <1>1
    <2> QED
        BY <1>1, <1>2, <2>1, TwoPieces
<1> QED
    BY <1>1, <1>2, <1>3 DEF Cons

\* Cons is insertion at the front.
LEMMA ConsIsInsert ==
    ASSUME NEW S, NEW s \in Seq(S), NEW e \in S
    PROVE  Cons(e, s) = InsertAt(s, 1, e)
<1>1. SubSeq(s, 1, Len(s)) = s
    BY SubSeqFull
<1>2. SubSeq(s, 1, 1 - 1) = <<>>
    BY SubSeqEmpty
<1>3. <<>> \o <<e>> = <<e>>
    <2>1. <<e>> \in Seq(S)
        OBVIOUS
    <2> QED
        BY <2>1, ConcatEmptySeq
<1> QED
    BY <1>1, <1>2, <1>3 DEF Cons, InsertAt

-----------------------------------------------------------------------------
(* The pieces that the first elements of a sequence of sequences make, put *)
(* together one after the other: what FlattenSeq returns.                  *)

ArePieces(S, seqs, f) ==
    /\ f \in [0 .. Len(seqs) -> Seq(S)]
    /\ f[0] = <<>>
    /\ \A i \in 1 .. Len(seqs) : f[i] = f[i - 1] \o seqs[i]

LEMMA PiecesExist ==
    ASSUME NEW S, NEW seqs \in Seq(Seq(S))
    PROVE  \E f : ArePieces(S, seqs, f)
<1> DEFINE Upto(f, n) == /\ f \in [0 .. n -> Seq(S)]
                         /\ f[0] = <<>>
                         /\ \A i \in 1 .. n : f[i] = f[i - 1] \o seqs[i]
           Has == {n \in 0 .. Len(seqs) : \E f : Upto(f, n)}
<1>0. Len(seqs) \in Nat /\ \A i \in 1 .. Len(seqs) : seqs[i] \in Seq(S)
    BY LenProperties, ElementOfSeq
<1>1. 0 \in Has
    <2>1. PICK f : f = [i \in 0 .. 0 |-> <<>>]
        OBVIOUS
    <2>2. f[0] = <<>> /\ f \in [0 .. 0 -> Seq(S)]
        BY <2>1, EmptySeq
    <2>3. 1 .. 0 = {}
        OBVIOUS
    <2>4. Upto(f, 0)
        BY <2>2, <2>3
    <2>5. 0 \in 0 .. Len(seqs)
        BY <1>0
    <2> HIDE DEF Upto
    <2> QED
        BY <2>4, <2>5
<1>2. ASSUME NEW n \in 0 .. Len(seqs) - 1, n \in Has
      PROVE  n + 1 \in Has
    <2>1. PICK f : Upto(f, n)
        BY <1>2
    <2>2. n \in Nat /\ n + 1 \in 1 .. Len(seqs)
        BY <1>0
    <2>3. PICK last : last = f[n] \o seqs[n + 1]
        OBVIOUS
    <2>4. last \in Seq(S)
        BY <1>0, <2>1, <2>2, <2>3, ConcatProperties
    <2>5. PICK g : g = [i \in 0 .. n + 1 |-> IF i = n + 1 THEN last ELSE f[i]]
        OBVIOUS
    <2>6. g \in [0 .. n + 1 -> Seq(S)]
        <3>1. ASSUME NEW i \in 0 .. n + 1
              PROVE  (IF i = n + 1 THEN last ELSE f[i]) \in Seq(S)
            <4>1. i # n + 1 => i \in 0 .. n
                BY <2>2
            <4> QED
                BY <2>1, <2>4, <4>1
        <3> QED
            BY <2>5, <3>1
    <2>7. g[0] = <<>>
        BY <2>1, <2>2, <2>5
    <2>8. ASSUME NEW i \in 1 .. n + 1
          PROVE  g[i] = g[i - 1] \o seqs[i]
        <3>1. i - 1 \in 0 .. n /\ i - 1 # n + 1 /\ i \in 0 .. n + 1 /\ i - 1 \in 0 .. n + 1
            BY <2>2
        <3>2. g[i - 1] = f[i - 1]
            BY <2>5, <3>1
        <3>3. CASE i = n + 1
            <4>1. i - 1 = n
                BY <2>2, <3>3
            <4> QED
                BY <2>3, <2>5, <3>1, <3>2, <3>3, <4>1
        <3>4. CASE i # n + 1
            <4>1. i \in 1 .. n
                BY <2>2, <3>4
            <4> QED
                BY <2>1, <2>5, <3>1, <3>2, <3>4, <4>1
        <3> QED
            BY <3>3, <3>4
    <2>9. Upto(g, n + 1)
        BY <2>6, <2>7, <2>8
    <2> HIDE DEF Upto
    <2> QED
        BY <1>0, <2>2, <2>9
<1>3. Len(seqs) \in Has
    <2> HIDE DEF Has
    <2>1. 0 .. Len(seqs) \subseteq Has
        BY <1>0, <1>1, <1>2, SetInduction
    <2> QED
        BY <1>0, <2>1
<1> QED
    BY <1>3 DEF ArePieces

\* All pieces together are what the sequence is flattened to.
LEMMA FlattenIs ==
    ASSUME NEW S, NEW seqs \in Seq(Seq(S)), NEW f, ArePieces(S, seqs, f)
    PROVE  FlattenSeq(seqs) = f[Len(seqs)]
<1>0. Len(seqs) \in Nat /\ \A i \in 1 .. Len(seqs) : seqs[i] \in Seq(S)
    BY LenProperties, ElementOfSeq
<1>1. CASE Len(seqs) = 0
    <2>1. seqs = <<>>
        BY <1>1, EmptySeq
    <2>2. FlattenSeq(seqs) = seqs
        BY <1>1 DEF FlattenSeq
    <2> QED
        BY <1>1, <2>1, <2>2 DEF ArePieces
<1>2. CASE Len(seqs) # 0
    <2> DEFINE n == Len(seqs)
               Rule(g) == [i \in 1 .. n |-> IF i = 1 THEN seqs[i] ELSE g[i - 1] \o seqs[i]]
    <2>0. n \in Nat /\ 1 \in 1 .. n /\ n \in 1 .. n
        BY <1>0, <1>2
    <2>1. FlattenSeq(seqs) = (CHOOSE g : g = Rule(g))[n]
        BY <1>2 DEF FlattenSeq
    <2>2. PICK h : h = [i \in 1 .. n |-> f[i]]
        OBVIOUS
    <2>3. ASSUME NEW i \in 1 .. n
          PROVE  f[i] = IF i = 1 THEN seqs[i] ELSE h[i - 1] \o seqs[i]
        <3>1. f[i] = f[i - 1] \o seqs[i]
            BY DEF ArePieces
        <3>2. CASE i = 1
            <4>1. f[i - 1] = <<>> /\ seqs[i] \in Seq(S)
                BY <1>0, <3>2 DEF ArePieces
            <4> QED
                BY <3>1, <3>2, <4>1, ConcatEmptySeq
        <3>3. CASE i # 1
            <4>1. i - 1 \in 1 .. n
                BY <2>0, <3>3
            <4> QED
                BY <2>2, <3>1, <3>3, <4>1
        <3> QED
            BY <3>2, <3>3
    <2>4. h = Rule(h)
        BY <2>2, <2>3
    <2>5. PICK g : g = CHOOSE k : k = Rule(k)
        OBVIOUS
    <2>6. g = Rule(g)
        <3> HIDE DEF Rule
        <3> QED
            BY <2>4, <2>5
    <2>7. \A i \in 1 .. n : g[i] = IF i = 1 THEN seqs[i] ELSE g[i - 1] \o seqs[i]
        BY <2>6
    <2> DEFINE Same == {i \in 0 .. n - 1 : g[i + 1] = f[i + 1]}
    <2>8. 0 \in Same
        <3>1. g[1] = seqs[1] /\ f[1] = seqs[1]
            BY <2>0, <2>3, <2>7
        <3> QED
            BY <2>0, <3>1
    <2>9. ASSUME NEW i \in 0 .. (n - 1) - 1, i \in Same
          PROVE  i + 1 \in Same
        <3>1. /\ i + 2 \in 1 .. n /\ i + 2 # 1 /\ (i + 2) - 1 = i + 1 /\ i + 1 \in 1 .. n
              /\ i + 1 \in 0 .. n - 1 /\ (i + 1) + 1 = i + 2
            BY <2>0
        <3>2. g[i + 2] = g[i + 1] \o seqs[i + 2]
            BY <2>7, <3>1
        <3>3. f[i + 2] = f[i + 1] \o seqs[i + 2]
            BY <3>1 DEF ArePieces
        <3> QED
            BY <2>9, <3>1, <3>2, <3>3
    <2>10. n - 1 \in Same
        <3> HIDE DEF Same
        <3>1. n - 1 \in Nat
            BY <2>0
        <3>2. PICK m : m = n - 1
            OBVIOUS
        <3>3. 0 .. m \subseteq Same
            BY <2>8, <2>9, <3>1, <3>2, SetInduction
        <3> QED
            BY <3>1, <3>2, <3>3
    <2>11. (n - 1) + 1 = n
        BY <2>0
    <2> HIDE DEF Rule
    <2> QED
        BY <2>1, <2>5, <2>10, <2>11
<1> QED
    BY <1>1, <1>2

\* What the first elements make is where the whole begins.
LEMMA PiecesArePrefixes ==
    ASSUME NEW S, NEW seqs \in Seq(Seq(S)), NEW f, ArePieces(S, seqs, f),
           NEW full, full = f[Len(seqs)]
    PROVE  \A i \in 0 .. Len(seqs) :
              /\ f[i] \in Seq(S) /\ Len(f[i]) <= Len(full)
              /\ \A j \in 1 .. Len(f[i]) : full[j] = f[i][j]
<1> DEFINE n == Len(seqs)
           Begins(i) == /\ Len(f[i]) <= Len(full)
                        /\ \A j \in 1 .. Len(f[i]) : full[j] = f[i][j]
           Good == {k \in 0 .. n : Begins(n - k)}
<1>0. n \in Nat /\ \A i \in 1 .. n : seqs[i] \in Seq(S)
    BY LenProperties, ElementOfSeq
<1>1. \A i \in 0 .. n : f[i] \in Seq(S) /\ Len(f[i]) \in Nat
    BY LenProperties DEF ArePieces
<1>2. 0 \in Good
    <2>1. Begins(n) /\ n - 0 = n
        BY <1>0, <1>1
    <2> QED
        BY <1>0, <2>1
<1>3. ASSUME NEW k \in 0 .. n - 1, k \in Good
      PROVE  k + 1 \in Good
    <2>1. n - k \in 1 .. n
        BY <1>0
    <2>2. PICK i \in 1 .. n : i = n - k
        BY <2>1
    <2>3. n - (k + 1) = i - 1 /\ i - 1 \in 0 .. n /\ i \in 0 .. n
        BY <1>0, <2>2
    <2>4. Begins(i)
        BY <1>3, <2>2
    <2>5. f[i] = f[i - 1] \o seqs[i]
        BY DEF ArePieces
    <2>6. PICK a \in Seq(S), b \in Seq(S) : a = f[i - 1] /\ b = seqs[i]
        BY <1>0, <1>1, <2>3
    <2>7. /\ Len(f[i]) = Len(a) + Len(b) /\ Len(a) \in Nat /\ Len(b) \in Nat
          /\ \A j \in 1 .. Len(a) + Len(b) : f[i][j] = IF j <= Len(a) THEN a[j] ELSE b[j - Len(a)]
        <3>1. f[i] = a \o b
            BY <2>5, <2>6
        <3>2. Len(a) \in Nat /\ Len(b) \in Nat
            BY LenProperties
        <3>3. /\ Len(a \o b) = Len(a) + Len(b)
              /\ \A j \in 1 .. Len(a) + Len(b) : (a \o b)[j] = IF j <= Len(a) THEN a[j] ELSE b[j - Len(a)]
            BY ConcatProperties
        <3> QED
            BY <3>1, <3>2, <3>3
    <2>8. Len(full) \in Nat
        BY <1>0, <1>1
    <2>9. Len(a) <= Len(full)
        BY <2>4, <2>7, <2>8
    <2>10. ASSUME NEW j \in 1 .. Len(a)
          PROVE  full[j] = a[j]
        <3>1. j \in 1 .. Len(a) + Len(b) /\ j <= Len(a)
            BY <2>7
        <3> QED
            BY <2>4, <2>7, <3>1
    <2>11. Begins(i - 1)
        BY <2>6, <2>9, <2>10
    <2>12. k + 1 \in 0 .. n
        BY <1>0
    <2> HIDE DEF Begins
    <2> QED
        BY <2>3, <2>11, <2>12
<1>4. 0 .. n \subseteq Good
    <2> HIDE DEF Good
    <2> QED
        BY <1>0, <1>2, <1>3, SetInduction
<1>5. ASSUME NEW i \in 0 .. n
      PROVE  Begins(i)
    <2>1. n - i \in 0 .. n /\ n - (n - i) = i
        BY <1>0
    <2>2. n - i \in Good
        BY <1>4, <2>1
    <2> HIDE DEF Begins
    <2> QED
        BY <2>1, <2>2
<1> QED
    BY <1>1, <1>5

\* One more sequence before the others.
LEMMA FlattenCons ==
    ASSUME NEW S, NEW a \in Seq(S), NEW s \in Seq(Seq(S))
    PROVE  FlattenSeq(<<a>> \o s) = a \o FlattenSeq(s)
<1>1. PICK h : ArePieces(S, s, h)
    BY PiecesExist
<1>2. PICK n \in Nat : n = Len(s)
    BY LenProperties
<1>3. PICK all : all = <<a>> \o s
    OBVIOUS
<1>4. /\ all \in Seq(Seq(S)) /\ Len(all) = n + 1
      /\ \A i \in 1 .. n + 1 : all[i] = IF i = 1 THEN a ELSE s[i - 1]
    <2>1. PICK one : one = <<a>>
        OBVIOUS
    <2>2. one \in Seq(Seq(S)) /\ Len(one) = 1 /\ one[1] = a
        BY <2>1
    <2>3. /\ all \in Seq(Seq(S)) /\ Len(all) = 1 + n
          /\ \A j \in 1 .. 1 + n : all[j] = IF j <= 1 THEN one[j] ELSE s[j - 1]
        BY <1>2, <1>3, <2>1, <2>2, ConcatProperties
    <2>4. 1 + n = n + 1 /\ \A j \in 1 .. n + 1 : j <= 1 <=> j = 1
        BY <1>2
    <2> QED
        BY <2>2, <2>3, <2>4
<1>5. PICK g : g = [i \in 0 .. n + 1 |-> IF i = 0 THEN <<>> ELSE a \o h[i - 1]]
    OBVIOUS
<1>6. \A i \in 0 .. n : h[i] \in Seq(S)
    BY <1>1, <1>2 DEF ArePieces
<1>7. ASSUME NEW i \in 1 .. n + 1
      PROVE  g[i] = a \o h[i - 1] /\ g[i] \in Seq(S)
    <2>1. i \in 0 .. n + 1 /\ i # 0 /\ i - 1 \in 0 .. n
        BY <1>2
    <2>2. g[i] = a \o h[i - 1]
        BY <1>5, <2>1
    <2> QED
        BY <1>6, <2>1, <2>2, ConcatProperties
<1>8. g[0] = <<>> /\ <<>> \in Seq(S)
    <2>1. 0 \in 0 .. n + 1
        BY <1>2
    <2> QED
        BY <1>5, <2>1, EmptySeq
<1>9. g \in [0 .. n + 1 -> Seq(S)]
    <2>1. ASSUME NEW i \in 0 .. n + 1
          PROVE  g[i] \in Seq(S)
        <3>1. i = 0 \/ i \in 1 .. n + 1
            BY <1>2
        <3> QED
            BY <1>7, <1>8, <3>1
    <2>2. g = [i \in 0 .. n + 1 |-> g[i]]
        BY <1>5
    <2> QED
        BY <2>1, <2>2
<1>10. ASSUME NEW i \in 1 .. n + 1
       PROVE  g[i] = g[i - 1] \o all[i]
    <2>1. CASE i = 1
        <3>1. g[1] = a \o h[1 - 1] /\ all[1] = a
            BY <1>4, <1>7, <2>1
        <3>2. 1 - 1 = 0 /\ h[0] = <<>>
            BY <1>1 DEF ArePieces
        <3>3. a \o <<>> = a /\ <<>> \o a = a
            BY ConcatEmptySeq
        <3> QED
            BY <1>8, <2>1, <3>1, <3>2, <3>3
    <2>2. CASE i # 1
        <3>1. i - 1 \in 1 .. n + 1 /\ i - 1 \in 1 .. n /\ (i - 1) - 1 \in 0 .. n
            BY <1>2, <2>2
        <3>2. PICK k : k = i - 1
            OBVIOUS
        <3>3. h[k] = h[k - 1] \o s[k]
            BY <1>1, <1>2, <3>1, <3>2 DEF ArePieces
        <3>4. h[k - 1] \in Seq(S) /\ s[k] \in Seq(S)
            BY <1>2, <1>6, <3>1, <3>2, ElementOfSeq
        <3>5. g[i] = a \o (h[k - 1] \o s[k]) /\ g[i - 1] = a \o h[k - 1] /\ all[i] = s[k]
            BY <1>4, <1>7, <2>2, <3>1, <3>2, <3>3
        <3>6. PICK b \in Seq(S), d \in Seq(S) : b = h[k - 1] /\ d = s[k]
            BY <3>4
        <3>7. (a \o b) \o d = a \o (b \o d)
            BY ConcatAssociative
        <3>8. g[i] = a \o (b \o d)
            BY <3>5, <3>6
        <3>9. g[i - 1] \o all[i] = (a \o b) \o d
            BY <3>5, <3>6
        <3> QED
            BY <3>7, <3>8, <3>9
    <2> QED
        BY <2>1, <2>2
<1>11. ArePieces(S, all, g)
    BY <1>4, <1>8, <1>9, <1>10 DEF ArePieces
<1>12. FlattenSeq(all) = g[n + 1]
    BY <1>4, <1>11, FlattenIs
<1>13. FlattenSeq(s) = h[n]
    BY <1>1, <1>2, FlattenIs
<1>14. g[n + 1] = a \o h[n]
    <2>1. n + 1 \in 1 .. n + 1 /\ (n + 1) - 1 = n
        BY <1>2
    <2> QED
        BY <1>7, <2>1
<1> QED
    BY <1>3, <1>12, <1>13, <1>14

=============================================================================
