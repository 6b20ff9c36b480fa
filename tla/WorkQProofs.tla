---------------------------- MODULE WorkQProofs ----------------------------
(***************************************************************************)
(* Theorems about WorkQ, for any sets of queues, works and clients, with   *)
(* proofs for TLAPS.                                                       *)
(***************************************************************************)
EXTENDS WorkQ, ListLemmas

-----------------------------------------------------------------------------
(* The lists, under the type invariant.                                    *)

\* Where is a position of the element, or 0.
LEMMA WhereProperties ==
    ASSUME NEW S, NEW s \in Seq(S), NEW n
    PROVE  /\ Where(s, n) \in 0 .. Len(s)
           /\ Where(s, n) = 0 <=> \A i \in 1 .. Len(s) : s[i] # n
           /\ Where(s, n) # 0 => s[Where(s, n)] = n
<1> DEFINE I == {i \in 1 .. Len(s) : s[i] = n}
<1>1. Where(s, n) = IF I # {} THEN Min(I) ELSE 0
    BY DEF Where, SelectInSeq
<1>2. Len(s) \in Nat
    BY LenProperties
<1>3. I \in SUBSET Nat
    BY <1>2
<1>4. I # {} => Min(I) \in I
    BY <1>3, MinExists
<1> QED
    BY <1>1, <1>2, <1>4

\* RemoveFirst removes at the position that Where finds.
LEMMA RemoveFirstProperties ==
    ASSUME NEW S, NEW s \in Seq(S), NEW n
    PROVE  /\ RemoveFirst(s, n) \in Seq(S)
           /\ RemoveFirst(s, n) = IF Where(s, n) = 0 THEN s ELSE RemoveAt(s, Where(s, n))
<1>1. RemoveFirst(s, n) = IF Where(s, n) = 0 THEN s ELSE RemoveAt(s, Where(s, n))
    <2>1. RemoveFirst(s, n) = IF \E i \in 1 .. Len(s) : s[i] = n
                              THEN RemoveAt(s, Where(s, n)) ELSE s
        BY DEF RemoveFirst, Where, SelectInSeq
    <2> QED
        BY <2>1, WhereProperties
<1>2. Where(s, n) # 0 => Where(s, n) \in 1 .. Len(s)
    BY WhereProperties, LenProperties
<1> QED
    BY <1>1, <1>2, RemoveAtProperties

\* A flusher goes into a list of nodes.
LEMMA FlusherPlaceType ==
    ASSUME NEW s \in Seq(Nodes), NEW w, NEW c \in Clients
    PROVE  FlusherPlace(s, w, c) \in Seq(Nodes)
<1>1. c \in Nodes /\ Len(s) \in Nat
    BY LenProperties DEF Nodes
<1>2. Where(s, w) + 1 \in 1 .. Len(s) + 1
    BY <1>1, WhereProperties
<1> QED
    BY <1>1, <1>2, InsertAtProperties, ConsProperties DEF FlusherPlace, InsertAfter

\* The canceller to release is one that is linked and waits for the work.
LEMMA ReleasedProperties ==
    ASSUME TypeOK, NEW w
    PROVE  /\ Released(w) \in 0 .. Len(cancels)
           /\ Released(w) # 0 => on[cancels[Released(w)]] = w
<1> DEFINE I == {i \in 1 .. Len(cancels) : on[cancels[i]] = w}
<1>1. Released(w) = IF I # {} THEN Min(I) ELSE 0
    BY DEF Released, SelectInSeq
<1>2. Len(cancels) \in Nat
    BY LenProperties DEF TypeOK
<1>3. I \in SUBSET Nat
    BY <1>2
<1>4. I # {} => Min(I) \in I
    BY <1>3, MinExists
<1> QED
    BY <1>1, <1>2, <1>4

\* The end of a list.
LEMMA AppendLinks ==
    ASSUME NEW S, NEW s \in Seq(S), NEW e \in S, NEW n
    PROVE  /\ Contains(Append(s, e), n) <=> Contains(s, n) \/ n = e
           /\ AtMostOnce(s, n) /\ (n = e => ~Contains(s, n)) => AtMostOnce(Append(s, e), n)
<1>1. PICK t : t = Append(s, e)
    OBVIOUS
<1>2. /\ Len(s) \in Nat /\ Len(t) = Len(s) + 1
      /\ \A i \in 1 .. Len(s) : t[i] = s[i]
      /\ t[Len(s) + 1] = e
    BY <1>1, AppendProperties, LenProperties
<1>3. Contains(t, n) <=> Contains(s, n) \/ n = e
    <2>1. ASSUME Contains(t, n) PROVE Contains(s, n) \/ n = e
        <3>1. PICK i \in 1 .. Len(t) : t[i] = n
            BY <2>1 DEF Contains
        <3> QED
            BY <1>2, <3>1 DEF Contains
    <2>2. ASSUME Contains(s, n) \/ n = e PROVE Contains(t, n)
        <3>1. CASE n = e
            BY <1>2, <3>1 DEF Contains
        <3>2. CASE Contains(s, n)
            <4>1. PICK i \in 1 .. Len(s) : s[i] = n
                BY <3>2 DEF Contains
            <4> QED
                BY <1>2, <4>1 DEF Contains
        <3> QED
            BY <2>2, <3>1, <3>2
    <2> QED
        BY <2>1, <2>2
<1>4. AtMostOnce(s, n) /\ (n = e => ~Contains(s, n)) => AtMostOnce(t, n)
    BY <1>2 DEF AtMostOnce, Contains
<1> QED
    BY <1>1, <1>3, <1>4

\* A new node at any place: the other nodes stay where they are, in order.
LEMMA InsertLinks ==
    ASSUME NEW S, NEW s \in Seq(S), NEW i \in 1 .. Len(s) + 1, NEW e \in S, NEW n, n # e
    PROVE  /\ Contains(InsertAt(s, i, e), n) <=> Contains(s, n)
           /\ AtMostOnce(s, n) => AtMostOnce(InsertAt(s, i, e), n)
<1>1. PICK t : t = InsertAt(s, i, e)
    OBVIOUS
<1>2. /\ Len(s) \in Nat /\ Len(t) = Len(s) + 1
      /\ \A j \in 1 .. Len(s) + 1 :
           t[j] = IF j < i THEN s[j] ELSE IF j = i THEN e ELSE s[j - 1]
    BY <1>1, InsertAtProperties, LenProperties
<1>3. ASSUME Contains(t, n) PROVE Contains(s, n)
    <2>1. PICK j \in 1 .. Len(t) : t[j] = n
        BY <1>3 DEF Contains
    <2>2. CASE j < i
        BY <1>2, <2>1, <2>2 DEF Contains
    <2>3. CASE j > i
        <3>1. j - 1 \in 1 .. Len(s) /\ s[j - 1] = n
            BY <1>2, <2>1, <2>3
        <3> QED
            BY <3>1 DEF Contains
    <2> QED
        BY <1>2, <2>1, <2>2, <2>3
<1>4. ASSUME Contains(s, n) PROVE Contains(t, n)
    <2>1. PICK j \in 1 .. Len(s) : s[j] = n
        BY <1>4 DEF Contains
    <2>2. CASE j < i
        BY <1>2, <2>1, <2>2 DEF Contains
    <2>3. CASE ~(j < i)
        <3>1. j + 1 \in 1 .. Len(t) /\ ~(j + 1 < i) /\ j + 1 # i /\ (j + 1) - 1 = j
            BY <1>2, <2>3
        <3> QED
            BY <1>2, <2>1, <3>1 DEF Contains
    <2> QED
        BY <2>2, <2>3
<1>5. ASSUME AtMostOnce(s, n) PROVE AtMostOnce(t, n)
    <2> SUFFICES ASSUME NEW j \in 1 .. Len(t), NEW k \in 1 .. Len(t), t[j] = n, t[k] = n
                 PROVE  j = k
        BY DEF AtMostOnce
    <2>1. ASSUME NEW m \in 1 .. Len(t), t[m] = n
          PROVE  /\ m < i => m \in 1 .. Len(s) /\ s[m] = n
                 /\ m # i
                 /\ m > i => m - 1 \in 1 .. Len(s) /\ s[m - 1] = n
        BY <1>2, <2>1
    <2>2. CASE j < i /\ k < i
        BY <1>5, <2>1, <2>2 DEF AtMostOnce
    <2>3. CASE j > i /\ k > i
        <3>1. j - 1 = k - 1
            BY <1>5, <2>1, <2>3 DEF AtMostOnce
        <3> QED
            BY <1>2, <3>1
    <2>4. CASE j < i /\ k > i
        <3>1. j = k - 1
            BY <1>5, <2>1, <2>4 DEF AtMostOnce
        <3> QED
            BY <1>2, <2>4, <3>1
    <2>5. CASE j > i /\ k < i
        <3>1. k = j - 1
            BY <1>5, <2>1, <2>5 DEF AtMostOnce
        <3> QED
            BY <1>2, <2>5, <3>1
    <2>6. j # i /\ k # i
        BY <2>1
    <2> QED
        BY <1>2, <2>2, <2>3, <2>4, <2>5, <2>6
<1> QED
    BY <1>1, <1>3, <1>4, <1>5

\* Placing a flusher leaves the links of the other nodes as they are.
LEMMA FlusherPlaceLinks ==
    ASSUME NEW s \in Seq(Nodes), NEW w, NEW c \in Clients, NEW n, n # c
    PROVE  /\ Contains(FlusherPlace(s, w, c), n) <=> Contains(s, n)
           /\ AtMostOnce(s, n) => AtMostOnce(FlusherPlace(s, w, c), n)
<1>1. c \in Nodes /\ Len(s) \in Nat
    BY LenProperties DEF Nodes
<1>2. Where(s, w) + 1 \in 1 .. Len(s) + 1 /\ 1 \in 1 .. Len(s) + 1
    BY <1>1, WhereProperties
<1>3. Cons(c, s) = InsertAt(s, 1, c)
    BY <1>1, ConsIsInsert
<1> QED
    BY <1>1, <1>2, <1>3, InsertLinks DEF FlusherPlace, InsertAfter

\* Taking a node out at any place.
LEMMA RemoveAtLinks ==
    ASSUME NEW S, NEW s \in Seq(S), NEW i \in 1 .. Len(s), NEW n
    PROVE  /\ n # s[i] => (Contains(RemoveAt(s, i), n) <=> Contains(s, n))
           /\ AtMostOnce(s, n) => AtMostOnce(RemoveAt(s, i), n)
           /\ n = s[i] /\ AtMostOnce(s, n) => ~Contains(RemoveAt(s, i), n)
<1>1. PICK t : t = RemoveAt(s, i)
    OBVIOUS
<1>2. /\ Len(s) \in Nat /\ Len(t) = Len(s) - 1
      /\ \A j \in 1 .. Len(s) - 1 : t[j] = IF j < i THEN s[j] ELSE s[j + 1]
    BY <1>1, RemoveAtProperties, LenProperties
<1>3. ASSUME NEW m \in 1 .. Len(t), t[m] = n
      PROVE  /\ m < i => m \in 1 .. Len(s) /\ s[m] = n
             /\ ~(m < i) => m + 1 \in 1 .. Len(s) /\ m + 1 # i /\ s[m + 1] = n
    BY <1>2, <1>3
<1>4. ASSUME Contains(t, n) PROVE \E j \in 1 .. Len(s) : j # i /\ s[j] = n
    <2>1. PICK m \in 1 .. Len(t) : t[m] = n
        BY <1>4 DEF Contains
    <2> QED
        BY <1>2, <1>3, <2>1
<1>5. ASSUME n # s[i], Contains(s, n) PROVE Contains(t, n)
    <2>1. PICK j \in 1 .. Len(s) : s[j] = n
        BY <1>5 DEF Contains
    <2>2. CASE j < i
        <3>1. j \in 1 .. Len(t)
            BY <1>2, <2>2
        <3> QED
            BY <1>2, <2>1, <2>2, <3>1 DEF Contains
    <2>3. CASE j > i
        <3>1. j - 1 \in 1 .. Len(t) /\ ~(j - 1 < i) /\ (j - 1) + 1 = j
            BY <1>2, <2>3
        <3>2. t[j - 1] = n
            BY <1>2, <2>1, <3>1
        <3> QED
            BY <3>1, <3>2 DEF Contains
    <2> QED
        BY <1>2, <1>5, <2>1, <2>2, <2>3
<1>6. ASSUME AtMostOnce(s, n) PROVE AtMostOnce(t, n)
    <2> SUFFICES ASSUME NEW j \in 1 .. Len(t), NEW k \in 1 .. Len(t), t[j] = n, t[k] = n
                 PROVE  j = k
        BY DEF AtMostOnce
    <2>1. CASE j < i /\ k < i
        BY <1>3, <1>6, <2>1 DEF AtMostOnce
    <2>2. CASE ~(j < i) /\ ~(k < i)
        <3>1. j + 1 = k + 1
            BY <1>3, <1>6, <2>2 DEF AtMostOnce
        <3> QED
            BY <1>2, <3>1
    <2>3. CASE j < i /\ ~(k < i)
        <3>1. j = k + 1
            BY <1>3, <1>6, <2>3 DEF AtMostOnce
        <3> QED
            BY <1>2, <2>3, <3>1
    <2>4. CASE ~(j < i) /\ k < i
        <3>1. k = j + 1
            BY <1>3, <1>6, <2>4 DEF AtMostOnce
        <3> QED
            BY <1>2, <2>4, <3>1
    <2> QED
        BY <2>1, <2>2, <2>3, <2>4
<1>7. ASSUME n = s[i], AtMostOnce(s, n) PROVE ~Contains(t, n)
    BY <1>4, <1>7 DEF AtMostOnce
<1>8. Contains(t, n) => Contains(s, n)
    BY <1>4 DEF Contains
<1> QED
    BY <1>1, <1>5, <1>6, <1>7, <1>8

\* sys_slist_find_and_remove of a node that is linked at most once.
LEMMA RemoveFirstLinks ==
    ASSUME NEW S, NEW s \in Seq(S), NEW e, NEW n
    PROVE  /\ n # e => (Contains(RemoveFirst(s, e), n) <=> Contains(s, n))
           /\ AtMostOnce(s, n) => AtMostOnce(RemoveFirst(s, e), n)
           /\ AtMostOnce(s, e) => ~Contains(RemoveFirst(s, e), e)
<1>1. CASE Where(s, e) = 0
    <2>1. RemoveFirst(s, e) = s
        BY <1>1, RemoveFirstProperties
    <2>2. ~Contains(s, e)
        BY <1>1, WhereProperties DEF Contains
    <2> QED
        BY <2>1, <2>2
<1>2. CASE Where(s, e) # 0
    <2>1. PICK i : i = Where(s, e)
        OBVIOUS
    <2>2. i \in 1 .. Len(s) /\ s[i] = e
        BY <1>2, <2>1, WhereProperties, LenProperties
    <2>3. RemoveFirst(s, e) = RemoveAt(s, i)
        BY <1>2, <2>1, RemoveFirstProperties
    <2> QED
        BY <2>2, <2>3, RemoveAtLinks
<1> QED
    BY <1>1, <1>2

\* sys_slist_get: the head leaves the list.
LEMMA TailLinks ==
    ASSUME NEW S, NEW s \in Seq(S), s # <<>>, NEW n
    PROVE  /\ Contains(s, Head(s))
           /\ n # Head(s) => (Contains(Tail(s), n) <=> Contains(s, n))
           /\ AtMostOnce(s, n) => AtMostOnce(Tail(s), n)
           /\ AtMostOnce(s, Head(s)) => ~Contains(Tail(s), Head(s))
<1>1. 1 \in 1 .. Len(s) /\ s[1] = Head(s)
    BY LenProperties, EmptySeq
<1>2. Tail(s) = RemoveAt(s, 1)
    <2>1. PICK t \in Seq(S), u \in Seq(S) : t = Tail(s) /\ u = RemoveAt(s, 1)
        BY <1>1, HeadTailProperties, RemoveAtProperties
    <2>2. /\ Len(t) = Len(s) - 1
          /\ \A j \in 1 .. Len(t) : t[j] = s[j + 1]
        BY <2>1, HeadTailProperties
    <2>3. /\ Len(u) = Len(s) - 1
          /\ \A j \in 1 .. Len(s) - 1 : u[j] = IF j < 1 THEN s[j] ELSE s[j + 1]
        BY <1>1, <2>1, RemoveAtProperties
    <2>4. \A j \in 1 .. Len(t) : t[j] = u[j]
        BY <2>2, <2>3, LenProperties
    <2> QED
        BY <2>1, <2>2, <2>3, <2>4, SeqEqual
<1>3. Contains(s, Head(s))
    BY <1>1 DEF Contains
<1>4. PICK i \in 1 .. Len(s) : i = 1
    BY <1>1
<1>5. /\ n # s[i] => (Contains(RemoveAt(s, i), n) <=> Contains(s, n))
      /\ AtMostOnce(s, n) => AtMostOnce(RemoveAt(s, i), n)
    BY RemoveAtLinks
<1>6. AtMostOnce(s, s[i]) => ~Contains(RemoveAt(s, i), s[i])
    BY RemoveAtLinks
<1> QED
    BY <1>1, <1>2, <1>3, <1>4, <1>5, <1>6

-----------------------------------------------------------------------------
(* Type correctness.                                                       *)

LEMMA TypeInit == Init => TypeOK
<1>1. <<>> \in Seq(Nodes) /\ <<>> \in Seq(Clients)
    BY EmptySeq
<1>2. ASSUME Init
      PROVE  /\ wflags \in [Nodes -> SUBSET (WorkFlags \cup FlusherFlags)]
             /\ \A w \in Works : wflags[w] \subseteq WorkFlags
             /\ \A c \in Clients : wflags[c] \subseteq FlusherFlags
             /\ wqueue \in [Works -> Queues \cup {NoQueue}]
             /\ handler \in [Works -> Handlers]
             /\ qflags \in [Queues -> SUBSET QueueFlags]
    BY <1>2 DEF Init, Nodes
<1>3. ASSUME Init
      PROVE  /\ notifyq \in [Queues -> BOOLEAN] /\ drainq \in [Queues -> BOOLEAN]
             /\ joinable \in [Queues -> BOOLEAN] /\ sem \in [Clients -> BOOLEAN]
             /\ drained \in [Clients -> BOOLEAN]
    BY <1>3 DEF Init
<1>4. ASSUME Init
      PROVE  pending \in [Queues -> Seq(Nodes)] /\ cancels \in Seq(Clients)
    BY <1>1, <1>4 DEF Init
<1>5. ASSUME Init
      PROVE  /\ worker \in [Queues -> {"unborn", "top", "wait", "handler", "gone", "dead"}]
             /\ cur \in [Queues -> Nodes \cup {None}]
             /\ running \in [Queues -> Handlers \cup {None}]
             /\ life \in [Queues -> {"open", "closing", "destroyed"}]
    BY <1>5 DEF Init
<1>6. ASSUME Init
      PROVE  /\ call \in [Clients -> Blocking \cup {"idle"}]
             /\ on \in [Clients -> Works \cup Queues \cup {None}]
             /\ waits \in [Clients -> {"none", "queued", "running", "over"}]
    BY <1>6 DEF Init
<1> QED
    BY <1>2, <1>3, <1>4, <1>5, <1>6 DEF TypeOK

LEMMA SubmitLockedType ==
    ASSUME TypeOK, NEW t, NEW w \in Works, NEW q \in Queues \cup {NoQueue},
           SubmitLocked(t, w, q)
    PROVE  TypeOK'
<1>1. w \in Nodes
    BY DEF Nodes
<1>2. pending' \in [Queues -> Seq(Nodes)]
    <2>1. \A p \in Queues : Append(pending[p], w) \in Seq(Nodes)
        BY <1>1, AppendProperties DEF TypeOK
    <2> QED
        BY <2>1 DEF SubmitLocked, SetPending, TypeOK
<1>3. /\ wflags' \in [Nodes -> SUBSET (WorkFlags \cup FlusherFlags)]
      /\ \A v \in Works : wflags'[v] \subseteq WorkFlags
      /\ \A c \in Clients : wflags'[c] \subseteq FlusherFlags
    BY <1>1, DistinctObjects DEF SubmitLocked, TypeOK, WorkFlags, Nodes
<1> QED
    BY <1>2, <1>3 DEF SubmitLocked, Notify, TypeOK, workerVars, lifeVars, callVars,
         ghostVars

LEMMA CancelAsyncType ==
    ASSUME TypeOK, NEW w \in Works, CancelAsync(w)
    PROVE  /\ pending' \in [Queues -> Seq(Nodes)]
           /\ wflags' \in [Nodes -> SUBSET (WorkFlags \cup FlusherFlags)]
           /\ \A v \in Works : wflags'[v] \subseteq WorkFlags
           /\ \A c \in Clients : wflags'[c] \subseteq FlusherFlags
<1>1. pending' \in [Queues -> Seq(Nodes)]
    <2>1. ASSUME NEW q \in Queues PROVE RemoveFirst(pending[q], w) \in Seq(Nodes)
        BY RemoveFirstProperties DEF TypeOK
    <2> QED
        BY <2>1 DEF CancelAsync, PendingWithout, TypeOK
<1>2. CancelledFlags(w) \subseteq WorkFlags
    BY DEF CancelledFlags, TypeOK, WorkFlags
<1> QED
    BY <1>1, <1>2, DistinctObjects DEF CancelAsync, TypeOK, Nodes

LEMMA ClientStepType ==
    ASSUME TypeOK, NEW c \in Clients, ClientNext(c)
    PROVE  TypeOK'
<1> USE DEF queueVars, workerVars, lifeVars, callVars, ghostVars
<1>1. ASSUME NEW w \in Works, CancelSync(c, w)
      PROVE  TypeOK'
    <2>1. cancels' \in Seq(Clients)
        <3>1. Append(cancels, c) \in Seq(Clients)
            BY AppendProperties DEF TypeOK
        <3> QED
            BY <1>1, <3>1 DEF CancelSync, Enlist, TypeOK
    <2>2. Waiters(w, "queued", "over") \in [Clients -> {"none", "queued", "running", "over"}]
        BY DEF Waiters, TypeOK
    <2>3. waits' \in [Clients -> {"none", "queued", "running", "over"}]
        BY <1>1, <2>2 DEF CancelSync
    <2>4. /\ call' \in [Clients -> Blocking \cup {"idle"}]
          /\ on' \in [Clients -> Works \cup Queues \cup {None}]
        BY <1>1 DEF CancelSync, Enter, TypeOK, Blocking
    <2> QED
        BY <1>1, <2>1, <2>3, <2>4, CancelAsyncType DEF CancelSync, TypeOK
<1>2. ASSUME NEW w \in Works, Flush(c, w)
      PROVE  TypeOK'
    <2>1. pending' \in [Queues -> Seq(Nodes)]
        <3>1. \A q \in Queues : FlusherPlace(pending[q], w, c) \in Seq(Nodes)
            BY FlusherPlaceType DEF TypeOK
        <3>2. \A q \in Queues : Append(pending[q], c) \in Seq(Nodes)
            BY AppendProperties DEF TypeOK, Nodes
        <3>3. \/ pending' = [pending EXCEPT ![wqueue[w]] = FlusherPlace(pending[wqueue[w]], w, c)]
              \/ pending' = [pending EXCEPT ![wqueue[w]] = Append(pending[wqueue[w]], c)]
              \/ pending' = pending
            BY <1>2 DEF Flush, SetPending
        <3>4. CASE pending' = [pending EXCEPT ![wqueue[w]] = FlusherPlace(pending[wqueue[w]], w, c)]
            BY <3>1, <3>4 DEF TypeOK
        <3>5. CASE pending' = [pending EXCEPT ![wqueue[w]] = Append(pending[wqueue[w]], c)]
            BY <3>2, <3>5 DEF TypeOK
        <3> QED
            BY <3>3, <3>4, <3>5 DEF TypeOK
    <2>2. /\ wflags' \in [Nodes -> SUBSET (WorkFlags \cup FlusherFlags)]
          /\ \A v \in Works : wflags'[v] \subseteq WorkFlags
          /\ \A d \in Clients : wflags'[d] \subseteq FlusherFlags
        BY <1>2, DistinctObjects DEF Flush, TypeOK, Nodes, FlusherFlags
    <2>3. /\ call' \in [Clients -> Blocking \cup {"idle"}]
          /\ on' \in [Clients -> Works \cup Queues \cup {None}]
          /\ waits' \in [Clients -> {"none", "queued", "running", "over"}]
        BY <1>2 DEF Flush, Enter, TypeOK, Blocking
    <2>4. notifyq' \in [Queues -> BOOLEAN]
        BY <1>2 DEF Flush, Notify, TypeOK
    <2> QED
        BY <1>2, <2>1, <2>2, <2>3, <2>4 DEF Flush, TypeOK
<1>3. ASSUME NEW q \in Queues, Start(c, q) \/ Run(c, q)
      PROVE  TypeOK'
    <2>1. pending' \in [Queues -> Seq(Nodes)]
        <3>1. <<>> \in Seq(Nodes)
            BY EmptySeq
        <3> QED
            BY <1>3, <3>1 DEF Start, Run, Launch, SetPending, TypeOK
    <2>2. /\ call' \in [Clients -> Blocking \cup {"idle"}]
          /\ on' \in [Clients -> Works \cup Queues \cup {None}]
        BY <1>3 DEF Start, Run, Enter, TypeOK, Blocking
    <2>3. /\ qflags' \in [Queues -> SUBSET QueueFlags]
          /\ notifyq' \in [Queues -> BOOLEAN]
          /\ drainq' \in [Queues -> BOOLEAN]
          /\ worker' \in [Queues -> {"unborn", "top", "wait", "handler", "gone", "dead"}]
          /\ cur' \in [Queues -> Nodes \cup {None}]
          /\ running' \in [Queues -> Handlers \cup {None}]
        <3>1. Launch(q)
            BY <1>3 DEF Start, Run
        <3>2. qflags' \in [Queues -> SUBSET QueueFlags]
            BY <3>1 DEF Launch, TypeOK, QueueFlags
        <3> QED
            BY <3>1, <3>2 DEF Launch, TypeOK
    <2>4. joinable' \in [Queues -> BOOLEAN]
        BY <1>3 DEF Start, Run, TypeOK
    <2> QED
        BY <1>3, <2>1, <2>2, <2>3, <2>4 DEF Start, Run, Launch, TypeOK
<1>4. ASSUME NEW q \in Queues, Destroy(c, q)
      PROVE  TypeOK'
    <2>1. CASE "STARTED" \in qflags[q]
        <3>0. /\ life' = [life EXCEPT ![q] = "closing"]
              /\ BeginDrain(c, q, TRUE)
              /\ Enter(c, "destroy", q)
            BY <1>4, <2>1 DEF Destroy
        <3>1. /\ qflags' \in [Queues -> SUBSET QueueFlags]
              /\ notifyq' \in [Queues -> BOOLEAN]
              /\ life' \in [Queues -> {"open", "closing", "destroyed"}]
            BY <3>0 DEF BeginDrain, DrainFlags, Notify, TypeOK, QueueFlags
        <3>2. /\ drained' \in [Clients -> BOOLEAN]
              /\ call' \in [Clients -> Blocking \cup {"idle"}]
              /\ on' \in [Clients -> Works \cup Queues \cup {None}]
            BY <3>0 DEF BeginDrain, Enter, TypeOK, Blocking
        <3>3. UNCHANGED <<wflags, wqueue, handler, pending, drainq, cancels, workerVars,
                          joinable, sem, waits>>
            BY <1>4, <2>1 DEF Destroy, BeginDrain
        <3> QED
            BY <3>1, <3>2, <3>3 DEF TypeOK
    <2>2. CASE "STARTED" \notin qflags[q]
        BY <1>4, <2>2 DEF Destroy, TypeOK
    <2> QED
        BY <2>1, <2>2
<1>5. ASSUME NEW q \in Queues, NEW plug \in BOOLEAN, Drain(c, q, plug)
      PROVE  TypeOK'
    BY <1>5 DEF Drain, BeginDrain, DrainFlags, Notify, Enter, TypeOK, QueueFlags, Blocking
<1>6. ASSUME NEW q \in Queues, NEW how \in {"stop", "stop_for"}, Stop(c, q, how)
      PROVE  TypeOK'
    BY <1>6 DEF Stop, AskStop, Notify, Enter, TypeOK, QueueFlags, Blocking
<1>7. ASSUME FlushReturn(c) \/ CancelReturn(c)
      PROVE  TypeOK'
    BY <1>7 DEF FlushReturn, CancelReturn, SemTaken, Leave, TypeOK
<1>8. ASSUME DrainReturn(c)
      PROVE  TypeOK'
    BY <1>8 DEF DrainReturn, TokenTaken, Leave, TypeOK
<1>9. ASSUME StopReturn(c) \/ StopForReturn(c) \/ RunReturn(c)
      PROVE  TypeOK'
    BY <1>9 DEF StopReturn, StopForReturn, RunReturn, Joined, Leave, TypeOK
<1>10. ASSUME DestroyDrained(c)
       PROVE  TypeOK'
    <2>1. /\ qflags' \in [Queues -> SUBSET QueueFlags]
          /\ notifyq' \in [Queues -> BOOLEAN]
        <3>1. CASE Stoppable(on[c])
            <4>1. AskStop(on[c])
                BY <1>10, <3>1 DEF DestroyDrained
            <4> QED
                BY <4>1 DEF AskStop, Notify, TypeOK, QueueFlags
        <3>2. CASE ~Stoppable(on[c])
            BY <1>10, <3>2 DEF DestroyDrained, TypeOK
        <3> QED
            BY <3>1, <3>2
    <2>2. /\ call' \in [Clients -> Blocking \cup {"idle"}]
          /\ on' \in [Clients -> Works \cup Queues \cup {None}]
        BY <1>10 DEF DestroyDrained, Enter, TypeOK, Blocking
    <2> QED
        BY <1>10, <2>1, <2>2 DEF DestroyDrained, TokenTaken, TypeOK
<1>11. ASSUME DestroyReturn(c)
       PROVE  TypeOK'
    BY <1>11 DEF DestroyReturn, Joined, Leave, TypeOK
<1> QED
    BY <1>1, <1>2, <1>3, <1>4, <1>5, <1>6, <1>7, <1>8, <1>9, <1>10, <1>11 DEF ClientNext

LEMMA ThreadStepType ==
    ASSUME TypeOK, NEW t \in Threads, ThreadNext(t)
    PROVE  TypeOK'
<1> USE DEF queueVars, workerVars, lifeVars, callVars, ghostVars
<1>1. ASSUME NEW w \in Works, NEW q \in Queues, Submit(t, w, q)
      PROVE  TypeOK'
    <2>1. Target(w, q) \in Queues \cup {NoQueue}
        BY DEF Target, TypeOK
    <2> QED
        BY <1>1, <2>1, SubmitLockedType DEF Submit
<1>2. ASSUME NEW w \in Works, Resubmit(t, w)
      PROVE  TypeOK'
    BY <1>2, SubmitLockedType DEF Resubmit, TypeOK
<1>3. ASSUME NEW w \in Works, Cancel(t, w)
      PROVE  TypeOK'
    <2>1. waits' \in [Clients -> {"none", "queued", "running", "over"}]
        BY <1>3 DEF Cancel, Waiters, TypeOK
    <2> QED
        BY <1>3, <2>1, CancelAsyncType DEF Cancel, TypeOK
<1>4. ASSUME NEW w \in Works, NEW h \in Handlers, SetHandler(t, w, h)
      PROVE  TypeOK'
    BY <1>4 DEF SetHandler, TypeOK
<1>5. ASSUME NEW q \in Queues, Unplug(t, q)
      PROVE  TypeOK'
    BY <1>5 DEF Unplug, TypeOK
<1> QED
    BY <1>1, <1>2, <1>3, <1>4, <1>5 DEF ThreadNext

LEMMA WorkerStepType ==
    ASSUME TypeOK, NEW q \in Queues, WorkerStep(q) \/ Throw(q)
    PROVE  TypeOK'
<1> USE DEF queueVars, workerVars, lifeVars, callVars, ghostVars
<1>1. CASE Take(q)
    <2> DEFINE n == Head(pending[q])
    <2>1. pending[q] # <<>>
        BY <1>1 DEF Take, Finds
    <2>2. n \in Nodes /\ Tail(pending[q]) \in Seq(Nodes)
        BY <2>1, HeadTailProperties DEF TypeOK
    <2> HIDE DEF n
    <2>3. pending' \in [Queues -> Seq(Nodes)]
        BY <1>1, <2>2 DEF Take, SetPending, TypeOK
    <2>4. /\ wflags' \in [Nodes -> SUBSET (WorkFlags \cup FlusherFlags)]
          /\ \A v \in Works : wflags'[v] \subseteq WorkFlags
          /\ \A c \in Clients : wflags'[c] \subseteq FlusherFlags
        <3>1. wflags' = [wflags EXCEPT ![n] = TakenFlags(n)]
            BY <1>1 DEF Take, n
        <3>2. n \in Works => TakenFlags(n) \subseteq WorkFlags
            BY DEF TakenFlags, TypeOK, WorkFlags
        <3>3. n \in Clients => TakenFlags(n) \subseteq FlusherFlags
            BY DEF TakenFlags, TypeOK, FlusherFlags
        <3> QED
            BY <2>2, <3>1, <3>2, <3>3 DEF TypeOK, Nodes
    <2>5. running' \in [Queues -> Handlers \cup {None}]
        <3>1. running' = [running EXCEPT ![q] = IF n \in Works THEN handler[n] ELSE None]
            BY <1>1 DEF Take, n
        <3> QED
            BY <3>1 DEF TypeOK
    <2>6. cur' \in [Queues -> Nodes \cup {None}]
        BY <1>1, <2>2 DEF Take, TypeOK, n
    <2>7. waits' \in [Clients -> {"none", "queued", "running", "over"}]
        BY <1>1 DEF Take, Waiters, TypeOK
    <2>8. /\ qflags' \in [Queues -> SUBSET QueueFlags]
          /\ worker' \in [Queues -> {"unborn", "top", "wait", "handler", "gone", "dead"}]
        BY <1>1 DEF Take, TypeOK, QueueFlags
    <2> QED
        BY <1>1, <2>3, <2>4, <2>5, <2>6, <2>7, <2>8 DEF Take, TypeOK
<1>2. CASE AnswerDrain(q)
    BY <1>2 DEF AnswerDrain, TypeOK
<1>3. CASE Quit(q) \/ Sleep(q) \/ Wake(q) \/ Throw(q)
    BY <1>3 DEF Quit, Sleep, Wake, Throw, TypeOK
<1>4. CASE Finish(q)
    <2> DEFINE n == cur[q]
               i == IF "CANCELING" \in wflags[n] THEN Released(n) ELSE 0
    <2>1. /\ wflags' \in [Nodes -> SUBSET (WorkFlags \cup FlusherFlags)]
          /\ \A v \in Works : wflags'[v] \subseteq WorkFlags
          /\ \A c \in Clients : wflags'[c] \subseteq FlusherFlags
        BY <1>4 DEF Finish, FinishedFlags, TypeOK, Nodes
    <2>2. cancels' \in Seq(Clients)
        <3>1. i \in 0 .. Len(cancels)
            BY ReleasedProperties, LenProperties DEF TypeOK
        <3>2. cancels' = IF i # 0 THEN RemoveAt(cancels, i) ELSE cancels
            BY <1>4 DEF Finish
        <3> HIDE DEF i
        <3>3. i # 0 => RemoveAt(cancels, i) \in Seq(Clients)
            BY <3>1, RemoveAtProperties, LenProperties DEF TypeOK
        <3> QED
            BY <3>2, <3>3 DEF TypeOK
    <2>3. /\ sem' \in [Clients -> BOOLEAN]
          /\ waits' \in [Clients -> {"none", "queued", "running", "over"}]
        BY <1>4 DEF Finish, Waiters, TypeOK
    <2>4. /\ cur' \in [Queues -> Nodes \cup {None}]
          /\ running' \in [Queues -> Handlers \cup {None}]
          /\ qflags' \in [Queues -> SUBSET QueueFlags]
          /\ worker' \in [Queues -> {"unborn", "top", "wait", "handler", "gone", "dead"}]
        BY <1>4 DEF Finish, IdleFlags, TypeOK
    <2> QED
        BY <1>4, <2>1, <2>2, <2>3, <2>4 DEF Finish, TypeOK
<1> QED
    BY <1>1, <1>2, <1>3, <1>4 DEF WorkerStep

LEMMA TypeStep == TypeOK /\ [Next]_vars => TypeOK'
<1> SUFFICES ASSUME TypeOK, [Next]_vars
             PROVE  TypeOK'
    OBVIOUS
<1>1. CASE UNCHANGED vars
    BY <1>1 DEF vars, queueVars, workerVars, lifeVars, callVars, ghostVars, TypeOK
<1> QED
    BY <1>1, ClientStepType, ThreadStepType, WorkerStepType DEF Next

\* Every variable keeps its type, whatever the program calls.
THEOREM TypeCorrect == Spec => []TypeOK
    BY TypeInit, TypeStep, PTL DEF Spec

-----------------------------------------------------------------------------
(* The links between works, lists and threads.                             *)

\* A queue without a thread is as WorkQ::WorkQ or Quit left it.
Blank ==
    \A q \in Queues :
        worker[q] \in {"unborn", "gone"} => qflags[q] = {} /\ pending[q] = <<>>

\* The inductive invariant.  None of its parts is inductive alone: the flags
\* of a work follow the lists and the threads, and the other way round.  It holds
\* in programs that never start or run again a queue whose handler threw: that
\* empties the list and leaves the flags of the works alone.
LinkInv ==
    /\ "no_relaunch" \in Discipline
    /\ TypeOK
    /\ QueuedIsLinked
    /\ RunningIsOwned
    /\ CancelingIsRunning
    /\ BusyIsRunning
    /\ Blank
    /\ PluggedIsEmpty

LEMMA LinkInit ==
    ASSUME "no_relaunch" \in Discipline
    PROVE  Init => LinkInv
<1> SUFFICES ASSUME Init
             PROVE  LinkInv
    OBVIOUS
<1>1. TypeOK
    BY TypeInit
<1>2. QueuedIsLinked
    <2>1. ASSUME NEW w PROVE ~Contains(<<>>, w) /\ AtMostOnce(<<>>, w)
        BY EmptySeq DEF Contains, AtMostOnce
    <2> QED
        BY <2>1 DEF Init, QueuedIsLinked, Nodes
<1>3. RunningIsOwned /\ CancelingIsRunning
    BY DistinctObjects DEF Init, RunningIsOwned, CancelingIsRunning, Nodes
<1>4. BusyIsRunning /\ Blank /\ PluggedIsEmpty
    BY DEF Init, BusyIsRunning, Blank, PluggedIsEmpty
<1> QED
    BY <1>1, <1>2, <1>3, <1>4 DEF LinkInv

\* A work that is queued or runs points at a queue that has a thread and is
\* not plugged for good.
LEMMA BusyWork ==
    ASSUME LinkInv, NEW w \in Works, wflags[w] # {}
    PROVE  /\ wqueue[w] \in Queues
           /\ worker[wqueue[w]] \notin {"unborn", "gone"}
           /\ "PLUGGED" \in qflags[wqueue[w]] => "DRAIN" \in qflags[wqueue[w]]
<1> USE DEF LinkInv
<1>1. CASE "QUEUED" \in wflags[w]
    <2>1. wqueue[w] \in Queues /\ Contains(pending[wqueue[w]], w)
        BY <1>1 DEF QueuedIsLinked
    <2>2. pending[wqueue[w]] # <<>>
        BY <2>1, EmptySeq DEF Contains
    <2> QED
        BY <2>1, <2>2 DEF Blank, PluggedIsEmpty
<1>2. CASE "RUNNING" \in wflags[w]
    <2>1. wqueue[w] \in Queues /\ cur[wqueue[w]] = w
        BY <1>2 DEF RunningIsOwned
    <2>2. cur[wqueue[w]] # None
        BY <2>1, DistinctObjects
    <2> QED
        BY <2>1, <2>2 DEF BusyIsRunning, PluggedIsEmpty
<1>3. CASE "CANCELING" \in wflags[w]
    BY <1>2, <1>3 DEF CancelingIsRunning
<1>4. "QUEUED" \in wflags[w] \/ "RUNNING" \in wflags[w] \/ "CANCELING" \in wflags[w]
    <2>1. wflags[w] \subseteq {"RUNNING", "CANCELING", "QUEUED"}
        BY DEF TypeOK, WorkFlags
    <2>2. PICK f : f \in wflags[w]
        OBVIOUS
    <2> QED
        BY <2>1, <2>2
<1> QED
    BY <1>1, <1>2, <1>3, <1>4

\* The flusher of a queued work is linked behind it.
LEMMA FlushPlaces ==
    ASSUME LinkInv, NEW c \in Clients, NEW w \in Works, Flush(c, w)
    PROVE  SetPending(wqueue[w], FlusherPlace(pending[wqueue[w]], w, c))
<1>1. ~Stranded(w)
    BY DEF Stranded, LinkInv, QueuedIsLinked
<1> QED
    BY <1>1 DEF Flush

\* A queue is started or run when its list is empty and it runs nothing.
LEMMA LaunchFresh ==
    ASSUME LinkInv, NEW q \in Queues, Launch(q)
    PROVE  /\ worker[q] \in {"unborn", "gone"}
           /\ qflags[q] = {} /\ pending[q] = <<>> /\ cur[q] = None
           /\ UNCHANGED <<wflags, wqueue, pending, cur>>
<1>1. worker[q] \in {"unborn", "gone"}
    BY DEF LinkInv, Launch, MayLaunch, Ended
<1>2. qflags[q] = {} /\ pending[q] = <<>> /\ cur[q] = None
    BY <1>1 DEF LinkInv, Blank, BusyIsRunning
<1>3. UNCHANGED <<wflags, wqueue, pending, cur>>
    BY <1>2 DEF Launch, SetPending, LinkInv, TypeOK
<1> QED
    BY <1>1, <1>2, <1>3

\* A step that leaves works, lists and what runs alone.
LEMMA LinkQueueStep ==
    ASSUME LinkInv, TypeOK', NEW q \in Queues,
           UNCHANGED <<wflags, wqueue, pending, cur>>,
           \A p \in Queues : p # q => worker'[p] = worker[p] /\ qflags'[p] = qflags[p],
           cur[q] # None <=> worker'[q] \in {"handler", "dead"},
           "BUSY" \in qflags'[q] <=> cur[q] # None,
           worker'[q] \in {"unborn", "gone"} => qflags'[q] = {} /\ pending[q] = <<>>,
           "PLUGGED" \in qflags'[q] /\ "DRAIN" \notin qflags'[q]
               => pending[q] = <<>> /\ cur[q] = None
    PROVE  LinkInv'
<1>1. QueuedIsLinked' /\ RunningIsOwned' /\ CancelingIsRunning'
    BY DEF LinkInv, QueuedIsLinked, RunningIsOwned, CancelingIsRunning
<1>2. BusyIsRunning' /\ Blank' /\ PluggedIsEmpty'
    BY DEF LinkInv, BusyIsRunning, Blank, PluggedIsEmpty
<1> QED
    BY <1>1, <1>2 DEF LinkInv

\* Submission, from anywhere: a running work goes back to its own queue.
LEMMA LinkSubmit ==
    ASSUME LinkInv, TypeOK', NEW t, NEW w \in Works, NEW q \in Queues,
           "RUNNING" \in wflags[w] => q = wqueue[w],
           SubmitLocked(t, w, q)
    PROVE  LinkInv'
<1> USE DEF LinkInv
<1>1. /\ w \in Nodes /\ \A v \in Works : v \in Nodes
      /\ "QUEUED" \notin wflags[w] /\ "CANCELING" \notin wflags[w]
      /\ "STARTED" \in qflags[q]
      /\ "PLUGGED" \in qflags[q] => "DRAIN" \in qflags[q]
    BY DEF SubmitLocked, Submittable, Accepts, Nodes
<1>2. /\ pending' = [pending EXCEPT ![q] = Append(pending[q], w)]
      /\ wflags' = [wflags EXCEPT ![w] = @ \cup {"QUEUED"}]
      /\ wqueue' = [wqueue EXCEPT ![w] = q]
      /\ UNCHANGED <<qflags, worker, cur>>
    BY DEF SubmitLocked, SetPending, workerVars
<1>3. \A p \in Queues : ~Contains(pending[p], w) /\ AtMostOnce(pending[p], w)
    BY <1>1 DEF QueuedIsLinked
<1>4. QueuedIsLinked'
    <2> SUFFICES ASSUME NEW v \in Works
                 PROVE  /\ "QUEUED" \in wflags'[v] => wqueue'[v] \in Queues
                        /\ \A p \in Queues :
                             /\ Contains(pending'[p], v) <=>
                                  "QUEUED" \in wflags'[v] /\ wqueue'[v] = p
                             /\ AtMostOnce(pending'[p], v)
        BY DEF QueuedIsLinked
    <2>1. /\ Contains(Append(pending[q], w), v) <=> Contains(pending[q], v) \/ v = w
          /\ AtMostOnce(pending[q], v) /\ (v = w => ~Contains(pending[q], v))
                => AtMostOnce(Append(pending[q], w), v)
        BY <1>1, AppendLinks DEF TypeOK
    <2>2. /\ \A p \in Queues : p # q => pending'[p] = pending[p]
          /\ pending'[q] = Append(pending[q], w)
        BY <1>2 DEF TypeOK
    <2>3. CASE v = w
        <3>1. "QUEUED" \in wflags'[v] /\ wqueue'[v] = q
            BY <1>1, <1>2, <2>3 DEF TypeOK
        <3> QED
            BY <1>3, <2>1, <2>2, <2>3, <3>1
    <2>4. CASE v # w
        <3>1. wflags'[v] = wflags[v] /\ wqueue'[v] = wqueue[v]
            BY <1>1, <1>2, <2>4 DEF TypeOK
        <3> QED
            BY <2>1, <2>2, <2>4, <3>1 DEF QueuedIsLinked
    <2> QED
        BY <2>3, <2>4
<1>5. RunningIsOwned'
    <2> SUFFICES ASSUME NEW v \in Works
                 PROVE  {p \in Queues : cur'[p] = v}
                            = IF "RUNNING" \in wflags'[v] THEN {wqueue'[v]} ELSE {}
        BY DEF RunningIsOwned
    <2>1. "RUNNING" \in wflags'[v] <=> "RUNNING" \in wflags[v]
        BY <1>1, <1>2 DEF TypeOK
    <2>2. "RUNNING" \in wflags[v] => wqueue'[v] = wqueue[v]
        BY <1>2 DEF TypeOK
    <2> QED
        BY <1>2, <2>1, <2>2 DEF RunningIsOwned
<1>6. CancelingIsRunning'
    BY <1>1, <1>2 DEF CancelingIsRunning, TypeOK
<1>7. BusyIsRunning'
    BY <1>2 DEF BusyIsRunning
<1>8. Blank' /\ PluggedIsEmpty'
    <2>1. \A p \in Queues : p # q => pending'[p] = pending[p]
        BY <1>2 DEF TypeOK
    <2> QED
        BY <1>1, <1>2, <2>1 DEF Blank, PluggedIsEmpty
<1> QED
    BY <1>4, <1>5, <1>6, <1>7, <1>8

\* Cancellation takes a queued work out of its list and marks a running one.
LEMMA LinkCancel ==
    ASSUME LinkInv, TypeOK', NEW w \in Works, wflags[w] # {}, CancelAsync(w),
           UNCHANGED <<wqueue, qflags, worker, cur>>
    PROVE  LinkInv'
<1> USE DEF LinkInv
<1>1. w \in Nodes /\ \A v \in Works : v \in Nodes
    BY DEF Nodes
<1>2. /\ wflags'[w] = CancelledFlags(w)
      /\ \A v \in Works : v # w => wflags'[v] = wflags[v]
    BY <1>1 DEF CancelAsync, TypeOK
<1>3. /\ "QUEUED" \notin wflags'[w]
      /\ "RUNNING" \in wflags'[w] <=> "RUNNING" \in wflags[w]
      /\ "CANCELING" \in wflags'[w] => wflags'[w] = {"CANCELING", "RUNNING"}
    <2>1. wflags[w] \subseteq {"RUNNING", "CANCELING", "QUEUED"}
        BY DEF TypeOK, WorkFlags
    <2>2. CASE "CANCELING" \in wflags[w]
        <3>1. wflags[w] = {"CANCELING", "RUNNING"}
            BY <2>2 DEF CancelingIsRunning
        <3> QED
            BY <1>2, <3>1 DEF CancelledFlags, Unlinks
    <2>3. CASE "CANCELING" \notin wflags[w] /\ "RUNNING" \in wflags[w]
        <3>1. CancelledFlags(w) = {"CANCELING", "RUNNING"}
            BY <2>1, <2>3 DEF CancelledFlags, Unlinks
        <3> QED
            BY <1>2, <2>3, <3>1
    <2>4. CASE "CANCELING" \notin wflags[w] /\ "RUNNING" \notin wflags[w]
        <3>1. wflags[w] = {"QUEUED"}
            BY <2>1, <2>4
        <3>2. CancelledFlags(w) = {}
            BY <3>1 DEF CancelledFlags, Unlinks
        <3> QED
            BY <1>2, <2>4, <3>2
    <2> QED
        BY <2>2, <2>3, <2>4
<1>4. ASSUME NEW p \in Queues, NEW v \in Works
      PROVE  /\ v # w => (Contains(pending'[p], v) <=> Contains(pending[p], v))
             /\ AtMostOnce(pending[p], v) => AtMostOnce(pending'[p], v)
             /\ ~Contains(pending'[p], w)
    <2>1. AtMostOnce(pending[p], w)
        BY DEF QueuedIsLinked
    <2>2. CASE Unlinks(w) /\ p = wqueue[w]
        <3>1. pending'[p] = RemoveFirst(pending[p], w)
            BY <2>2 DEF CancelAsync, PendingWithout, TypeOK
        <3>2. pending[p] \in Seq(Nodes)
            BY DEF TypeOK
        <3> QED
            BY <2>1, <3>1, <3>2, RemoveFirstLinks
    <2>3. CASE ~(Unlinks(w) /\ p = wqueue[w])
        <3>1. pending'[p] = pending[p]
            BY <2>3 DEF CancelAsync, PendingWithout, TypeOK
        <3>2. ~("QUEUED" \in wflags[w] /\ wqueue[w] = p)
            BY <2>3 DEF Unlinks, CancelingIsRunning
        <3>3. ~Contains(pending[p], w)
            BY <3>2 DEF QueuedIsLinked
        <3> QED
            BY <3>1, <3>3
    <2> QED
        BY <2>2, <2>3
<1>5. QueuedIsLinked'
    <2> SUFFICES ASSUME NEW v \in Works
                 PROVE  /\ "QUEUED" \in wflags'[v] => wqueue[v] \in Queues
                        /\ \A p \in Queues :
                             /\ Contains(pending'[p], v) <=>
                                  "QUEUED" \in wflags'[v] /\ wqueue[v] = p
                             /\ AtMostOnce(pending'[p], v)
        BY DEF QueuedIsLinked
    <2>1. CASE v = w
        BY <1>3, <1>4, <2>1 DEF QueuedIsLinked
    <2>2. CASE v # w
        BY <1>2, <1>4, <2>2 DEF QueuedIsLinked
    <2> QED
        BY <2>1, <2>2
<1>6. RunningIsOwned' /\ CancelingIsRunning'
    <2>1. \A v \in Works : "RUNNING" \in wflags'[v] <=> "RUNNING" \in wflags[v]
        BY <1>2, <1>3
    <2>2. RunningIsOwned'
        BY <2>1 DEF RunningIsOwned
    <2>3. CancelingIsRunning'
        BY <1>2, <1>3 DEF CancelingIsRunning
    <2> QED
        BY <2>2, <2>3
<1>7. \A p \in Queues : pending[p] = <<>> => pending'[p] = <<>>
    <2> SUFFICES ASSUME NEW p \in Queues, pending[p] = <<>>
                 PROVE  pending'[p] = <<>>
        OBVIOUS
    <2>1. ~Contains(pending[p], w)
        BY EmptySeq DEF Contains
    <2>2. ~(Unlinks(w) /\ p = wqueue[w])
        BY <2>1 DEF Unlinks, QueuedIsLinked
    <2> QED
        BY <2>2 DEF CancelAsync, PendingWithout, TypeOK
<1>8. BusyIsRunning' /\ Blank' /\ PluggedIsEmpty'
    BY <1>7 DEF BusyIsRunning, Blank, PluggedIsEmpty
<1> QED
    BY <1>5, <1>6, <1>8

\* A flusher is linked next to a work that is queued or runs.
LEMMA LinkFlush ==
    ASSUME LinkInv, TypeOK', NEW c \in Clients, NEW w \in Works, Flush(c, w)
    PROVE  LinkInv'
<1> USE DEF LinkInv
<1>1. PICK q \in Queues : q = wqueue[w]
    BY BusyWork DEF Flush
<1>2. /\ worker[q] \notin {"unborn", "gone"}
      /\ "PLUGGED" \in qflags[q] => "DRAIN" \in qflags[q]
    BY <1>1, BusyWork DEF Flush
<1>3. /\ pending' = [pending EXCEPT ![q] = FlusherPlace(pending[q], w, c)]
      /\ wflags' = [wflags EXCEPT ![c] = {"FLUSHING"}]
      /\ UNCHANGED <<wqueue, qflags, worker, cur>>
    BY <1>1, FlushPlaces DEF Flush, SetPending, workerVars
<1>4. /\ \A v \in Works : wflags'[v] = wflags[v]
      /\ \A p \in Queues : p # q => pending'[p] = pending[p]
      /\ pending'[q] = FlusherPlace(pending[q], w, c)
    BY <1>3, DistinctObjects DEF TypeOK
<1>5. ASSUME NEW v \in Works, NEW p \in Queues
      PROVE  /\ Contains(pending'[p], v) <=> Contains(pending[p], v)
             /\ AtMostOnce(pending[p], v) => AtMostOnce(pending'[p], v)
    <2>1. v # c /\ pending[q] \in Seq(Nodes)
        BY DistinctObjects DEF TypeOK
    <2>2. /\ Contains(FlusherPlace(pending[q], w, c), v) <=> Contains(pending[q], v)
          /\ AtMostOnce(pending[q], v) => AtMostOnce(FlusherPlace(pending[q], w, c), v)
        BY <2>1, FlusherPlaceLinks
    <2> QED
        BY <1>4, <2>2
<1>6. QueuedIsLinked'
    BY <1>3, <1>4, <1>5 DEF QueuedIsLinked
<1>7. RunningIsOwned' /\ CancelingIsRunning'
    BY <1>3, <1>4 DEF RunningIsOwned, CancelingIsRunning
<1>8. BusyIsRunning' /\ Blank' /\ PluggedIsEmpty'
    BY <1>2, <1>3, <1>4 DEF BusyIsRunning, Blank, PluggedIsEmpty
<1> QED
    BY <1>6, <1>7, <1>8

\* The thread takes the first node of its list.
LEMMA LinkTake ==
    ASSUME LinkInv, TypeOK', NEW q \in Queues, Take(q)
    PROVE  LinkInv'
<1> USE DEF LinkInv
<1>1. pending[q] # <<>> /\ worker[q] = "top"
    BY DEF Take, Finds
<1>2. PICK n : n = Head(pending[q])
    OBVIOUS
<1>3. /\ n \in Nodes /\ cur[q] = None /\ n # None
      /\ \A v \in Works : v \in Nodes /\ v # None
    <2>1. n \in Nodes
        BY <1>1, <1>2, HeadTailProperties DEF TypeOK
    <2>2. cur[q] = None
        BY <1>1 DEF BusyIsRunning
    <2> QED
        BY <2>1, <2>2, DistinctObjects DEF Nodes
<1>4. /\ pending' = [pending EXCEPT ![q] = Tail(pending[q])]
      /\ qflags' = [qflags EXCEPT ![q] = @ \cup {"BUSY"}]
      /\ wflags' = [wflags EXCEPT ![n] = TakenFlags(n)]
      /\ cur' = [cur EXCEPT ![q] = n]
      /\ worker' = [worker EXCEPT ![q] = "handler"]
      /\ wqueue' = wqueue
    BY <1>2 DEF Take, SetPending
<1>5. /\ \A p \in Queues : p # q => pending'[p] = pending[p] /\ cur'[p] = cur[p]
      /\ pending'[q] = Tail(pending[q]) /\ cur'[q] = n
      /\ \A v \in Works : v # n => wflags'[v] = wflags[v]
      /\ wflags'[n] = TakenFlags(n)
    BY <1>3, <1>4 DEF TypeOK
<1>6. ASSUME NEW v \in Works
      PROVE  /\ v # n => (Contains(pending'[q], v) <=> Contains(pending[q], v))
             /\ AtMostOnce(pending[q], v) => AtMostOnce(pending'[q], v)
             /\ v = n => Contains(pending[q], v) /\ ~Contains(pending'[q], v)
    <2>1. pending[q] \in Seq(Nodes) /\ AtMostOnce(pending[q], v)
        BY DEF TypeOK, QueuedIsLinked
    <2> QED
        BY <1>1, <1>2, <1>5, <2>1, TailLinks
<1>7. ASSUME n \in Works
      PROVE  /\ "QUEUED" \in wflags[n] /\ wqueue[n] = q
             /\ "RUNNING" \notin wflags[n] /\ "CANCELING" \notin wflags[n]
             /\ \A p \in Queues : cur[p] # n
    <2>1. "QUEUED" \in wflags[n] /\ wqueue[n] = q
        BY <1>6, <1>7 DEF QueuedIsLinked
    <2>2. "RUNNING" \notin wflags[n]
        <3>1. "RUNNING" \in wflags[n] => cur[wqueue[n]] = n
            BY <1>7, <2>1 DEF RunningIsOwned
        <3> QED
            BY <1>3, <2>1, <3>1
    <2>3. \A p \in Queues : cur[p] # n
        BY <1>7, <2>2 DEF RunningIsOwned
    <2>4. "CANCELING" \notin wflags[n]
        BY <1>7, <2>1 DEF CancelingIsRunning
    <2> QED
        BY <2>1, <2>2, <2>3, <2>4
<1>8. QueuedIsLinked'
    <2> SUFFICES ASSUME NEW v \in Works
                 PROVE  /\ "QUEUED" \in wflags'[v] => wqueue[v] \in Queues
                        /\ \A p \in Queues :
                             /\ Contains(pending'[p], v) <=>
                                  "QUEUED" \in wflags'[v] /\ wqueue[v] = p
                             /\ AtMostOnce(pending'[p], v)
        BY <1>4 DEF QueuedIsLinked
    <2>1. CASE v = n
        <3>1. "QUEUED" \notin wflags'[v]
            BY <1>5, <2>1 DEF TakenFlags
        <3>2. ASSUME NEW p \in Queues PROVE ~Contains(pending'[p], v) /\ AtMostOnce(pending'[p], v)
            <4>1. CASE p = q
                BY <1>6, <2>1, <4>1 DEF QueuedIsLinked
            <4>2. CASE p # q
                BY <1>5, <1>7, <2>1, <4>2 DEF QueuedIsLinked
            <4> QED
                BY <4>1, <4>2
        <3> QED
            BY <3>1, <3>2
    <2>2. CASE v # n
        BY <1>5, <1>6, <2>2 DEF QueuedIsLinked
    <2> QED
        BY <2>1, <2>2
<1>9. RunningIsOwned'
    <2> SUFFICES ASSUME NEW v \in Works
                 PROVE  {p \in Queues : cur'[p] = v}
                            = IF "RUNNING" \in wflags'[v] THEN {wqueue[v]} ELSE {}
        BY <1>4 DEF RunningIsOwned
    <2>1. CASE v = n
        <3>1. "RUNNING" \in wflags'[v]
            BY <1>5, <2>1 DEF TakenFlags
        <3>2. \A p \in Queues : cur'[p] = v <=> p = q
            BY <1>5, <1>7, <2>1
        <3> QED
            BY <1>7, <2>1, <3>1, <3>2
    <2>2. CASE v # n
        <3>1. \A p \in Queues : cur'[p] = v <=> cur[p] = v
            BY <1>3, <1>5, <2>2
        <3>2. {p \in Queues : cur'[p] = v} = {p \in Queues : cur[p] = v}
            BY <3>1
        <3> QED
            BY <1>5, <2>2, <3>2 DEF RunningIsOwned
    <2> QED
        BY <2>1, <2>2
<1>10. CancelingIsRunning'
    <2> SUFFICES ASSUME NEW v \in Works, "CANCELING" \in wflags'[v]
                 PROVE  wflags'[v] = {"CANCELING", "RUNNING"}
        BY DEF CancelingIsRunning
    <2>1. v # n
        BY <1>5, <1>7 DEF TakenFlags
    <2> QED
        BY <1>5, <2>1 DEF CancelingIsRunning
<1>11. BusyIsRunning'
    BY <1>3, <1>4, <1>5 DEF BusyIsRunning, TypeOK
<1>12. Blank'
    BY <1>4, <1>5 DEF Blank, TypeOK
<1>13. PluggedIsEmpty'
    <2>1. "PLUGGED" \in qflags[q] => "DRAIN" \in qflags[q]
        BY <1>1 DEF PluggedIsEmpty
    <2> QED
        BY <1>4, <1>5, <2>1 DEF PluggedIsEmpty, TypeOK
<1> QED
    BY <1>8, <1>9, <1>10, <1>11, <1>12, <1>13

\* The handler is back.
LEMMA LinkFinish ==
    ASSUME LinkInv, TypeOK', NEW q \in Queues, Finish(q)
    PROVE  LinkInv'
<1> USE DEF LinkInv
<1>1. PICK n : n = cur[q]
    OBVIOUS
<1>2. /\ worker[q] = "handler" /\ n \in Nodes /\ n # None
      /\ \A v \in Works : v \in Nodes /\ v # None
    BY <1>1, DistinctObjects DEF Finish, BusyIsRunning, TypeOK, Nodes
<1>3. /\ wflags' = [wflags EXCEPT ![n] = FinishedFlags(n)]
      /\ cur' = [cur EXCEPT ![q] = None]
      /\ qflags' = [qflags EXCEPT ![q] = @ \ {"BUSY"}]
      /\ worker' = [worker EXCEPT ![q] = "top"]
      /\ UNCHANGED <<wqueue, pending>>
    BY <1>1 DEF Finish, IdleFlags
<1>4. /\ \A p \in Queues : p # q => cur'[p] = cur[p]
      /\ cur'[q] = None
      /\ \A v \in Works : v # n => wflags'[v] = wflags[v]
      /\ wflags'[n] = wflags[n] \ {"RUNNING", "FLUSHING", "CANCELING"}
    BY <1>2, <1>3 DEF TypeOK, FinishedFlags
<1>5. QueuedIsLinked'
    <2>1. \A v \in Works : "QUEUED" \in wflags'[v] <=> "QUEUED" \in wflags[v]
        BY <1>4
    <2> QED
        BY <1>3, <2>1 DEF QueuedIsLinked
<1>6. RunningIsOwned'
    <2> SUFFICES ASSUME NEW v \in Works
                 PROVE  {p \in Queues : cur'[p] = v}
                            = IF "RUNNING" \in wflags'[v] THEN {wqueue[v]} ELSE {}
        BY <1>3 DEF RunningIsOwned
    <2>1. CASE v = n
        <3>1. \A p \in Queues : cur[p] = v => p = q
            BY <1>1, <2>1 DEF RunningIsOwned
        <3>2. \A p \in Queues : cur'[p] # v
            BY <1>2, <1>4, <3>1
        <3> QED
            BY <1>4, <2>1, <3>2
    <2>2. CASE v # n
        <3>1. \A p \in Queues : cur'[p] = v <=> cur[p] = v
            BY <1>1, <1>2, <1>4, <2>2
        <3>2. {p \in Queues : cur'[p] = v} = {p \in Queues : cur[p] = v}
            BY <3>1
        <3> QED
            BY <1>4, <2>2, <3>2 DEF RunningIsOwned
    <2> QED
        BY <2>1, <2>2
<1>7. CancelingIsRunning'
    <2> SUFFICES ASSUME NEW v \in Works, "CANCELING" \in wflags'[v]
                 PROVE  wflags'[v] = {"CANCELING", "RUNNING"}
        BY DEF CancelingIsRunning
    <2>1. v # n
        BY <1>4
    <2> QED
        BY <1>4, <2>1 DEF CancelingIsRunning
<1>8. BusyIsRunning'
    BY <1>3, <1>4 DEF BusyIsRunning, TypeOK
<1>9. Blank'
    BY <1>3 DEF Blank, TypeOK
<1>10. PluggedIsEmpty'
    <2>1. "PLUGGED" \in qflags[q] => "DRAIN" \in qflags[q]
        BY <1>1, <1>2 DEF PluggedIsEmpty
    <2> QED
        BY <1>3, <1>4, <2>1 DEF PluggedIsEmpty, TypeOK
<1> QED
    BY <1>5, <1>6, <1>7, <1>8, <1>9, <1>10

LEMMA LinkClientStep ==
    ASSUME LinkInv, TypeOK', NEW c \in Clients, ClientNext(c)
    PROVE  LinkInv'
<1> USE DEF queueVars, workerVars, lifeVars
<1>1. ASSUME NEW w \in Works, CancelSync(c, w)
      PROVE  LinkInv'
    BY <1>1, LinkCancel DEF CancelSync
<1>2. ASSUME NEW w \in Works, Flush(c, w)
      PROVE  LinkInv'
    BY <1>2, LinkFlush
<1>3. ASSUME NEW q \in Queues, Start(c, q) \/ Run(c, q)
      PROVE  LinkInv'
    <2>1. Launch(q)
        BY <1>3 DEF Start, Run
    <2>2. pending[q] = <<>> /\ cur[q] = None
        BY <2>1, LaunchFresh
    <2>3. UNCHANGED <<wflags, wqueue, pending, cur>>
        BY <2>1, LaunchFresh
    <2>4. /\ worker'[q] = "top" /\ qflags'[q] = {"STARTED"}
          /\ \A p \in Queues : p # q => worker'[p] = worker[p] /\ qflags'[p] = qflags[p]
        BY <2>1 DEF Launch, LinkInv, TypeOK
    <2> QED
        BY <2>2, <2>3, <2>4, LinkQueueStep
<1>4. ASSUME NEW q \in Queues, NEW plug \in BOOLEAN, BeginDrain(c, q, plug),
             UNCHANGED <<wflags, wqueue, cur, worker>>
      PROVE  LinkInv'
    <2>1. /\ qflags'[q] = qflags[q] \cup DrainFlags(plug)
          /\ \A p \in Queues : p # q => qflags'[p] = qflags[p]
          /\ pending' = pending
          /\ "STARTED" \in qflags[q]
        BY <1>4 DEF BeginDrain, LinkInv, TypeOK
    <2>2. "DRAIN" \in qflags'[q] /\ ("BUSY" \in qflags'[q] <=> "BUSY" \in qflags[q])
        BY <2>1 DEF DrainFlags
    <2> QED
        BY <1>4, <2>1, <2>2, LinkQueueStep DEF LinkInv, BusyIsRunning, Blank
<1>5. ASSUME NEW q \in Queues, AskStop(q), Stoppable(q),
             UNCHANGED <<wflags, wqueue, pending, cur, worker>>
      PROVE  LinkInv'
    <2>1. /\ qflags'[q] = qflags[q] \cup {"STOP"}
          /\ \A p \in Queues : p # q => qflags'[p] = qflags[p]
          /\ "STARTED" \in qflags[q]
        BY <1>5 DEF AskStop, Stoppable, LinkInv, TypeOK
    <2> QED
        BY <1>5, <2>1, LinkQueueStep DEF LinkInv, BusyIsRunning, Blank, PluggedIsEmpty
<1>6. ASSUME UNCHANGED <<wflags, wqueue, pending, cur, worker, qflags>>
      PROVE  LinkInv'
    BY <1>6 DEF LinkInv, QueuedIsLinked, RunningIsOwned, CancelingIsRunning,
         BusyIsRunning, Blank, PluggedIsEmpty
<1>7. ASSUME NEW q \in Queues, Destroy(c, q)
      PROVE  LinkInv'
    <2>1. CASE "STARTED" \in qflags[q]
        <3>1. BeginDrain(c, q, TRUE) /\ UNCHANGED <<wflags, wqueue, cur, worker>>
            BY <1>7, <2>1 DEF Destroy
        <3> QED
            BY <1>4, <3>1
    <2>2. CASE "STARTED" \notin qflags[q]
        BY <1>6, <1>7, <2>2 DEF Destroy
    <2> QED
        BY <2>1, <2>2
<1>8. ASSUME NEW q \in Queues, NEW plug \in BOOLEAN, Drain(c, q, plug)
      PROVE  LinkInv'
    BY <1>4, <1>8 DEF Drain
<1>9. ASSUME NEW q \in Queues, NEW how \in {"stop", "stop_for"}, Stop(c, q, how)
      PROVE  LinkInv'
    BY <1>5, <1>9 DEF Stop
<1>10. ASSUME FlushReturn(c) \/ CancelReturn(c) \/ DrainReturn(c) \/ StopReturn(c)
                \/ StopForReturn(c) \/ RunReturn(c) \/ DestroyReturn(c)
       PROVE  LinkInv'
    BY <1>6, <1>10 DEF FlushReturn, CancelReturn, SemTaken, DrainReturn, TokenTaken,
         StopReturn, StopForReturn, RunReturn, DestroyReturn
<1>11. ASSUME DestroyDrained(c)
       PROVE  LinkInv'
    <2>1. UNCHANGED <<wflags, wqueue, pending, cur, worker>>
        BY <1>11 DEF DestroyDrained, TokenTaken
    <2>2. CASE Stoppable(on[c])
        <3>1. AskStop(on[c])
            BY <1>11, <2>2 DEF DestroyDrained
        <3>2. CASE on[c] \in Queues
            BY <1>5, <2>1, <2>2, <3>1, <3>2
        <3>3. CASE on[c] \notin Queues
            <4>1. qflags' = qflags
                BY <3>1, <3>3 DEF AskStop, LinkInv, TypeOK
            <4> QED
                BY <1>6, <2>1, <4>1
        <3> QED
            BY <3>2, <3>3
    <2>3. CASE ~Stoppable(on[c])
        BY <1>6, <1>11, <2>1, <2>3 DEF DestroyDrained
    <2> QED
        BY <2>2, <2>3
<1> QED
    BY <1>1, <1>2, <1>3, <1>7, <1>8, <1>9, <1>10, <1>11 DEF ClientNext

LEMMA LinkThreadStep ==
    ASSUME LinkInv, TypeOK', NEW t \in Threads, ThreadNext(t)
    PROVE  LinkInv'
<1> USE DEF queueVars, workerVars, lifeVars
<1>1. ASSUME NEW w \in Works, NEW q \in Queues, Submit(t, w, q)
      PROVE  LinkInv'
    <2>1. SubmitLocked(t, w, Target(w, q))
        BY <1>1 DEF Submit
    <2>2. Target(w, q) \in Queues /\ ("RUNNING" \in wflags[w] => Target(w, q) = wqueue[w])
        BY BusyWork DEF Target
    <2> QED
        BY <2>1, <2>2, LinkSubmit
<1>2. ASSUME NEW w \in Works, Resubmit(t, w)
      PROVE  LinkInv'
    <2>1. wqueue[w] \in Queues
        BY <1>2 DEF Resubmit, LinkInv, TypeOK
    <2> QED
        BY <1>2, <2>1, LinkSubmit DEF Resubmit
<1>3. ASSUME NEW w \in Works, Cancel(t, w)
      PROVE  LinkInv'
    BY <1>3, LinkCancel DEF Cancel
<1>4. ASSUME NEW w \in Works, NEW h \in Handlers, SetHandler(t, w, h)
      PROVE  LinkInv'
    BY <1>4 DEF SetHandler, LinkInv, QueuedIsLinked, RunningIsOwned, CancelingIsRunning,
         BusyIsRunning, Blank, PluggedIsEmpty
<1>5. ASSUME NEW q \in Queues, Unplug(t, q)
      PROVE  LinkInv'
    <2>1. /\ "PLUGGED" \in qflags[q]
          /\ qflags'[q] = qflags[q] \ {"PLUGGED"}
          /\ \A p \in Queues : p # q => qflags'[p] = qflags[p]
          /\ UNCHANGED <<wflags, wqueue, pending, cur, worker>>
        BY <1>5 DEF Unplug, LinkInv, TypeOK
    <2> QED
        BY <2>1, LinkQueueStep DEF LinkInv, BusyIsRunning, Blank
<1> QED
    BY <1>1, <1>2, <1>3, <1>4, <1>5 DEF ThreadNext

LEMMA LinkWorkerStep ==
    ASSUME LinkInv, TypeOK', NEW q \in Queues, WorkerStep(q) \/ Throw(q)
    PROVE  LinkInv'
<1> USE DEF queueVars, workerVars, lifeVars
<1>1. CASE Take(q)
    BY <1>1, LinkTake
<1>2. CASE Finish(q)
    BY <1>2, LinkFinish
<1>3. ASSUME worker[q] \in {"top", "wait"}
      PROVE  /\ cur[q] = None
             /\ "BUSY" \notin qflags[q]
             /\ pending[q] = <<>> => Finds(q) # "work"
    BY <1>3 DEF LinkInv, BusyIsRunning, Finds
<1>4. CASE AnswerDrain(q)
    <2>1. /\ worker'[q] = "wait" /\ qflags'[q] = qflags[q] \ {"DRAIN"}
          /\ \A p \in Queues : p # q => worker'[p] = worker[p] /\ qflags'[p] = qflags[p]
          /\ UNCHANGED <<wflags, wqueue, pending, cur>>
          /\ pending[q] = <<>>
        BY <1>4 DEF AnswerDrain, Finds, LinkInv, TypeOK
    <2>2. cur[q] = None /\ "BUSY" \notin qflags[q]
        BY <1>3, <1>4 DEF AnswerDrain
    <2> QED
        BY <2>1, <2>2, LinkQueueStep
<1>5. CASE Quit(q)
    <2>1. /\ worker'[q] = "gone" /\ qflags'[q] = {}
          /\ \A p \in Queues : p # q => worker'[p] = worker[p] /\ qflags'[p] = qflags[p]
          /\ UNCHANGED <<wflags, wqueue, pending, cur>>
          /\ pending[q] = <<>>
        BY <1>5 DEF Quit, Finds, LinkInv, TypeOK
    <2>2. cur[q] = None
        BY <1>3, <1>5 DEF Quit
    <2> QED
        BY <2>1, <2>2, LinkQueueStep
<1>6. CASE Sleep(q) \/ Wake(q)
    <2>1. /\ worker'[q] \in {"top", "wait"} /\ qflags' = qflags
          /\ \A p \in Queues : p # q => worker'[p] = worker[p]
          /\ UNCHANGED <<wflags, wqueue, pending, cur>>
        BY <1>6 DEF Sleep, Wake, LinkInv, TypeOK
    <2>2. cur[q] = None /\ "BUSY" \notin qflags[q]
        BY <1>3, <1>6 DEF Sleep, Wake
    <2> QED
        BY <2>1, <2>2, LinkQueueStep DEF LinkInv, PluggedIsEmpty
<1>7. CASE Throw(q)
    <2>1. /\ worker[q] = "handler" /\ worker'[q] = "dead" /\ qflags' = qflags
          /\ \A p \in Queues : p # q => worker'[p] = worker[p]
          /\ UNCHANGED <<wflags, wqueue, pending, cur>>
        BY <1>7 DEF Throw, LinkInv, TypeOK
    <2> QED
        BY <2>1, LinkQueueStep DEF LinkInv, BusyIsRunning, PluggedIsEmpty
<1> QED
    BY <1>1, <1>2, <1>4, <1>5, <1>6, <1>7 DEF WorkerStep

\* LinkInv is an invariant: the flags of works and queues always agree with
\* the lists and with what the threads run.
THEOREM LinkCorrect ==
    ASSUME "no_relaunch" \in Discipline
    PROVE  Spec => []LinkInv
<1>1. Init => LinkInv
    BY LinkInit
<1>2. LinkInv /\ [Next]_vars => LinkInv'
    <2> SUFFICES ASSUME LinkInv, [Next]_vars
                 PROVE  LinkInv'
        OBVIOUS
    <2>1. TypeOK'
        BY TypeStep DEF LinkInv
    <2>2. CASE UNCHANGED vars
        BY <2>2 DEF vars, queueVars, workerVars, LinkInv, TypeOK, QueuedIsLinked,
             RunningIsOwned, CancelingIsRunning, BusyIsRunning, Blank, PluggedIsEmpty,
             lifeVars, callVars, ghostVars
    <2> QED
        BY <2>1, <2>2, LinkClientStep, LinkThreadStep, LinkWorkerStep DEF Next
<1> QED
    BY <1>1, <1>2, PTL DEF Spec

\* The list of a queue holds exactly the works that are queued there, once.
THEOREM QueuedIsLinkedCorrect ==
    ASSUME "no_relaunch" \in Discipline
    PROVE  Spec => []QueuedIsLinked
    BY LinkCorrect, PTL DEF LinkInv

\* No work is ever run by two threads, or by another thread than its queue's.
THEOREM RunningIsOwnedCorrect ==
    ASSUME "no_relaunch" \in Discipline
    PROVE  Spec => []RunningIsOwned
    BY LinkCorrect, PTL DEF LinkInv

\* A work that is being cancelled runs and is not queued again.
THEOREM CancelingIsRunningCorrect ==
    ASSUME "no_relaunch" \in Discipline
    PROVE  Spec => []CancelingIsRunning
    BY LinkCorrect, PTL DEF LinkInv

\* BUSY follows the handlers.
THEOREM BusyIsRunningCorrect ==
    ASSUME "no_relaunch" \in Discipline
    PROVE  Spec => []BusyIsRunning
    BY LinkCorrect, PTL DEF LinkInv

\* A plugged queue whose drain is over is empty and idle, whatever handlers
\* and clients did meanwhile.
THEOREM PluggedIsEmptyCorrect ==
    ASSUME "no_relaunch" \in Discipline
    PROVE  Spec => []PluggedIsEmpty
    BY LinkCorrect, PTL DEF LinkInv

\* Flags, lists and threads agree, for any number of queues, works and threads.
THEOREM FlagsAgreeCorrect ==
    ASSUME "no_relaunch" \in Discipline
    PROVE  Spec => []FlagsAgree
    BY LinkCorrect, PTL DEF LinkInv, FlagsAgree

\* Nothing is left on a queue whose thread has quit.
THEOREM GoneIsQuietCorrect ==
    ASSUME "no_relaunch" \in Discipline
    PROVE  Spec => []GoneIsQuiet
<1>1. LinkInv => GoneIsQuiet
    <2> SUFFICES ASSUME LinkInv PROVE GoneIsQuiet
        OBVIOUS
    <2>1. \A w \in Works : wflags[w] # {} => worker[wqueue[w]] \notin {"unborn", "gone"}
        BY BusyWork
    <2> QED
        BY <2>1 DEF LinkInv, Blank, GoneIsQuiet
<1> QED
    BY <1>1, LinkCorrect, PTL

\* The handler that a thread copied is that of the work it runs: nobody replaces
\* the handler of a work that has a flag.
LEMMA HandlerStep ==
    ASSUME TypeOK, LinkInv, RunsItsHandler, [Next]_vars
    PROVE  RunsItsHandler'
<1> USE DEF RunsItsHandler
<1>1. ASSUME UNCHANGED <<handler, cur, running>>
      PROVE  RunsItsHandler'
    BY <1>1
<1>2. ASSUME NEW t \in Threads, NEW w \in Works, NEW h \in Handlers, SetHandler(t, w, h)
      PROVE  RunsItsHandler'
    <2>1. \A q \in Queues : cur[q] # w
        BY <1>2 DEF SetHandler, HandlerMayChange, LinkInv, RunningIsOwned
    <2> QED
        BY <1>2, <2>1 DEF SetHandler, workerVars, TypeOK
<1>3. ASSUME NEW q \in Queues, Take(q)
      PROVE  RunsItsHandler'
    BY <1>3 DEF Take, TypeOK, lifeVars
<1>4. ASSUME NEW q \in Queues, Finish(q)
      PROVE  RunsItsHandler'
    <2>1. cur'[q] \notin Works
        BY <1>4, DistinctObjects DEF Finish, TypeOK
    <2> QED
        BY <1>4, <2>1 DEF Finish, TypeOK
<1>5. ASSUME NEW c \in Clients, ClientNext(c)
      PROVE  RunsItsHandler'
    <2>1. ASSUME NEW q \in Queues, Start(c, q) \/ Run(c, q)
          PROVE  RunsItsHandler'
        <3>1. Launch(q)
            BY <2>1 DEF Start, Run
        <3>2. cur'[q] \notin Works
            BY <3>1, DistinctObjects DEF Launch, TypeOK
        <3> QED
            BY <3>1, <3>2 DEF Launch, TypeOK
    <2>2. CASE ~ \E q \in Queues : Start(c, q) \/ Run(c, q)
        <3>1. UNCHANGED <<handler, cur, running>>
            BY <1>5, <2>2 DEF ClientNext, CancelSync, Flush, Destroy, Drain, Stop, FlushReturn,
                 CancelReturn, DrainReturn, StopReturn, StopForReturn, RunReturn,
                 DestroyDrained, DestroyReturn, CancelAsync, TokenTaken, SemTaken, workerVars
        <3> QED
            BY <1>1, <3>1
    <2> QED
        BY <2>1, <2>2
<1>6. ASSUME NEW t \in Threads, ThreadNext(t)
      PROVE  RunsItsHandler'
    BY <1>1, <1>2, <1>6 DEF ThreadNext, Submit, Resubmit, Cancel, Unplug, SubmitLocked, workerVars
<1>7. ASSUME NEW q \in Queues, WorkerStep(q) \/ Throw(q)
      PROVE  RunsItsHandler'
    BY <1>1, <1>3, <1>4, <1>7 DEF WorkerStep, AnswerDrain, Quit, Sleep, Wake, Throw, workerVars
<1>8. CASE UNCHANGED vars
    BY <1>1, <1>8 DEF vars, workerVars
<1> QED
    BY <1>1, <1>5, <1>6, <1>7, <1>8 DEF Next

\* A work is run by one thread, its queue's, and with its handler.
THEOREM OneHandlerRunsCorrect ==
    ASSUME "no_relaunch" \in Discipline
    PROVE  Spec => []OneHandlerRuns
<1>1. Init => RunsItsHandler
    BY DistinctObjects DEF Init, RunsItsHandler
<1>2. TypeOK /\ LinkInv /\ RunsItsHandler /\ [Next]_vars => RunsItsHandler'
    BY HandlerStep
<1> QED
    BY <1>1, <1>2, TypeCorrect, LinkCorrect, PTL DEF Spec, OneHandlerRuns, LinkInv

=============================================================================
