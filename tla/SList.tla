------------------------------- MODULE SList -------------------------------
(***************************************************************************)
(* data-structures/sys/slist.h and list_gen.h: singly linked lists through *)
(* nodes that their users own.  The memory of all lists and nodes is one   *)
(* record; an operation of the library maps memory to memory.              *)
(***************************************************************************)
EXTENDS Naturals, FiniteSets, Sequences, SequencesExt

CONSTANTS Lists, Nodes, NULL

ASSUME ListAssumption == IsFiniteSet(Nodes) /\ NULL \notin Lists \cup Nodes

VARIABLES
    mem,        \* head and tail of each list, next of each node
    contents,   \* history: the lists that the calls describe
    cursor      \* a SYS_SLIST_FOR_EACH_NODE_SAFE under way, with what it saw

listVars == <<mem, contents, cursor>>

Over == [list |-> NULL, sn |-> NULL, sns |-> NULL, seen |-> <<>>, all |-> <<>>]

ListInit ==
    /\ mem = [head |-> [l \in Lists |-> NULL], tail |-> [l \in Lists |-> NULL],
              next |-> [n \in Nodes |-> NULL]]
    /\ contents = [l \in Lists |-> <<>>]
    /\ cursor = Over

-----------------------------------------------------------------------------
(* The operations, on memory m.                                            *)

SetNext(m, n, to) == [m EXCEPT !.next[n] = to]

PeekNext(m, n) == IF n = NULL THEN NULL ELSE m.next[n]

Emptied(m, l) == [m EXCEPT !.head[l] = NULL, !.tail[l] = NULL]

Prepend(m, l, n) ==
    [SetNext(m, n, m.head[l]) EXCEPT !.head[l] = n, !.tail[l] = IF @ = NULL THEN n ELSE @]

\* Fault: the node keeps the successor it had in another list.
Append_Stale(m, l, n) ==
    IF m.tail[l] = NULL THEN [m EXCEPT !.head[l] = n, !.tail[l] = n]
    ELSE [SetNext(m, m.tail[l], n) EXCEPT !.tail[l] = n]

AppendNode(m, l, n) ==
    LET ended == SetNext(m, n, NULL)
    IN  IF m.tail[l] = NULL THEN [ended EXCEPT !.head[l] = n, !.tail[l] = n]
        ELSE [SetNext(ended, m.tail[l], n) EXCEPT !.tail[l] = n]

AppendList(m, l, head, tail) ==
    IF NULL \in {head, tail} THEN m
    ELSE IF m.tail[l] = NULL THEN [m EXCEPT !.head[l] = head, !.tail[l] = tail]
    ELSE [SetNext(m, m.tail[l], head) EXCEPT !.tail[l] = tail]

MergeList(m, l, other) == Emptied(AppendList(m, l, m.head[other], m.tail[other]), other)

InsertNode(m, l, prev, n) ==
    IF prev = NULL THEN Prepend(m, l, n)
    ELSE IF m.next[prev] = NULL THEN AppendNode(m, l, n)
    ELSE SetNext(SetNext(m, n, m.next[prev]), prev, n)

\* The node that leaves keeps its successor.
GotNode(m, l) ==
    LET n == m.head[l]
    IN  [m EXCEPT !.head[l] = m.next[n], !.tail[l] = IF @ = n THEN m.next[n] ELSE @]

RemoveNode(m, l, prev, n) ==
    LET cut == IF prev = NULL
               THEN [m EXCEPT !.head[l] = m.next[n], !.tail[l] = IF @ = n THEN m.next[n] ELSE @]
               ELSE [SetNext(m, prev, m.next[n]) EXCEPT !.tail[l] = IF @ = n THEN prev ELSE @]
    IN  SetNext(cut, n, NULL)

\* The nodes of a list, by SYS_SLIST_FOR_EACH_NODE: there are no more than
\* there are nodes, unless the list is a circle.
Walk(m, l) ==
    LET at[k \in 0 .. Cardinality(Nodes)] ==
            IF k = 0 THEN m.head[l] ELSE PeekNext(m, at[k - 1])
        Len0 == Cardinality({k \in DOMAIN at : at[k] # NULL})
    IN  [i \in 1 .. Len0 |-> at[i - 1]]

\* sys_slist_find: the node before n, or the last one if n is not there.
Previous(m, l, n) ==
    LET walk == Walk(m, l)
        at == IF n \in ToSet(walk) THEN SelectInSeq(walk, LAMBDA x : x = n) ELSE Len(walk) + 1
    IN  IF at = 1 THEN NULL ELSE walk[at - 1]

FindAndRemove(m, l, n) ==
    IF n \in ToSet(Walk(m, l)) THEN RemoveNode(m, l, Previous(m, l, n), n) ELSE m

-----------------------------------------------------------------------------
(* Callers: a node is in one list at a time, and while one iterates nobody *)
(* else changes a list.                                                    *)

Idle == cursor.list = NULL
Free(n) == \A l \in Lists : n \notin ToSet(contents[l])

Step(m, l, seq) ==
    /\ Idle
    /\ mem' = m
    /\ contents' = [contents EXCEPT ![l] = seq]
    /\ UNCHANGED cursor

Add(l, n) ==
    /\ Free(n)
    /\ \/ Step(Prepend(mem, l, n), l, Cons(n, contents[l]))
       \/ Step(AppendNode(mem, l, n), l, Append(contents[l], n))
       \/ /\ mem.next[n] = NULL
          /\ Step(AppendList(mem, l, n, n), l, Append(contents[l], n))
       \/ \E i \in 1 .. Len(contents[l]) :
             Step(InsertNode(mem, l, contents[l][i], n), l, InsertAt(contents[l], i + 1, n))

GetNode(l) ==
    /\ mem.head[l] # NULL
    /\ Step(GotNode(mem, l), l, Tail(contents[l]))

Unlink(l, n) == Step(FindAndRemove(mem, l, n), l, RemoveFirst(contents[l], n))

Merge(l, other) ==
    /\ Idle /\ l # other
    /\ mem' = MergeList(mem, l, other)
    /\ contents' = [contents EXCEPT ![l] = @ \o contents[other], ![other] = <<>>]
    /\ UNCHANGED cursor

\* The for statement of the safe iteration: sn and the one after it, read
\* before the body runs.
Visit(m, l, n) == [cursor EXCEPT !.list = l, !.sn = n, !.sns = PeekNext(m, n)]

IterateBegin(l) ==
    /\ Idle
    /\ cursor' = [Visit(mem, l, mem.head[l]) EXCEPT !.seen = <<>>, !.all = contents[l]]
    /\ UNCHANGED <<mem, contents>>

\* Fault: the iteration that is not safe reads the next node after the body.
NextNode_Unsafe(m) == PeekNext(m, cursor.sn)

NextNode(m) == cursor.sns

\* The body, which may remove the node, and the next turn.
Iterate(removes) ==
    /\ ~Idle /\ cursor.sn # NULL
    /\ LET l == cursor.list
           n == cursor.sn
           m == IF removes THEN FindAndRemove(mem, l, n) ELSE mem
       IN  /\ mem' = m
           /\ contents' = [contents EXCEPT ![l] = IF removes THEN RemoveFirst(@, n) ELSE @]
           /\ cursor' = [Visit(m, l, NextNode(m)) EXCEPT !.seen = Append(@, n)]

IterateEnd ==
    /\ ~Idle /\ cursor.sn = NULL
    /\ cursor' = Over
    /\ UNCHANGED <<mem, contents>>

ListNext ==
    \/ \E l \in Lists :
          \/ GetNode(l) \/ IterateBegin(l)
          \/ \E n \in Nodes : Add(l, n) \/ Unlink(l, n)
          \/ \E other \in Lists : Merge(l, other)
    \/ \E removes \in BOOLEAN : Iterate(removes)
    \/ IterateEnd

ListSpec == ListInit /\ [][ListNext]_listVars

-----------------------------------------------------------------------------
\* A list is the sequence that the calls made of it: following next from the
\* head meets its nodes in order and ends at the tail, whatever pointers nodes
\* that left other lists still hold; and a safe iteration whose body removes
\* nodes sees each node of the list once.
ListsAgree ==
    /\ \A l \in Lists :
          /\ Walk(mem, l) = contents[l]
          /\ mem.tail[l] = IF contents[l] = <<>> THEN NULL ELSE Last(contents[l])
          /\ contents[l] # <<>> => mem.next[mem.tail[l]] = NULL
    /\ ~Idle /\ cursor.sn = NULL => cursor.seen = cursor.all
=============================================================================
