----------------------------- MODULE WorkService -----------------------------
(***************************************************************************)
(* What the work queues promise, without locks, tokens or flushers: every  *)
(* queue has a line of works and executes the first of the line, one at a  *)
(* time; a work stands in at most one line, and it is executed by at most  *)
(* one queue; a work that executes may stand only in the line of the queue *)
(* that executes it, and nowhere once it is condemned (cancelled).         *)
(***************************************************************************)
EXTENDS SequencesExt

CONSTANTS Queues, Works, None

VARIABLES
    line,       \* per queue, the works submitted and not yet begun
    exec,       \* per queue, the work it executes or None
    condemned   \* executing works that were cancelled

vars == <<line, exec, condemned>>

Init ==
    /\ line = [q \in Queues |-> <<>>]
    /\ exec = [q \in Queues |-> None]
    /\ condemned = {}

\* A submission joins the end of a line.
Accept(w, q) ==
    /\ w \notin condemned
    /\ \A p \in Queues : ~ Contains(line[p], w)
    /\ \A p \in Queues : exec[p] = w => p = q
    /\ line' = [line EXCEPT ![q] = Append(@, w)]
    /\ UNCHANGED <<exec, condemned>>

\* A cancellation withdraws the work from its line; if the work executes, it
\* is condemned: nothing is accepted for it until the execution ends.
CancelWork(w) ==
    /\ line' = [q \in Queues |-> RemoveFirst(line[q], w)]
    /\ condemned' = IF \E q \in Queues : exec[q] = w
                    THEN condemned \cup {w} ELSE condemned
    /\ UNCHANGED exec

Begin(q) ==
    /\ line[q] # <<>>
    /\ exec[q] = None
    /\ exec' = [exec EXCEPT ![q] = Head(line[q])]
    /\ line' = [line EXCEPT ![q] = Tail(@)]
    /\ UNCHANGED condemned

End(q) ==
    /\ exec[q] # None
    /\ condemned' = condemned \ {exec[q]}
    /\ exec' = [exec EXCEPT ![q] = None]
    /\ UNCHANGED line

Next ==
    \/ \E w \in Works : CancelWork(w) \/ \E q \in Queues : Accept(w, q)
    \/ \E q \in Queues : Begin(q) \/ End(q)

Spec == Init /\ [][Next]_vars

=============================================================================
