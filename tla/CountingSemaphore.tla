-------------------------- MODULE CountingSemaphore --------------------------
(***************************************************************************)
(* What a semaphore promises: a number of units between 0 and Maximum, one *)
(* less per take and one more per give.  A give at the maximum and a take  *)
(* that gives up change nothing.                                           *)
(***************************************************************************)
EXTENDS Naturals

CONSTANTS Maximum, Initially

VARIABLE units

Init == units \in Initially

Take == units > 0 /\ units' = units - 1

Give == units < Maximum /\ units' = units + 1

Next == Take \/ Give

Spec == Init /\ [][Next]_units

=============================================================================
