------------------------------ MODULE MCWorkQ ------------------------------
(***************************************************************************)
(* Instances of WorkQ for TLC: model values for the objects, and the sets  *)
(* of calls each configuration lets the program make.                      *)
(***************************************************************************)
EXTENDS WorkQ

\* For the safety runs only.
Symmetry ==
    Permutations(Queues) \cup Permutations(Works) \cup Permutations(Clients)
        \cup Permutations(Handlers)

=============================================================================
