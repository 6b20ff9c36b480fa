--------------------------- MODULE MCBoundedQueue ---------------------------
(***************************************************************************)
(* An instance of BoundedQueue for TLC.                                    *)
(***************************************************************************)
EXTENDS BoundedQueue

=============================================================================
