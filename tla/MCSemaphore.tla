----------------------------- MODULE MCSemaphore -----------------------------
(***************************************************************************)
(* Instances of Semaphore for TLC.                                         *)
(***************************************************************************)
EXTENDS Semaphore

\* Nothing to take at first, as in a WorkFlusher; a mutex; a semaphore asked
\* to start with more units than it may have.
MCInitCounts == {0, 1, 3}

=============================================================================
