---------------------------- MODULE BoundedBuffer ----------------------------
(***************************************************************************)
(* What a bounded_queue promises to those who use it: first in, first out, *)
(* never more than Capacity items; when it is full a put waits, gives up   *)
(* or, if the queue overwrites, drops the oldest item.  With Capacity = 1  *)
(* and Overwrite it is the token of a work queue.                          *)
(***************************************************************************)
EXTENDS Naturals, Sequences

CONSTANTS Items, Capacity, Overwrite

VARIABLE queue

Init == queue = <<>>

Put(i) ==
    /\ Len(queue) < Capacity
    /\ queue' = Append(queue, i)

PutOver(i) ==
    /\ Overwrite /\ Len(queue) = Capacity
    /\ queue' = Append(Tail(queue), i)

Get ==
    /\ queue # <<>>
    /\ queue' = Tail(queue)

Clear == queue' = <<>>

Next == Get \/ Clear \/ \E i \in Items : Put(i) \/ PutOver(i)

Spec == Init /\ [][Next]_queue

=============================================================================
