---------------------------- MODULE BoundedQueue ----------------------------
(***************************************************************************)
(* What a sirv_gnrl buffer promises to the stages on its two sides: a      *)
(* queue of at most Capacity values, at most one in and one out per cycle. *)
(* PassThrough says whether a full queue takes a value in the very cycle   *)
(* in which it gives one away.                                             *)
(***************************************************************************)
EXTENDS Integers, Sequences

CONSTANTS Capacity, Values, PassThrough

VARIABLE queue

Init == queue = <<>>

Enq(v) == /\ Len(queue) < Capacity
          /\ queue' = Append(queue, v)

Deq == /\ queue # <<>>
       /\ queue' = Tail(queue)

EnqDeq(v) == /\ queue # <<>>
             /\ Len(queue) < Capacity \/ PassThrough
             /\ queue' = Append(Tail(queue), v)

Next == \/ \E v \in Values : Enq(v) \/ EnqDeq(v)
        \/ Deq

Spec == Init /\ [][Next]_queue
=============================================================================
