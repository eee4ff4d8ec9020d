----------------------------- MODULE BoundedFifo -----------------------------
(***************************************************************************)
(* What a ring buffer promises: a queue of at most Capacity elements that  *)
(* hands every element put into it to the reader, once and in order.       *)
(***************************************************************************)
EXTENDS Naturals, Sequences

CONSTANTS Value, Capacity

VARIABLES
  queue,     \* the elements put in and not yet taken out
  delivered  \* the elements taken out, in order

vars == <<queue, delivered>>

Init == queue = <<>> /\ delivered = <<>>

Put(v) ==
  /\ Len(queue) < Capacity
  /\ queue' = Append(queue, v)
  /\ UNCHANGED delivered

Take ==
  /\ queue # <<>>
  /\ delivered' = Append(delivered, Head(queue))
  /\ queue' = Tail(queue)

Next == Take \/ \E v \in Value : Put(v)

Spec == Init /\ [][Next]_vars
=============================================================================
