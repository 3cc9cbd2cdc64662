---------------------------- MODULE BoundedFifo -----------------------------
(***************************************************************************)
(* What a channel promises: a queue that takes a message when it is not    *)
(* full and delivers the oldest one when it is not empty.                  *)
(***************************************************************************)
EXTENDS Naturals, Sequences

CONSTANTS Capacity, Message, NoMessage

VARIABLES
  queue,      \* the messages in the channel
  delivered   \* the one that came out last

Init == queue = <<>> /\ delivered = NoMessage

Accept(m) ==
  /\ Len(queue) < Capacity
  /\ queue' = Append(queue, m)
  /\ UNCHANGED delivered

Deliver ==
  /\ queue # <<>>
  /\ queue' = Tail(queue)
  /\ delivered' = Head(queue)

Next == Deliver \/ \E m \in Message : Accept(m)

Spec == Init /\ [][Next]_<<queue, delivered>>

=============================================================================
