---------------------------- MODULE BoundedFifo ----------------------------
(***************************************************************************)
(* What a queue between main and an interrupt promises: bytes come out in  *)
(* the order they went in, each once, and a byte is turned away only when  *)
(* the queue is full.                                                      *)
(***************************************************************************)
EXTENDS Integers, Sequences

CONSTANTS Byte, Capacity

VARIABLES
  queue,
  accepted,   \* whether the last byte offered was taken in
  taken       \* the last byte that was taken out

vars == <<queue, accepted, taken>>

Init == queue = <<>> /\ accepted = TRUE /\ taken = 0

Offer(byte) ==
  \/ /\ Len(queue) < Capacity
     /\ queue' = Append(queue, byte) /\ accepted' = TRUE
     /\ UNCHANGED taken
  \/ /\ Len(queue) >= Capacity
     /\ accepted' = FALSE
     /\ UNCHANGED <<queue, taken>>

Take ==
  /\ queue # <<>>
  /\ queue' = Tail(queue) /\ taken' = Head(queue)
  /\ UNCHANGED accepted

Next == Take \/ \E byte \in Byte : Offer(byte)

Spec == Init /\ [][Next]_vars
=============================================================================
