------------------------------- MODULE Channel -------------------------------
(***************************************************************************)
(* What the outbound queue with its eventfd, the TCP stream, and the two   *)
(* together promise: what is sent is received once and in order, and       *)
(* nothing in between is left out.                                         *)
(***************************************************************************)
EXTENDS Naturals, Sequences

CONSTANT Event

VARIABLES sent, received

Init == sent = <<>> /\ received = <<>>

Send(e) == sent' = Append(sent, e) /\ UNCHANGED received

Receive ==
  /\ Len(received) < Len(sent)
  /\ received' = Append(received, sent[Len(received) + 1])
  /\ UNCHANGED sent

Next == (\E e \in Event : Send(e)) \/ Receive

Spec == Init /\ [][Next]_<<sent, received>>
=============================================================================
