------------------------------ MODULE MCTcpOut ------------------------------
EXTENDS TcpOut

(* LOBBY_STATE, MATCH_END and JOIN_REJECT, each with as much of a body as  *)
(* tells them apart.                                                       *)
LobbyStateMsg == [type |-> 4, body |-> <<0, 1>>]
MatchEndMsg == [type |-> 17, body |-> <<2>>]
JoinRejectMsg == [type |-> 3, body |-> <<1>>]
Events == {LobbyStateMsg, MatchEndMsg}
=============================================================================
