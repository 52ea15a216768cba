------------------------------- MODULE MCLink -------------------------------
EXTENDS Link

(* JOIN_LOBBY, START_REQUEST and HEARTBEAT, with short bodies. *)
JoinLobbyMsg == [type |-> 1, body |-> <<0, 7>>]
StartRequestMsg == [type |-> 5, body |-> <<>>]
HeartbeatMsg == [type |-> 18, body |-> <<1>>]
Requests == {StartRequestMsg, HeartbeatMsg}
=============================================================================
