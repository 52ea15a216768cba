----------------------------- MODULE MCPipeline -----------------------------
EXTENDS Pipeline

(* MATCH_END and another event, each with as much of a body as tells them  *)
(* apart.                                                                  *)
RespawnedMsg == [type |-> 12, body |-> <<0, 1>>]
MatchEndMsg == [type |-> 17, body |-> <<2>>]
Events == {RespawnedMsg, MatchEndMsg}
=============================================================================
