----------------------------- MODULE MCPlayback ------------------------------
(* A small instance of Playback: two players who come and go. *)
EXTENDS Playback

Still == [pos |-> 0, hp |-> 0]
Hurt == [pos |-> 1, hp |-> 1]    \* on the wire, only hp differs from Still
Moved == [pos |-> 2, hp |-> 0]   \* only pos differs

World(s, f) == [score |-> s, players |-> f]

(* Between these one field changes, or several; in one slot of two, or in  *)
(* the only one; and slots are filled, emptied and change hands.           *)
MCWorlds ==
  {World(0, [i \in {0} |-> Hurt]),
   World(0, [i \in {1} |-> Moved]),
   World(0, [i \in {0, 1} |-> Still]),
   World(0, [i \in {0, 1} |-> IF i = 0 THEN Still ELSE Moved]),
   World(1, [i \in {0, 1} |-> Still])}

MCBodies == {Still, Hurt, Moved}
=============================================================================
