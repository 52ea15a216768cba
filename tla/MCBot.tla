-------------------------------- MODULE MCBot --------------------------------
(* Bots on the map of the game, in its units. *)
EXTENDS Bot, GameMap

Start(t, p, l, r) == [team |-> t, pos |-> p, latency |-> l, raider |-> r]

(* From every spawn point with up to three ticks of latency; and, without  *)
(* latency, from three of them while an enemy stands behind the pillar in  *)
(* Red's half with the bot's flag.  With latency a hunt can end where two  *)
(* ways are equally long and the bot stays between them: see README.md.    *)
AllStarts ==
  UNION {{Start(t, p, l, Nowhere) : p \in SpawnPoints[t], l \in 0 .. 3}
         : t \in Team}
  \cup {Start(t, p, 0, TileToFp(10, 14)) : t \in {"Red"},
        p \in {TileToFp(2, 5), TileToFp(1, 12), TileToFp(3, 14)}}
  \cup {Start("Blue", TileToFp(37, 9), 0, TileToFp(10, 14))}

ASSUME MapOfTheGame == Connected /\ Walkable
=============================================================================
