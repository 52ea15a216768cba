------------------------------- MODULE GameMap -------------------------------
(***************************************************************************)
(* The map of the game (shared/map.cpp, shared/game_config.h).             *)
(***************************************************************************)
EXTENDS Integers

MapWidth == 40
MapHeight == 25
FixedScale == 256
TileSize == 32 * FixedScale
PlayerSize == 24 * FixedScale
MoveSpeed == 1365
DiagonalFactor == 181

In(t, x1, x2, y1, y2) == t[1] \in x1 .. x2 /\ t[2] \in y1 .. y2

(* kMapRows: the border, the two long walls with their gaps, the pillars. *)
MapWalls ==
  {t \in (0 .. 39) \X (0 .. 24) :
     \/ t[1] \in {0, 39} \/ t[2] \in {0, 24}
     \/ t[2] \in {8, 16} /\ t[1] \notin (11 .. 14) \cup (25 .. 28)
     \/ \E x \in {4, 32}, y \in {3, 18} : In(t, x, x + 3, y, y + 3)
     \/ \E y \in {3, 18} : In(t, 19, 20, y, y + 3)
     \/ \E x \in {8, 28} : In(t, x, x + 3, 11, 13)}

(* tile_to_fp *)
TileToFp(x, y) == <<x * TileSize, y * TileSize>>

Bases == [Red |-> TileToFp(2, 12), Blue |-> TileToFp(37, 12)]

RedSpawnTiles == {<<2, 5>>, <<2, 7>>, <<2, 9>>, <<2, 11>>, <<2, 13>>,
                  <<1, 12>>, <<3, 10>>, <<3, 14>>, <<1, 9>>, <<1, 15>>}

(* Blue's are the mirror image. *)
SpawnPoints ==
  [Red |-> {TileToFp(t[1], t[2]) : t \in RedSpawnTiles},
   Blue |-> {TileToFp(39 - t[1], t[2]) : t \in RedSpawnTiles}]
=============================================================================
