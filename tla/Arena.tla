-------------------------------- MODULE Arena --------------------------------
(***************************************************************************)
(* The tile grid and the physics step, in the fixed-point units of the     *)
(* code (shared/map.cpp, shared/movement.cpp).  A position is the upper    *)
(* left corner of a player's box, <<x, y>>; the movement buttons are a     *)
(* direction, one of -1, 0 and 1 on each axis.                             *)
(***************************************************************************)
EXTENDS Integers

CONSTANTS
  Width, Height,  \* kMapWidthTiles, kMapHeightTiles
  Wall,           \* the tiles that are walls
  TileFp,         \* kTileSizePx * kFixedScale
  BoxFp,          \* kPlayerSizePx * kFixedScale
  Speed,          \* kMoveSpeedFpPerTick
  Diagonal        \* kDiagonalFactorNum, in 1/256

ASSUME ArenaAssumption ==
  /\ {Width, Height, TileFp, BoxFp, Speed, Diagonal} \subseteq Nat \ {0}
  /\ BoxFp <= TileFp

Axis == {-1, 0, 1}

(* tile_at: whatever is outside of the grid is wall. *)
InGrid(t) == t[1] \in 0 .. Width - 1 /\ t[2] \in 0 .. Height - 1
IsWall(t) == ~InGrid(t) \/ t \in Wall

(* Division of the code's integers: towards zero. *)
ToTile(v) == IF v >= 0 THEN v \div TileFp ELSE -((-v) \div TileFp)

(* aabb_collides: the box covers a wall.  It is half open: a box flush     *)
(* with a tile does not touch it.                                          *)
Collides(p) ==
  \E x \in ToTile(p[1]) .. ToTile(p[1] + BoxFp - 1),
     y \in ToTile(p[2]) .. ToTile(p[2] + BoxFp - 1) : IsWall(<<x, y>>)

Moved(p, dx, dy) == <<p[1] + dx, p[2] + dy>>

(* Speed along one axis; the shift of fp_mul rounds down, so that a        *)
(* diagonal step up or left is longer by one unit.                         *)
Velocity(a, other) ==
  IF a # 0 /\ other # 0 THEN (a * Speed * Diagonal) \div 256 ELSE a * Speed

(* movement_step: X is resolved fully, then Y from where X ended. *)
AlongX(p, b) ==
  LET q == Moved(p, Velocity(b[1], b[2]), 0) IN IF Collides(q) THEN p ELSE q
AlongY(p, b) ==
  LET q == Moved(p, 0, Velocity(b[2], b[1])) IN IF Collides(q) THEN p ELSE q

(* Mutant: Y is resolved from where the step began. *)
MovementStepApart(p, b) == <<AlongX(p, b)[1], AlongY(p, b)[2]>>

MovementStep(p, b) == AlongY(AlongX(p, b), b)

(* aabb_overlap (server/sim.cpp). *)
Overlaps(p, q) ==
  \A i \in {1, 2} : p[i] < q[i] + BoxFp /\ p[i] + BoxFp > q[i]
=============================================================================
