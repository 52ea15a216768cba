------------------------------ MODULE FlowField ------------------------------
(***************************************************************************)
(* The bots' navigation (bot/flow_field.cpp): distances in tiles from a    *)
(* goal, and the buttons that walk downhill in them.                       *)
(***************************************************************************)
EXTENDS Arena, Sequences, FiniteSetsExt

CONSTANT Farthest     \* bound: no tile is further from a goal

Unreachable == 65535   \* kUnreachable

ASSUME FlowFieldAssumption == Farthest \in Nat /\ Farthest < Unreachable

Margin == (TileFp - BoxFp) \div 2
AlignTol == TileFp \div 8

Tiles == (0 .. Width - 1) \X (0 .. Height - 1)
Cardinal == {<<1, 0>>, <<-1, 0>>, <<0, 1>>, <<0, -1>>}
Plus(t, d) == <<t[1] + d[1], t[2] + d[2]>>

Clamp(v, n) == IF v < 0 THEN 0 ELSE IF v >= n THEN n - 1 ELSE v
TileOf(p) == <<Clamp(ToTile(p[1]), Width), Clamp(ToTile(p[2]), Height)>>

Centered(t) == <<t[1] * TileFp + Margin, t[2] * TileFp + Margin>>

Passable == {t \in Tiles : ~IsWall(t) /\ ~Collides(Centered(t))}
TilePassable(t) == t \in Passable

Neighbours(t) == {Plus(t, d) : d \in Cardinal}

(* dist_at *)
DistAt(f, t) == IF InGrid(t) THEN f[t] ELSE Unreachable

(* Mutant: diagonal neighbours count as one step. *)
NextLayerAllAround(f, n) ==
  {t \in Passable : f[t] = Unreachable
     /\ \E d \in Axis \X Axis : DistAt(f, Plus(t, d)) = n}

(* The open tiles next to those at distance n, and not visited yet. *)
NextLayer(f, n) ==
  {t \in Passable :
     f[t] = Unreachable /\ \E u \in Neighbours(t) : DistAt(f, u) = n}

(* build: breadth-first search from the tile of source.  The queue is      *)
(* first-in first-out, so it holds the tiles of one distance and then      *)
(* those of the next.                                                      *)
Build(source) ==
  LET Search[n \in 0 .. Farthest] ==
        IF n = 0
        THEN [t \in Tiles |-> IF t = TileOf(source) /\ TilePassable(t)
                              THEN 0 ELSE Unreachable]
        ELSE LET f == Search[n - 1]
                 layer == NextLayer(f, n - 1)
                 next == [t \in Tiles |-> IF t \in layer THEN n ELSE f[t]]
             IN  IF next = f THEN f ELSE next   \* equal: the queue is empty
  IN  Search[Farthest]

(* axis_feasible: the box itself can take a step this way. *)
Feasible(p, d) == ~Collides(Moved(p, d[1] * Speed, d[2] * Speed))

(* Mutant: any open neighbour will do. *)
DescendingAny(f, p) ==
  {d \in Cardinal : TilePassable(Plus(TileOf(p), d)) /\ Feasible(p, d)}

(* The cardinal directions that lead downhill and are open right now. *)
Descending(f, p) ==
  LET t == TileOf(p)
  IN  {d \in Cardinal :
         /\ TilePassable(Plus(t, d))
         /\ DistAt(f, Plus(t, d)) < DistAt(f, t)
         /\ Feasible(p, d)}

(* The best of the directions of one axis; right and down are tried first. *)
Best(f, p, ds) ==
  IF ds = {} THEN <<0, 0>>
  ELSE CHOOSE d \in ds :
         \A e \in ds \ {d} :
           LET here == DistAt(f, Plus(TileOf(p), d))
               there == DistAt(f, Plus(TileOf(p), e))
           IN  here < there \/ (here = there /\ d[1] + d[2] > e[1] + e[2])

(* Mutant: the box is not moved to the middle of its way. *)
TowardCenterNever(p, i) == <<0, 0>>

(* press_toward_center_x and _y, for axis i. *)
TowardCenter(p, i) ==
  LET off == p[i] - Centered(TileOf(p))[i]
      unit(s) == IF i = 1 THEN <<s, 0>> ELSE <<0, s>>
  IN  CASE off < -AlignTol /\ Feasible(p, unit(1)) -> unit(1)
        [] off > AlignTol /\ Feasible(p, unit(-1)) -> unit(-1)
        [] OTHER -> <<0, 0>>

(* steer: downhill, re-centering across the way; wedged, towards the       *)
(* center; nothing at the goal or where the field does not reach.          *)
Steer(f, p) ==
  LET ds == Descending(f, p)
      x == Best(f, p, {d \in ds : d[2] = 0})
      y == Best(f, p, {d \in ds : d[1] = 0})
      none == <<0, 0>>
  IN  CASE DistAt(f, TileOf(p)) \in {0, Unreachable} -> none
        [] x # none /\ y # none -> Plus(x, y)
        [] x # none /\ y = none -> Plus(x, TowardCenter(p, 2))
        [] x = none /\ y # none -> Plus(TowardCenter(p, 1), y)
        [] OTHER -> IF TowardCenter(p, 2) # none
                    THEN TowardCenter(p, 2) ELSE TowardCenter(p, 1)
=============================================================================
