------------------------------ MODULE BotProofs ------------------------------
(***************************************************************************)
(* For every map, box and speed: movement_step keeps a player out of the   *)
(* walls, the breadth-first search of FlowField::build finds distances,    *)
(* whoever is not in a wall is on a tile that it counts as open, and a     *)
(* bot's buttons are buttons, so that the fields have the distance         *)
(* through open tiles wherever a bot gets to.  Where the units fit the map *)
(* (Walkable), a bot that sees where it is never walks away from where it  *)
(* goes: steer has a button, and the step it leads to does not end on a    *)
(* tile that is further.                                                   *)
(***************************************************************************)
EXTENDS Bot, WellFoundedInduction, NaturalsInduction, TLAPS

(* movement_step moves along X only to where the box fits. *)
LEMMA AlongXFits ==
  ASSUME NEW p, NEW b, ~Collides(p)
  PROVE  ~Collides(AlongX(p, b))
BY Zenon DEF AlongX

(* And along Y. *)
LEMMA AlongYFits ==
  ASSUME NEW p, NEW b, ~Collides(p)
  PROVE  ~Collides(AlongY(p, b))
BY Zenon DEF AlongY

(* movement_step: Y starts from where X ended, so the corner is checked. *)
LEMMA StepFits ==
  ASSUME NEW p, NEW b, ~Collides(p)
  PROVE  ~Collides(MovementStep(p, b))
BY AlongXFits, AlongYFits, Zenon DEF MovementStep

(* A bot, or any player moved by movement_step, is never in a wall,        *)
(* whatever map it plays on and whatever it decides.                       *)
THEOREM StaysOutOfWalls == Spec => []NeverInWall
<1>1. Init => NeverInWall
  BY BotAssumption, Zenon DEF Init, NeverInWall
<1>2. NeverInWall /\ [Next]_vars => NeverInWall'
  <2>1. CASE Tick
    <3>1. pos' = MovementStep(pos, BotTick(team, Head(view)))
      BY <2>1, Zenon DEF Tick
    <3>2. QED
      BY <3>1, StepFits, Zenon DEF NeverInWall
  <2>2. CASE RaiderGone
    BY <2>2, Zenon DEF RaiderGone, NeverInWall
  <2>3. CASE UNCHANGED vars
    BY <2>3, Zenon DEF vars, NeverInWall
  <2>4. QED
    BY <2>1, <2>2, <2>3, Zenon DEF Next
<1>3. QED
  BY <1>1, <1>2, PTL DEF Spec

-----------------------------------------------------------------------------
(* The flow field *)

(* A set of natural numbers has a least one.                               *)
LEMMA Least ==
  ASSUME NEW T \in SUBSET Nat, T # {}
  PROVE  \E x \in T : \A y \in T : x <= y
<1>1. PICK x \in T : \A y \in T : ~(<<y, x>> \in OpToRel(<, Nat))
  BY NatLessThanWellFounded, WFMin, Zenon
<1>2. \A y \in T : ~(y < x)
  BY <1>1, Zenon DEF OpToRel
<1>. QED  BY <1>2

(* A set with 0 and with n + 1 for each n in it has all the numbers up to  *)
(* L: the induction behind the search of build.                            *)
LEMMA Induct ==
  ASSUME NEW L \in Nat, NEW G, 0 \in G,
         \A n \in 0 .. L - 1 : n \in G => n + 1 \in G
  PROVE  \A n \in 0 .. L : n \in G
<1>. DEFINE T == {n \in 0 .. L : n \notin G}
<1>. SUFFICES ASSUME T # {}  PROVE FALSE
  BY Zenon
<1>1. T \in SUBSET Nat
  OBVIOUS
<1>2. PICK x \in T : \A y \in T : x <= y
  BY <1>1, Least, Zenon
<1>3. x \in 0 .. L /\ x # 0 /\ x \notin G
  BY Zenon
<1>4. x - 1 \in 0 .. L - 1 /\ (x - 1) + 1 = x /\ ~(x <= x - 1)
  BY <1>3
<1>5. x - 1 \in G
  BY <1>2, <1>4
<1>. QED  BY <1>3, <1>4, <1>5, Zenon

(* The distances before the search, and after the tiles at distance n.     *)
Before(source) ==
  [t \in Tiles |-> IF t = TileOf(source) /\ TilePassable(t)
                   THEN 0 ELSE Unreachable]
Wave(f, n) ==
  LET layer == NextLayer(f, n - 1)
      next == [t \in Tiles |-> IF t \in layer THEN n ELSE f[t]]
  IN  IF next = f THEN f ELSE next

(* The search, layer after layer.                                          *)
Layers(source) ==
  CHOOSE g : g = [n \in 0 .. Farthest |->
    IF n = 0 THEN Before(source) ELSE Wave(g[n - 1], n)]

(* build ends with the last layer.                                         *)
LEMMA BuildIsLayers ==
  ASSUME NEW source  PROVE Build(source) = Layers(source)[Farthest]
BY Zenon DEF Build, Layers, Before, Wave

(* The equation of the search has a solution.                              *)
LEMMA LayersEquation ==
  ASSUME NEW source
  PROVE  /\ Layers(source)[0] = Before(source)
         /\ \A n \in 1 .. Farthest :
              Layers(source)[n] = Wave(Layers(source)[n - 1], n)
<1>. DEFINE L == Farthest
            B == Before(source)
            Solves(g, m) ==
              g = [n \in 0 .. m |-> IF n = 0 THEN B ELSE Wave(g[n - 1], n)]
            G == {m \in 0 .. L : \E g : Solves(g, m)}
<1>0. L \in Nat
  BY FlowFieldAssumption, Zenon
<1>. HIDE DEF L, B
<1>1. 0 \in G
  <2>. DEFINE g == [n \in 0 .. 0 |-> B]
  <2>1. Solves(g, 0)
    OBVIOUS
  <2>. HIDE DEF g, Solves
  <2>2. \E x : Solves(x, 0)
    BY <2>1, Zenon
  <2>. QED  BY <1>0, <2>2
<1>2. ASSUME NEW m \in 0 .. L - 1, m \in G  PROVE m + 1 \in G
  <2>1. PICK g : Solves(g, m)
    BY <1>2, Zenon
  <2>. DEFINE f == [n \in 0 .. m + 1 |->
                      IF n <= m THEN g[n] ELSE Wave(g[m], n)]
  <2>2. \A n \in 0 .. m + 1 : f[n] = IF n = 0 THEN B ELSE Wave(f[n - 1], n)
    <3>. SUFFICES ASSUME NEW n \in 0 .. m + 1
                  PROVE  f[n] = IF n = 0 THEN B ELSE Wave(f[n - 1], n)
      BY Zenon
    <3>1. CASE n = 0
      BY <2>1, <3>1
    <3>2. CASE n \in 1 .. m
      <4>1. f[n] = g[n] /\ f[n - 1] = g[n - 1]
        BY <3>2
      <4>2. g[n] = Wave(g[n - 1], n)
        BY <2>1, <3>2
      <4>. QED  BY <3>2, <4>1, <4>2
    <3>3. CASE n = m + 1
      <4>1. f[n] = Wave(g[m], n) /\ f[n - 1] = g[m]
        BY <3>3
      <4>. QED  BY <3>3, <4>1
    <3>. QED  BY <3>1, <3>2, <3>3
  <2>3. Solves(f, m + 1)
    <3>. HIDE DEF f
    <3>1. f = [n \in 0 .. m + 1 |-> f[n]]
      BY Zenon DEF f
    <3>. QED  BY <2>2, <3>1, Zenon
  <2>. HIDE DEF f, Solves
  <2>4. \E x : Solves(x, m + 1)
    BY <2>3, Zenon
  <2>. QED  BY <1>0, <2>4
<1>3. L \in G
  <2>. HIDE DEF G
  <2>1. \A m \in 0 .. L : m \in G
    BY <1>0, <1>1, <1>2, Induct, Zenon
  <2>. QED  BY <1>0, <2>1
<1>4. PICK g : Solves(g, L)
  BY <1>3, Zenon
<1>5. Solves(Layers(source), L)
  BY <1>4, Zenon DEF Layers, L, B
<1>. QED  BY <1>0, <1>5 DEF L, B

(* A tile of the grid is a pair of coordinates.                            *)
LEMMA GridFact ==
  /\ \A t \in Tiles : InGrid(t)
  /\ \A t \in Tiles : \A u \in Neighbours(t) : InGrid(u) => u \in Tiles
  /\ \A p : InGrid(TileOf(p)) => TileOf(p) \in Tiles
<1>1. \A t \in Tiles : InGrid(t)
  BY Zenon DEF InGrid, Tiles
<1>2. ASSUME NEW x, NEW y, InGrid(<<x, y>>)  PROVE <<x, y>> \in Tiles
  BY <1>2, Zenon DEF InGrid, Tiles
<1>3. \A t \in Tiles : \A u \in Neighbours(t) : InGrid(u) => u \in Tiles
  BY <1>2, Zenon DEF Neighbours, Plus
<1>4. \A p : InGrid(TileOf(p)) => TileOf(p) \in Tiles
  BY <1>2, Zenon DEF TileOf
<1>. QED  BY <1>1, <1>3, <1>4, Zenon

(* The distances f after n layers of the search from tile s: those from 1  *)
(* to n are of open tiles, one more than a neighbour's, and no open tile   *)
(* next to one nearer than n is left out or further than one step more.    *)
Searched(f, s, n) ==
  /\ f \in [Tiles -> (0 .. n) \cup {Unreachable}]
  /\ \A t \in Tiles : f[t] = 0 <=> t = s /\ t \in Passable
  /\ \A t \in Tiles : f[t] \in 1 .. n =>
       t \in Passable /\ \E u \in Neighbours(t) : DistAt(f, u) = f[t] - 1
  /\ \A t \in Passable : \A u \in Neighbours(t) :
       DistAt(f, u) \in 0 .. n - 1 => f[t] <= DistAt(f, u) + 1

(* Before the first layer.                                                 *)
LEMMA SearchedBefore ==
  ASSUME NEW source
  PROVE  Searched(Before(source), TileOf(source), 0)
<1>. DEFINE f == Before(source)
<1>1. f \in [Tiles -> (0 .. 0) \cup {Unreachable}]
  BY DEF Before
<1>2. \A t \in Tiles : f[t] = 0 <=> t = TileOf(source) /\ t \in Passable
  BY DEF Before, TilePassable, Unreachable
<1>. HIDE DEF f
<1>3. \A t \in Tiles : f[t] \notin 1 .. 0
  OBVIOUS
<1>4. \A u : DistAt(f, u) \notin 0 .. 0 - 1
  OBVIOUS
<1>. QED  BY <1>1, <1>2, <1>3, <1>4, Zenon DEF Searched, f

(* One layer more.                                                         *)
LEMMA SearchedWave ==
  ASSUME NEW f, NEW s, NEW n \in Nat, n + 1 < Unreachable, Searched(f, s, n)
  PROVE  Searched(Wave(f, n + 1), s, n + 1)
<1>. DEFINE N == NextLayer(f, n)
            g == Wave(f, n + 1)
            U == Unreachable
<1>0. U \in Nat /\ n + 1 < U
  BY DEF Unreachable
<1>1. f \in [Tiles -> (0 .. n) \cup {U}]
  BY Zenon DEF Searched
<1>2. N \subseteq Passable /\ Passable \subseteq Tiles
  BY Zenon DEF NextLayer, Passable
<1>3. g = [t \in Tiles |-> IF t \in N THEN n + 1 ELSE f[t]]
  <2>1. (n + 1) - 1 = n
    OBVIOUS
  <2>. QED  BY <2>1, Zenon DEF Wave
<1>4. \A t \in Tiles : t \in N <=>
        t \in Passable /\ f[t] = U /\ \E u \in Neighbours(t) : DistAt(f, u) = n
  BY Zenon DEF NextLayer
<1>. HIDE DEF N, g, U
<1>5. g \in [Tiles -> (0 .. n + 1) \cup {U}]
  BY <1>1, <1>3
<1>6. \A t \in Tiles : t \in N => f[t] = U /\ g[t] = n + 1
  BY <1>3, <1>4, Zenon
<1>7. \A t \in Tiles : t \notin N => g[t] = f[t]
  BY <1>3, Zenon
<1>8. \A t \in Tiles : \A u \in Neighbours(t) :
        /\ DistAt(f, u) \in 0 .. n => DistAt(g, u) = DistAt(f, u)
        /\ DistAt(g, u) \in 0 .. n => DistAt(f, u) = DistAt(g, u)
  BY <1>0, <1>1, <1>6, <1>7, GridFact DEF DistAt, U
<1>9. \A t \in Tiles : g[t] = 0 <=> t = s /\ t \in Passable
  <2>1. \A t \in Tiles : f[t] = 0 <=> t = s /\ t \in Passable
    BY Zenon DEF Searched
  <2>. QED  BY <1>0, <1>6, <1>7, <2>1
<1>10. ASSUME NEW t \in Tiles, g[t] \in 1 .. n + 1
       PROVE  t \in Passable /\ \E u \in Neighbours(t) : DistAt(g, u) = g[t] - 1
  <2>1. CASE t \in N
    <3>1. t \in Passable /\ \E u \in Neighbours(t) : DistAt(f, u) = n
      BY <1>4, <2>1, Zenon
    <3>2. g[t] - 1 = n /\ n \in 0 .. n
      BY <1>6, <2>1
    <3>. QED  BY <1>8, <3>1, <3>2, Zenon
  <2>2. CASE t \notin N
    <3>1. f[t] = g[t] /\ f[t] \in 1 .. n
      BY <1>0, <1>1, <1>7, <1>10, <2>2
    <3>2. t \in Passable /\ \E u \in Neighbours(t) : DistAt(f, u) = f[t] - 1
      BY <3>1, Zenon DEF Searched
    <3>3. f[t] - 1 \in 0 .. n
      BY <3>1
    <3>. QED  BY <1>8, <3>1, <3>2, <3>3, Zenon
  <2>. QED  BY <2>1, <2>2, Zenon
<1>11. ASSUME NEW t \in Passable, NEW u \in Neighbours(t),
              DistAt(g, u) \in 0 .. n
       PROVE  g[t] <= DistAt(g, u) + 1
  <2>1. t \in Tiles
    BY <1>2, Zenon
  <2>2. DistAt(f, u) = DistAt(g, u)
    BY <1>8, <1>11, <2>1, Zenon
  <2>3. CASE DistAt(g, u) = n
    <3>1. f[t] = U => t \in N
      BY <1>4, <2>1, <2>2, <2>3, Zenon
    <3>2. g[t] \in 0 .. n + 1
      BY <1>1, <1>6, <1>7, <2>1, <3>1
    <3>. QED  BY <2>3, <3>2
  <2>4. CASE DistAt(g, u) \in 0 .. n - 1
    <3>1. f[t] <= DistAt(f, u) + 1
      BY <2>2, <2>4, Zenon DEF Searched
    <3>2. f[t] # U
      BY <1>0, <2>2, <2>4, <3>1
    <3>3. g[t] = f[t]
      BY <1>6, <1>7, <2>1, <3>2, Zenon
    <3>. QED  BY <2>2, <3>1, <3>3, Zenon
  <2>. QED  BY <1>11, <2>3, <2>4
<1>12. (n + 1) - 1 = n
  OBVIOUS
<1>. QED  BY <1>5, <1>9, <1>10, <1>11, <1>12 DEF Searched, g, U

(* build, for every map and every goal: the search is complete up to the   *)
(* last layer.                                                             *)
LEMMA BuildSearched ==
  ASSUME NEW source
  PROVE  Searched(Build(source), TileOf(source), Farthest)
<1>. DEFINE L == Farthest
            w == Layers(source)
            s == TileOf(source)
            G == {n \in 0 .. L : Searched(w[n], s, n)}
<1>0. L \in Nat /\ L < Unreachable
  BY FlowFieldAssumption, Zenon
<1>1. w[0] = Before(source) /\ \A n \in 1 .. L : w[n] = Wave(w[n - 1], n)
  BY LayersEquation, Zenon
<1>2. Searched(Before(source), s, 0)
  BY SearchedBefore, Zenon
<1>. HIDE DEF L, w, s
<1>3. 0 \in G
  BY <1>0, <1>1, <1>2
<1>4. ASSUME NEW n \in 0 .. L - 1, n \in G  PROVE n + 1 \in G
  <2>1. n + 1 \in 1 .. L /\ (n + 1) - 1 = n /\ n \in Nat /\ n + 1 < Unreachable
    BY <1>0 DEF Unreachable
  <2>2. w[n + 1] = Wave(w[n], n + 1)
    BY <1>1, <2>1, Zenon
  <2>3. Searched(w[n], s, n)
    BY <1>4, Zenon
  <2>4. Searched(w[n + 1], s, n + 1)
    BY <2>1, <2>2, <2>3, SearchedWave, Zenon
  <2>. QED  BY <1>0, <2>1, <2>4
<1>5. L \in G
  <2>. HIDE DEF G
  <2>1. \A n \in 0 .. L : n \in G
    BY <1>0, <1>3, <1>4, Induct, Zenon
  <2>. QED  BY <1>0, <2>1
<1>. QED  BY <1>5, BuildIsLayers, Zenon DEF L, w, s

(* The two fields of a bot are those of the bases.                         *)
LEMMA FieldFact ==
  ASSUME NEW b \in Team
  PROVE  /\ Field[b] = Build(Base[b])
         /\ Searched(Field[b], TileOf(Base[b]), Farthest)
<1>1. CASE b = "Red"
  BY <1>1, BuildSearched, Zenon DEF Field
<1>2. CASE b = "Blue"
  BY <1>2, BuildSearched, Zenon DEF Field
<1>. QED  BY <1>1, <1>2, Zenon DEF Team

(* A distance is a number, next to a tile of the grid and on it.           *)
LEMMA DistType ==
  ASSUME NEW b \in Team
  PROVE  /\ \A t \in Tiles : DistAt(Field[b], t) \in 0 .. Unreachable
         /\ \A t \in Tiles : \A u \in Neighbours(t) :
              DistAt(Field[b], u) \in 0 .. Unreachable
<1>. DEFINE f == Field[b]
<1>1. f \in [Tiles -> (0 .. Farthest) \cup {Unreachable}]
  BY FieldFact, Zenon DEF Searched
<1>. HIDE DEF f
<1>2. \A t \in Tiles : f[t] \in 0 .. Unreachable
  <2>1. Unreachable \in Nat
    BY DEF Unreachable
  <2>2. ASSUME NEW t \in Tiles  PROVE f[t] \in 0 .. Unreachable
    <3>1. f[t] \in 0 .. Farthest \/ f[t] = Unreachable
      BY <1>1
    <3>. QED  BY <2>1, <3>1, FlowFieldAssumption
  <2>. QED  BY <2>2
<1>3. Unreachable \in 0 .. Unreachable
  BY DEF Unreachable
<1>4. \A t \in Tiles : DistAt(f, t) \in 0 .. Unreachable
  BY <1>2, GridFact, Zenon DEF DistAt
<1>5. \A t \in Tiles : \A u \in Neighbours(t) : DistAt(f, u) \in 0 .. Unreachable
  BY <1>2, <1>3, GridFact, Zenon DEF DistAt
<1>. QED  BY <1>4, <1>5, Zenon DEF f

(* On a tile that a field reaches it has the distance through open tiles.  *)
LEMMA ReachedIsShortest ==
  ASSUME NEW b \in Team, NEW t \in Tiles, Field[b][t] # Unreachable
  PROVE  DistAt(Field[b], t) =
           IF t = TileOf(Base[b]) THEN 0
           ELSE 1 + Min({DistAt(Field[b], u) : u \in Neighbours(t)})
<1>. DEFINE f == Field[b]
            s == TileOf(Base[b])
            L == Farthest
            k == f[t]
            D == {DistAt(f, u) : u \in Neighbours(t)}
<1>0. L \in Nat /\ L < Unreachable /\ Unreachable \in Nat
  BY FlowFieldAssumption DEF Unreachable
<1>1. Searched(f, s, L)
  BY FieldFact, Zenon
<1>2. DistAt(f, t) = k
  BY GridFact, Zenon DEF DistAt
<1>3. \A u \in Neighbours(t) : DistAt(f, u) \in 0 .. Unreachable
  BY DistType, Zenon
<1>4. k \in 0 .. L
  BY <1>1, Zenon DEF Searched
<1>. HIDE DEF f, s, L
<1>5. k = 0 <=> t = s /\ t \in Passable
  BY <1>1, Zenon DEF Searched
<1>6. k \in 1 .. L =>
        t \in Passable /\ \E u \in Neighbours(t) : DistAt(f, u) = k - 1
  BY <1>1, Zenon DEF Searched
<1>7. CASE t = s
  <2>1. k = 0
    BY <1>0, <1>4, <1>5, <1>6, <1>7
  <2>. QED  BY <1>2, <1>7, <2>1, Zenon DEF f, s
<1>8. CASE t # s
  <2>1. k \in 1 .. L
    BY <1>0, <1>4, <1>5, <1>8
  <2>2. k - 1 \in D
    BY <1>6, <2>1, Zenon
  <2>3. ASSUME NEW u \in Neighbours(t)  PROVE k - 1 <= DistAt(f, u)
    <3>1. t \in Passable
      BY <1>6, <2>1, Zenon
    <3>2. DistAt(f, u) \in 0 .. L - 1 => k <= DistAt(f, u) + 1
      BY <1>1, <3>1, Zenon DEF Searched
    <3>. HIDE DEF k
    <3>. QED  BY <1>0, <1>3, <1>4, <3>2
  <2>4. \A d \in D : d \in Nat /\ k - 1 <= d
    BY <1>3, <2>3
  <2>. HIDE DEF D, k
  <2>5. Min(D) \in D /\ \A d \in D : Min(D) <= d
    BY <2>2, <2>4, Zenon DEF Min
  <2>6. Min(D) = k - 1
    BY <2>1, <2>2, <2>4, <2>5
  <2>7. k = 1 + Min(D)
    BY <2>1, <2>6
  <2>. QED  BY <1>2, <1>8, <2>7, Zenon DEF f, s, D
<1>. QED  BY <1>7, <1>8

-----------------------------------------------------------------------------
(* Tiles and positions *)

(* Division keeps the order.                                               *)
LEMMA DivMono ==
  ASSUME NEW a \in Nat, NEW b \in Nat, a <= b, NEW T \in Nat \ {0}
  PROVE  a \div T \in Nat /\ b \div T \in Nat /\ a \div T <= b \div T
<1>. DEFINE q == a \div T
            r == b \div T
<1>1. q \in Nat /\ T * q <= a /\ r \in Nat /\ b < T * (r + 1)
  OBVIOUS
<1>. HIDE DEF q, r
<1>2. q <= r
  <2>. SUFFICES ASSUME r + 1 <= q  PROVE FALSE
    BY <1>1
  <2>1. T * (r + 1) <= T * q
    BY <1>1
  <2>2. T * (r + 1) \in Int /\ T * q \in Int
    BY <1>1
  <2>. QED  BY <1>1, <2>1, <2>2
<1>. QED  BY <1>1, <1>2, Zenon DEF q, r

(* The tile of a coordinate inside of a tile.                              *)
LEMMA DivInside ==
  ASSUME NEW t \in Nat, NEW T \in Nat \ {0}, NEW m \in 0 .. T - 1
  PROVE  t * T + m \in Nat /\ (t * T + m) \div T = t
<1>. DEFINE v == t * T + m
            q == v \div T
<1>1. T * t \in Nat /\ v = T * t + m /\ T * (t + 1) = T * t + T
  OBVIOUS
<1>2. v \in Nat /\ T * t <= v /\ v < T * (t + 1)
  BY <1>1
<1>. HIDE DEF v
<1>3. q \in Nat /\ T * q <= v /\ v < T * (q + 1)
  BY <1>2
<1>. HIDE DEF q
<1>4. ASSUME NEW x \in Nat, NEW y \in Nat, x < y, T * y <= v, v < T * (x + 1)
      PROVE  FALSE
  <2>1. T * (x + 1) <= T * y
    BY <1>4
  <2>2. T * (x + 1) \in Int /\ T * y \in Int
    OBVIOUS
  <2>. QED  BY <1>2, <1>4, <2>1, <2>2
<1>5. ~(t < q) /\ ~(q < t)
  BY <1>2, <1>3, <1>4, Zenon
<1>6. q = t
  BY <1>3, <1>5
<1>. QED  BY <1>2, <1>6, Zenon DEF v, q

(* tile_of keeps the order of coordinates, below zero too.                 *)
LEMMA ToTileMono ==
  ASSUME NEW v \in Int, NEW w \in Int, v <= w
  PROVE  ToTile(v) \in Int /\ ToTile(w) \in Int /\ ToTile(v) <= ToTile(w)
<1>1. TileFp \in Nat \ {0}
  BY ArenaAssumption, Zenon
<1>2. CASE v >= 0
  <2>1. v \in Nat /\ w \in Nat
    BY <1>2
  <2>2. ToTile(v) = v \div TileFp /\ ToTile(w) = w \div TileFp
    BY <2>1 DEF ToTile
  <2>. QED  BY <1>1, <2>1, <2>2, DivMono
<1>3. CASE v < 0 /\ w >= 0
  <2>. DEFINE q == (-v) \div TileFp
  <2>1. -v \in Nat /\ w \in Nat
    BY <1>3
  <2>2. q \in Nat /\ w \div TileFp \in Nat
    BY <1>1, <2>1, DivMono
  <2>3. ToTile(v) = -q /\ ToTile(w) = w \div TileFp
    BY <1>3 DEF ToTile
  <2>. HIDE DEF q
  <2>. QED  BY <2>2, <2>3
<1>4. CASE w < 0
  <2>. DEFINE q == (-v) \div TileFp
              r == (-w) \div TileFp
  <2>1. -v \in Nat /\ -w \in Nat /\ -w <= -v
    BY <1>4
  <2>2. q \in Nat /\ r \in Nat /\ r <= q
    BY <1>1, <2>1, DivMono, Zenon
  <2>3. ToTile(v) = -q /\ ToTile(w) = -r
    BY <1>4 DEF ToTile
  <2>. HIDE DEF q, r
  <2>. QED  BY <2>2, <2>3
<1>. QED  BY <1>2, <1>3, <1>4

(* A box centered in a tile covers this tile only.                         *)
LEMMA CenteredInside ==
  ASSUME NEW t \in Nat
  PROVE  /\ ToTile(t * TileFp + Margin) = t
         /\ ToTile(t * TileFp + Margin + BoxFp - 1) = t
<1>. DEFINE T == TileFp
            M == Margin
            B == BoxFp
<1>1. T \in Nat \ {0} /\ B \in Nat \ {0} /\ B <= T
  BY ArenaAssumption, Zenon
<1>2. M \in Nat /\ M + B <= T
  BY <1>1 DEF Margin
<1>. HIDE DEF T, M, B
<1>3. M \in 0 .. T - 1 /\ M + B - 1 \in 0 .. T - 1
  BY <1>1, <1>2
<1>4. t * T + M \in Nat /\ (t * T + M) \div T = t
  BY <1>1, <1>3, DivInside, Zenon
<1>5. t * T + (M + B - 1) \in Nat /\ (t * T + (M + B - 1)) \div T = t
  BY <1>1, <1>3, DivInside, Zenon
<1>6. t * T \in Nat
  BY <1>1
<1>7. t * T + (M + B - 1) = t * T + M + B - 1
  BY <1>1, <1>2, <1>6
<1>. QED  BY <1>4, <1>5, <1>7 DEF ToTile, T, M, B

(* Whoever is not in a wall is on a tile that the search counts as open:   *)
(* tile_passable and aabb_collides agree.                                  *)
LEMMA OnOpenTile ==
  ASSUME NEW p \in Int \X Int, ~Collides(p)
  PROVE  /\ TileOf(p) \in Passable
         /\ TileOf(p) = <<ToTile(p[1]), ToTile(p[2])>>
<1>. DEFINE x == ToTile(p[1])
            y == ToTile(p[2])
            x2 == ToTile(p[1] + BoxFp - 1)
            y2 == ToTile(p[2] + BoxFp - 1)
<1>1. /\ p[1] \in Int /\ p[1] + BoxFp - 1 \in Int /\ p[1] <= p[1] + BoxFp - 1
      /\ p[2] \in Int /\ p[2] + BoxFp - 1 \in Int /\ p[2] <= p[2] + BoxFp - 1
  BY ArenaAssumption
<1>2. x \in Int /\ x2 \in Int /\ x <= x2 /\ y \in Int /\ y2 \in Int /\ y <= y2
  BY <1>1, ToTileMono, Zenon
<1>3. ~ \E i \in x .. x2, j \in y .. y2 : IsWall(<<i, j>>)
  BY Zenon DEF Collides
<1>. HIDE DEF x, y, x2, y2
<1>4. x \in x .. x2 /\ y \in y .. y2
  BY <1>2
<1>5. ~IsWall(<<x, y>>)
  BY <1>3, <1>4, Zenon
<1>6. InGrid(<<x, y>>)
  BY <1>5, Zenon DEF IsWall
<1>7. x \in 0 .. Width - 1 /\ y \in 0 .. Height - 1
  BY <1>6, Zenon DEF InGrid
<1>8. {Width, Height} \subseteq Nat
  BY ArenaAssumption, Zenon
<1>9. TileOf(p) = <<x, y>>
  <2>1. Clamp(x, Width) = x /\ Clamp(y, Height) = y
    BY <1>2, <1>7, <1>8 DEF Clamp
  <2>. QED  BY <2>1, Zenon DEF TileOf, x, y
<1>10. ~Collides(Centered(<<x, y>>))
  <2>. DEFINE c == Centered(<<x, y>>)
  <2>1. x \in Nat /\ y \in Nat
    BY <1>2, <1>7
  <2>2. c[1] = x * TileFp + Margin /\ c[2] = y * TileFp + Margin
    BY Zenon DEF Centered
  <2>. HIDE DEF c
  <2>3. /\ ToTile(c[1]) = x /\ ToTile(c[1] + BoxFp - 1) = x
        /\ ToTile(c[2]) = y /\ ToTile(c[2] + BoxFp - 1) = y
    BY <2>1, <2>2, CenteredInside, Zenon
  <2>4. \A i \in x .. x, j \in y .. y : i = x /\ j = y
    BY <1>2
  <2>5. ~Collides(c)
    <3>1. Collides(c) <=> \E i \in x .. x, j \in y .. y : IsWall(<<i, j>>)
      BY <2>3, Zenon DEF Collides
    <3>. QED  BY <1>5, <2>4, <3>1, Zenon
  <2>. QED  BY <2>5, Zenon DEF c
<1>11. <<x, y>> \in Tiles
  BY <1>7, Zenon DEF Tiles
<1>12. TileOf(p) = <<ToTile(p[1]), ToTile(p[2])>>
  BY <1>9, Zenon DEF x, y
<1>. QED  BY <1>5, <1>9, <1>10, <1>11, <1>12, Zenon DEF Passable

-----------------------------------------------------------------------------
(* What a bot decides *)

(* The steps S have gains A of at most M, and ranks O of their own.        *)
Ranked(S, A, O, M) ==
  /\ S # {} /\ A \in [S -> Int] /\ O \in [S -> Nat] /\ M \in Int
  /\ \A d \in S : A[d] <= M
  /\ \A d, e \in S : O[d] = O[e] => d = e

(* Among such steps one leads: the first of the best ones.                 *)
LEMMA OneLeads ==
  ASSUME NEW S, NEW A, NEW O, NEW M, Ranked(S, A, O, M)
  PROVE  \E d \in S : \A e \in S \ {d} :
           A[d] > A[e] \/ (A[d] = A[e] /\ O[d] < O[e])
<1>. USE DEF Ranked
<1>. DEFINE T == {M - A[d] : d \in S}
<1>1. T \in SUBSET Nat /\ T # {}
  OBVIOUS
<1>2. PICK x \in T : \A y \in T : x <= y
  <2>. HIDE DEF T
  <2>. QED  BY <1>1, Least, Zenon
<1>3. PICK c \in S : x = M - A[c]
  BY <1>2, Zenon
<1>4. ASSUME NEW e \in S  PROVE A[e] <= A[c]
  <2>1. M - A[e] \in T
    BY Zenon
  <2>2. M - A[c] <= M - A[e]
    BY <1>2, <1>3, <2>1, Zenon
  <2>3. A[e] \in Int /\ A[c] \in Int
    BY Zenon
  <2>. QED  BY <2>2, <2>3
<1>. DEFINE E == {O[d] : d \in {e \in S : A[e] = A[c]}}
<1>5. E \in SUBSET Nat /\ E # {}
  OBVIOUS
<1>6. PICK o \in E : \A y \in E : o <= y
  <2>. HIDE DEF E
  <2>. QED  BY <1>5, Least, Zenon
<1>7. PICK d \in S : A[d] = A[c] /\ o = O[d]
  BY <1>6, Zenon
<1>8. ASSUME NEW e \in S \ {d}
      PROVE  A[d] > A[e] \/ (A[d] = A[e] /\ O[d] < O[e])
  <2>1. A[e] \in Int /\ A[d] \in Int /\ O[e] \in Nat /\ O[d] \in Nat
    BY Zenon
  <2>2. A[e] <= A[d]
    BY <1>4, <1>7, Zenon
  <2>3. A[e] = A[d] => O[d] <= O[e]
    BY <1>6, <1>7
  <2>4. O[d] # O[e]
    BY Zenon
  <2>. QED  BY <2>1, <2>2, <2>3, <2>4
<1>. QED  BY <1>8, Zenon

(* The best direction of an axis is one of the directions.                 *)
LEMMA BestType ==
  ASSUME NEW b \in Team, NEW p, TileOf(p) \in Tiles,
         NEW i \in {1, 2}, NEW ds \in SUBSET {d \in Cardinal : d[i] = 0}
  PROVE  /\ Best(Field[b], p, ds) \in Int \X Int
         /\ IF ds = {} THEN Best(Field[b], p, ds) = <<0, 0>>
                       ELSE Best(Field[b], p, ds) \in ds
<1>. DEFINE f == Field[b]
            A == [d \in ds |-> 0 - DistAt(f, Plus(TileOf(p), d))]
            O == [d \in ds |-> 1 - (d[1] + d[2])]
<1>1. CASE ds = {}
  BY <1>1 DEF Best
<1>2. CASE ds # {}
  <2>1. \A d \in ds : DistAt(f, Plus(TileOf(p), d)) \in Nat
    <3>1. \A d \in ds : Plus(TileOf(p), d) \in Neighbours(TileOf(p))
      BY Zenon DEF Neighbours
    <3>2. \A u \in Neighbours(TileOf(p)) : DistAt(f, u) \in 0 .. Unreachable
      BY DistType, Zenon
    <3>. QED  BY <3>1, <3>2
  <2>. HIDE DEF f
  <2>2. A \in [ds -> Int] /\ \A d \in ds : A[d] <= 0
    BY <2>1
  <2>3. ds \subseteq {<<1, 0>>, <<-1, 0>>} \/ ds \subseteq {<<0, 1>>, <<0, -1>>}
    BY DEF Cardinal
  <2>4. O \in [ds -> Nat] /\ \A d, e \in ds : O[d] = O[e] => d = e
    BY <2>3
  <2>5. \E d \in ds : \A e \in ds \ {d} :
          A[d] > A[e] \/ (A[d] = A[e] /\ O[d] < O[e])
    <3>. DEFINE M == 0
    <3>1. A \in [ds -> Int] /\ O \in [ds -> Nat] /\ M \in Int
      BY <2>2, <2>4
    <3>2. \A d \in ds : A[d] <= M
      BY <2>2, Zenon
    <3>. HIDE DEF A, O, M
    <3>3. Ranked(ds, A, O, M)
      BY <1>2, <2>4, <3>1, <3>2, Zenon DEF Ranked
    <3>. QED  BY <3>3, OneLeads
  <2>6. ds \subseteq Int \X Int
    BY <2>3
  <2>7. \E d \in ds : \A e \in ds \ {d} :
           LET here == DistAt(f, Plus(TileOf(p), d))
               there == DistAt(f, Plus(TileOf(p), e))
           IN  here < there \/ (here = there /\ d[1] + d[2] > e[1] + e[2])
    <3>1. PICK d \in ds : \A e \in ds \ {d} :
            A[d] > A[e] \/ (A[d] = A[e] /\ O[d] < O[e])
      BY <2>5, Zenon
    <3>2. ASSUME NEW e \in ds \ {d}
          PROVE  \/ DistAt(f, Plus(TileOf(p), d)) < DistAt(f, Plus(TileOf(p), e))
                 \/ /\ DistAt(f, Plus(TileOf(p), d)) = DistAt(f, Plus(TileOf(p), e))
                    /\ d[1] + d[2] > e[1] + e[2]
      <4>1. d[1] \in Int /\ d[2] \in Int /\ e[1] \in Int /\ e[2] \in Int
        BY <2>6, Zenon
      <4>2. A[d] > A[e] \/ (A[d] = A[e] /\ O[d] < O[e])
        BY <3>1, Zenon
      <4>. QED  BY <2>1, <4>1, <4>2
    <3>. QED  BY <3>2, Zenon
  <2>8. Best(f, p, ds) \in ds
    BY <1>2, <2>7, Zenon DEF Best
  <2>. QED  BY <1>2, <2>6, <2>8, Zenon DEF f
<1>. QED  BY <1>1, <1>2, Zenon

(* steer presses buttons of the two axes.                                  *)
LEMMA SteerType ==
  ASSUME NEW b \in Team, NEW p, TileOf(p) \in Tiles
  PROVE  Steer(Field[b], p) \in Int \X Int
<1>. DEFINE f == Field[b]
            ds == Descending(f, p)
            X == {d \in ds : d[2] = 0}
            Y == {d \in ds : d[1] = 0}
            x == Best(f, p, X)
            y == Best(f, p, Y)
<1>1. ds \subseteq Cardinal
  BY Zenon DEF Descending
<1>2. x \in Int \X Int
  <2>1. X \in SUBSET {d \in Cardinal : d[2] = 0}
    BY <1>1, Zenon
  <2>. HIDE DEF X
  <2>. QED  BY <2>1, BestType, Zenon
<1>3. y \in Int \X Int
  <2>1. Y \in SUBSET {d \in Cardinal : d[1] = 0}
    BY <1>1, Zenon
  <2>. HIDE DEF Y
  <2>. QED  BY <2>1, BestType, Zenon
<1>4. \A i \in {1, 2} : TowardCenter(p, i) \in Int \X Int
  BY DEF TowardCenter
<1>5. \A v, w \in Int \X Int : Plus(v, w) \in Int \X Int
  BY DEF Plus
<1>6. <<0, 0>> \in Int \X Int
  OBVIOUS
<1>7. Steer(f, p) \in {<<0, 0>>, Plus(x, y), Plus(x, TowardCenter(p, 2)),
                       Plus(TowardCenter(p, 1), y), TowardCenter(p, 2),
                       TowardCenter(p, 1)}
  <2>. HIDE DEF ds, f
  <2>. QED  BY Zenon DEF Steer, ds
<1>. HIDE DEF x, y
<1>. QED  BY <1>2, <1>3, <1>4, <1>5, <1>6, <1>7

(* So does greedy_buttons.                                                 *)
LEMMA GreedyType ==
  ASSUME NEW p \in Int \X Int, NEW q \in Int \X Int
  PROVE  Greedy(p, q) \in Int \X Int
<1>. DEFINE off == <<q[1] - p[1], q[2] - p[2]>>
            diagonal == IF Abs(off[1]) > Near /\ Abs(off[2]) > Near
                        THEN {<<Sign(off[1]), Sign(off[2])>>} ELSE {}
            S == {d \in Cardinal \cup diagonal : Feasible(p, d)}
            Far == ~(Abs(off[1]) <= Near /\ Abs(off[2]) <= Near)
            A == [d \in S |-> Gain(p, q, d)]
            O == [d \in S |-> Order(d)]
            u == q[1] - p[1]
            v == q[2] - p[2]
            s == <<Sign(u), Sign(v)>>
            M == 2 * (Abs(u) + Abs(v))
<1>1. u \in Int /\ v \in Int
  OBVIOUS
<1>2. S \subseteq Cardinal \cup {s}
  BY Zenon
<1>3. s \in {<<1, 1>>, <<1, -1>>, <<-1, 1>>, <<-1, -1>>}
  <2>. HIDE DEF u, v
  <2>. QED  BY <1>1, Zenon DEF Sign
<1>. DEFINE C == {<<1, 0>>, <<-1, 0>>, <<0, 1>>, <<0, -1>>, s}
<1>. HIDE DEF s
<1>4. S \subseteq C /\ C \subseteq {-1, 0, 1} \X {-1, 0, 1}
  BY <1>2, <1>3 DEF Cardinal
<1>5. M \in Int
  <2>. HIDE DEF u, v
  <2>. QED  BY <1>1 DEF Abs
<1>6. ASSUME NEW d \in S  PROVE Gain(p, q, d) \in Int /\ Gain(p, q, d) <= M
  <2>1. d[1] \in {-1, 0, 1} /\ d[2] \in {-1, 0, 1}
    BY <1>4, Zenon
  <2>2. Gain(p, q, d) = 2 * (u * d[1] + v * d[2])
                          - Speed * (Abs(d[1]) + Abs(d[2]))
    BY Zenon DEF Gain
  <2>3. Speed \in Nat
    BY ArenaAssumption, Zenon
  <2>. HIDE DEF u, v, S
  <2>4. /\ u * d[1] \in Int /\ u * d[1] <= Abs(u)
        /\ v * d[2] \in Int /\ v * d[2] <= Abs(v)
        /\ Abs(u) \in Int /\ Abs(v) \in Int
    BY <1>1, <2>1 DEF Abs
  <2>5. Abs(d[1]) + Abs(d[2]) \in {0, 1, 2}
    BY <2>1 DEF Abs
  <2>6. Speed * (Abs(d[1]) + Abs(d[2])) \in Nat
    BY <2>3, <2>5
  <2>. QED  BY <2>2, <2>4, <2>6
<1>7. O \in [S -> Nat] /\ \A d, e \in S : O[d] = O[e] => d = e
  <2>. HIDE DEF S
  <2>1. \A d, e \in C : Order(d) \in Nat /\ (Order(d) = Order(e) => d = e)
    BY <1>3 DEF Order
  <2>. QED  BY <1>4, <2>1, Zenon
<1>8. Far /\ S # {} => Greedy(p, q) \in S
  <2>. SUFFICES ASSUME Far, S # {}  PROVE Greedy(p, q) \in S
    BY Zenon
  <2>1. \E d \in S : \A e \in S \ {d} :
          A[d] > A[e] \/ (A[d] = A[e] /\ O[d] < O[e])
    <3>1. A \in [S -> Int] /\ \A d \in S : A[d] <= M
      BY <1>6, Zenon
    <3>. HIDE DEF A, O, M, S, Far
    <3>2. Ranked(S, A, O, M)
      BY <1>5, <1>7, <3>1, Zenon DEF Ranked
    <3>. QED  BY <3>2, OneLeads
  <2>. HIDE DEF S
  <2>2. \E d \in S : \A e \in S \ {d} :
          \/ Gain(p, q, d) > Gain(p, q, e)
          \/ Gain(p, q, d) = Gain(p, q, e) /\ Order(d) < Order(e)
    BY <2>1, Zenon
  <2>3. Greedy(p, q) = CHOOSE d \in S : \A e \in S \ {d} :
          \/ Gain(p, q, d) > Gain(p, q, e)
          \/ Gain(p, q, d) = Gain(p, q, e) /\ Order(d) < Order(e)
    BY Zenon DEF Greedy, S
  <2>. QED  BY <2>2, <2>3, Zenon
<1>9. ~(Far /\ S # {}) => Greedy(p, q) = <<0, 0>>
  BY Zenon DEF Greedy
<1>10. C \subseteq Int \X Int
  BY <1>3
<1>. HIDE DEF S, Far, C
<1>. QED  BY <1>4, <1>8, <1>9, <1>10

(* tile_of clamps every position into the grid.                            *)
LEMMA TileOfType ==
  ASSUME NEW p \in Int \X Int  PROVE TileOf(p) \in Tiles
<1>. DEFINE x == ToTile(p[1])
            y == ToTile(p[2])
<1>1. p[1] \in Int /\ p[2] \in Int
  BY Zenon
<1>2. x \in Int /\ y \in Int
  BY <1>1, ToTileMono
<1>3. Width \in Nat \ {0} /\ Height \in Nat \ {0}
  BY ArenaAssumption, Zenon
<1>4. TileOf(p) = <<Clamp(x, Width), Clamp(y, Height)>>
  BY Zenon DEF TileOf
<1>. HIDE DEF x, y
<1>5. Clamp(x, Width) \in 0 .. Width - 1 /\ Clamp(y, Height) \in 0 .. Height - 1
  BY <1>2, <1>3 DEF Clamp
<1>. QED  BY <1>4, <1>5 DEF Tiles

(* What a bot may see in a snapshot.                                       *)
Seen == [pos : Int \X Int, carrying : BOOLEAN,
         hunted : (Int \X Int) \cup {Nowhere}]

(* BotAI::tick presses buttons of the two axes, whatever it sees.          *)
LEMMA BotTickType ==
  ASSUME NEW t \in Team, NEW v \in Seen
  PROVE  BotTick(t, v) \in Int \X Int
<1>1. v.pos \in Int \X Int /\ v.hunted \in (Int \X Int) \cup {Nowhere}
  BY Zenon DEF Seen
<1>2. CASE Hunts(v)
  <2>1. v.hunted \in Int \X Int
    BY <1>1, <1>2, Zenon DEF Hunts
  <2>. QED  BY <1>1, <1>2, <2>1, GreedyType, Zenon DEF BotTick
<1>3. CASE ~Hunts(v)
  <2>. DEFINE g == Goal(t, v)
  <2>1. g \in Team
    BY Zenon DEF Goal, Enemy, Team
  <2>. HIDE DEF g
  <2>2. Base[g] \in Int \X Int
    BY <2>1, BotAssumption, Zenon
  <2>3. Greedy(v.pos, Base[g]) \in Int \X Int
    BY <1>1, <2>2, GreedyType, Zenon
  <2>4. Steer(Field[g], v.pos) \in Int \X Int
    BY <1>1, <2>1, SteerType, TileOfType, Zenon
  <2>5. BotTick(t, v) = Navigate(g, v.pos)
    BY <1>3, Zenon DEF BotTick, g
  <2>6. Navigate(g, v.pos) \in {Greedy(v.pos, Base[g]), Steer(Field[g], v.pos)}
    BY Zenon DEF Navigate
  <2>. QED  BY <2>3, <2>4, <2>5, <2>6, Zenon
<1>. QED  BY <1>2, <1>3, Zenon

(* movement_step ends at a position.                                       *)
LEMMA StepType ==
  ASSUME NEW p \in Int \X Int, NEW b \in Int \X Int
  PROVE  MovementStep(p, b) \in Int \X Int
<1>0. Speed \in Nat /\ Diagonal \in Nat
  BY ArenaAssumption, Zenon
<1>1. ASSUME NEW a \in Int, NEW c \in Int  PROVE Velocity(a, c) \in Int
  <2>1. a * Speed \in Int
    BY <1>0
  <2>2. (a * Speed) * Diagonal \in Int
    BY <1>0, <2>1
  <2>. QED  BY <2>1, <2>2 DEF Velocity
<1>2. b[1] \in Int /\ b[2] \in Int
  BY Zenon
<1>v. Velocity(b[1], b[2]) \in Int /\ Velocity(b[2], b[1]) \in Int
  BY <1>1, <1>2, Zenon
<1>m. \A q \in Int \X Int, d, e \in Int : Moved(q, d, e) \in Int \X Int
  BY DEF Moved
<1>3. \A q \in Int \X Int : AlongX(q, b) \in Int \X Int
  BY <1>v, <1>m DEF AlongX
<1>4. \A q \in Int \X Int : AlongY(q, b) \in Int \X Int
  BY <1>v, <1>m DEF AlongY
<1>. QED  BY <1>3, <1>4, Zenon DEF MovementStep

(* A snapshot of the bot.                                                  *)
LEMMA SnapshotType ==
  ASSUME NEW p \in Int \X Int, NEW c \in BOOLEAN, NEW f,
         NEW r \in (Int \X Int) \cup {Nowhere}, f = "Carried" => r \in Int \X Int
  PROVE  Snapshot(p, c, f, r) \in Seen
<1>1. \A q \in Int \X Int : OnWire(q) \in Int \X Int
  BY DEF OnWire
<1>. QED  BY <1>1, Zenon DEF Snapshot, Seen

(* The state of a bot: positions are positions, and a flag that is carried *)
(* is carried somewhere.                                                   *)
Sane ==
  /\ team \in Team /\ pos \in Int \X Int
  /\ raider \in (Int \X Int) \cup {Nowhere}
  /\ ownFlag = "Carried" => raider \in Int \X Int
  /\ view \in Seq(Seen) /\ view # <<>>

(* A step keeps it.                                                        *)
LEMMA SaneStep ==
  ASSUME Sane, carrying \in BOOLEAN, [Next]_vars
  PROVE  Sane' /\ carrying' \in BOOLEAN
<1>1. CASE Tick
  <2>. DEFINE p == MovementStep(pos, BotTick(team, Head(view)))
              own == OwnFlagNext(p)
              carries == carrying \/ Overlaps(p, Base[Enemy(team)])
              captures == carries /\ own = "AtBase" /\ Overlaps(p, Base[team])
              carried == carries /\ ~captures
  <2>1. /\ pos' = p /\ ownFlag' = own /\ carrying' = carried
        /\ view' = Append(Tail(view), Snapshot(p, carried, own, raider))
        /\ team' = team /\ raider' = raider
    BY <1>1, Zenon DEF Tick
  <2>2. p \in Int \X Int
    <3>1. Head(view) \in Seen
      BY DEF Sane
    <3>. QED  BY <3>1, BotTickType, StepType, Zenon DEF Sane
  <2>3. carried \in BOOLEAN
    BY Zenon
  <2>4. own = "Carried" => ownFlag = "Carried"
    BY Zenon DEF OwnFlagNext
  <2>. HIDE DEF p, own, carried
  <2>5. Snapshot(p, carried, own, raider) \in Seen
    BY <2>2, <2>3, <2>4, SnapshotType, Zenon DEF Sane
  <2>6. view' \in Seq(Seen) /\ view' # <<>>
    BY <2>1, <2>5 DEF Sane
  <2>. QED  BY <2>1, <2>2, <2>3, <2>4, <2>6, Zenon DEF Sane
<1>2. CASE RaiderGone
  BY <1>2, Zenon DEF RaiderGone, Sane
<1>3. CASE UNCHANGED vars
  BY <1>3, Zenon DEF vars, Sane
<1>. QED  BY <1>1, <1>2, <1>3, Zenon DEF Next

(* It holds at the start.                                                  *)
LEMMA SaneInit == Init => Sane /\ carrying \in BOOLEAN
<1>. SUFFICES ASSUME Init  PROVE Sane /\ carrying \in BOOLEAN
  BY Zenon
<1>1. /\ team \in Team /\ latency \in Nat /\ pos \in Int \X Int
      /\ raider \in (Int \X Int) \cup {Nowhere}
  BY BotAssumption, Zenon DEF Init
<1>2. carrying \in BOOLEAN /\ (ownFlag = "Carried" => raider \in Int \X Int)
  BY <1>1, Zenon DEF Init
<1>3. Snapshot(pos, carrying, ownFlag, raider) \in Seen
  BY <1>1, <1>2, SnapshotType, Zenon
<1>4. view = [i \in 1 .. latency + 1 |-> Snapshot(pos, carrying, ownFlag, raider)]
  BY Zenon DEF Init
<1>5. view \in Seq(Seen) /\ view # <<>>
  BY <1>1, <1>3, <1>4
<1>. QED  BY <1>1, <1>2, <1>5, Zenon DEF Sane

(* On every map where each open tile is within reach of both bases, both   *)
(* fields have the distance through open tiles wherever a bot gets to      *)
(* (FlowField::build, tile_passable and movement_step together).           *)
THEOREM FieldSafe ==
  ASSUME Connected
  PROVE  Spec => []FieldIsShortest
<1>. DEFINE I == Sane /\ carrying \in BOOLEAN
<1>1. Init => I
  BY SaneInit, Zenon
<1>2. I /\ [Next]_vars => I'
  BY SaneStep, Zenon
<1>3. Sane /\ NeverInWall => FieldIsShortest
  <2>. SUFFICES ASSUME Sane, NeverInWall, NEW b \in Team
                PROVE  DistAt(Field[b], TileOf(pos)) =
                         IF TileOf(pos) = TileOf(Base[b]) THEN 0
                         ELSE 1 + Min({DistAt(Field[b], u)
                                         : u \in Neighbours(TileOf(pos))})
    BY Zenon DEF FieldIsShortest
  <2>1. TileOf(pos) \in Passable
    BY OnOpenTile, Zenon DEF Sane, NeverInWall
  <2>2. TileOf(pos) \in Tiles
    BY <2>1, Zenon DEF Passable
  <2>3. Field[b][TileOf(pos)] # Unreachable
    BY <2>1, Zenon DEF Connected
  <2>. QED  BY <2>2, <2>3, ReachedIsShortest, Zenon
<1>4. Spec => []I
  BY <1>1, <1>2, PTL DEF Spec
<1>. QED  BY <1>3, <1>4, StaysOutOfWalls, PTL

-----------------------------------------------------------------------------
(* Downhill *)

(* The tiles that a box at coordinate v covers on an axis.                 *)
Span(v) == ToTile(v) .. ToTile(v + BoxFp - 1)

(* A box that covers no tile but those of one that fits, fits.             *)
LEMMA Covered ==
  ASSUME NEW p, NEW q, ~Collides(p),
         Span(q[1]) \subseteq Span(p[1]), Span(q[2]) \subseteq Span(p[2])
  PROVE  ~Collides(q)
BY Zenon DEF Collides, Span

(* The bounds of a tile.                                                   *)
LEMMA TileBounds ==
  ASSUME NEW v \in Nat
  PROVE  /\ ToTile(v) \in Nat
         /\ ToTile(v) * TileFp \in Nat
         /\ ToTile(v) * TileFp <= v
         /\ v < ToTile(v) * TileFp + TileFp
<1>. DEFINE T == TileFp
            q == v \div T
<1>1. T \in Nat \ {0}
  BY ArenaAssumption, Zenon
<1>2. ToTile(v) = q
  BY DEF ToTile
<1>. HIDE DEF T
<1>3. q \in Nat /\ T * q <= v /\ v < T * (q + 1)
  BY <1>1
<1>. HIDE DEF q
<1>4. q * T \in Nat /\ T * q = q * T /\ T * (q + 1) = q * T + T
  BY <1>1, <1>3
<1>. QED  BY <1>2, <1>3, <1>4, Zenon DEF T

(* What lies within the bounds of a tile is on it.                         *)
LEMMA TileIs ==
  ASSUME NEW t \in Nat, NEW v \in Int,
         t * TileFp <= v, v < t * TileFp + TileFp
  PROVE  ToTile(v) = t
<1>. DEFINE T == TileFp
            m == v - t * T
<1>1. T \in Nat \ {0} /\ t * T \in Nat
  BY ArenaAssumption
<1>2. m \in 0 .. T - 1 /\ v = t * T + m /\ v \in Nat
  BY <1>1
<1>. HIDE DEF T, m
<1>3. v \div T = t
  BY <1>1, <1>2, DivInside, Zenon
<1>. QED  BY <1>2, <1>3 DEF ToTile, T

(* The units, as numbers.                                                  *)
LEMMA UnitFact ==
  ASSUME Walkable
  PROVE  /\ TileFp \in Nat \ {0} /\ BoxFp \in Nat \ {0} /\ Speed \in Nat \ {0}
         /\ Margin \in Nat /\ AlignTol \in Nat
         /\ Margin + Margin + BoxFp <= TileFp /\ 16 <= BoxFp
         /\ AlignTol <= Margin /\ Speed <= Margin + AlignTol
<1>1. /\ TileFp \in Nat \ {0} /\ BoxFp \in Nat \ {0} /\ Speed \in Nat \ {0}
      /\ BoxFp <= TileFp
  BY ArenaAssumption, Zenon
<1>2. Margin \in Nat /\ Margin + Margin + BoxFp <= TileFp
  BY <1>1 DEF Margin
<1>3. AlignTol \in Nat
  BY <1>1 DEF AlignTol
<1>. QED  BY <1>1, <1>2, <1>3, Zenon DEF Walkable

(* A coordinate cut to the wire is on the same tile, less than a pixel     *)
(* away, and the box there covers no tile more.                            *)
LEMMA WireFact ==
  ASSUME Walkable, NEW v \in Nat
  PROVE  LET w == (v \div 16) * 16
         IN  /\ w \in Nat /\ w <= v /\ v < w + 16
             /\ ToTile(w) = ToTile(v) /\ Span(w) \subseteq Span(v)
<1>. DEFINE w == (v \div 16) * 16
            t == ToTile(v)
            T == TileFp
            k == T \div 16
<1>1. w \in Nat /\ w <= v /\ v < w + 16
  OBVIOUS
<1>2. T \in Nat \ {0} /\ T % 16 = 0 /\ BoxFp \in Nat \ {0}
  BY ArenaAssumption, Zenon DEF Walkable
<1>3. t \in Nat /\ t * T \in Nat /\ t * T <= v /\ v < t * T + T
  BY TileBounds, Zenon
<1>. HIDE DEF t, T
<1>4. k \in Nat /\ T = 16 * k
  BY <1>2
<1>5. t * k \in Nat /\ t * T = 16 * (t * k)
  <2>. HIDE DEF k
  <2>. QED  BY <1>3, <1>4
<1>6. t * T <= w
  <2>. DEFINE n == t * k
  <2>1. n \in Nat /\ 16 * n <= v
    BY <1>3, <1>5, Zenon
  <2>. HIDE DEF n
  <2>2. 16 * n <= w
    BY <2>1
  <2>. QED  BY <1>5, <2>2, Zenon DEF n
<1>. HIDE DEF w
<1>7. ToTile(w) = t
  <2>. DEFINE a == t * T
  <2>1. a \in Nat /\ T \in Nat /\ v < a + T
    BY <1>2, <1>3, Zenon
  <2>. HIDE DEF a
  <2>2. w < a + T
    BY <1>1, <2>1
  <2>. QED  BY <1>1, <1>3, <1>6, <2>2, TileIs DEF T, a
<1>8. /\ w + BoxFp - 1 \in Int /\ v + BoxFp - 1 \in Int
      /\ w + BoxFp - 1 <= v + BoxFp - 1
  BY <1>1, <1>2
<1>9. Span(w) \subseteq Span(v)
  <2>1. /\ ToTile(w + BoxFp - 1) \in Int /\ ToTile(v + BoxFp - 1) \in Int
        /\ ToTile(w + BoxFp - 1) <= ToTile(v + BoxFp - 1)
    BY <1>8, ToTileMono, Zenon
  <2>. QED  BY <1>3, <1>7, <2>1 DEF Span, t
<1>. QED  BY <1>1, <1>7, <1>9, Zenon DEF w, t

(* How far from the center of its tile a coordinate is.                    *)
Off(v) == v - (ToTile(v) * TileFp + Margin)

(* The tiles of a box between coordinates.                                 *)
LEMMA SpanBounds ==
  ASSUME NEW t \in Nat, NEW u \in Nat, NEW v \in Int,
         t * TileFp <= v, v + BoxFp <= u * TileFp + TileFp
  PROVE  Span(v) \subseteq t .. u
<1>. DEFINE T == TileFp
            e == v + BoxFp - 1
            a == t * T
            b == u * T
<1>1. T \in Nat \ {0} /\ BoxFp \in Nat \ {0} /\ a \in Nat /\ b \in Nat
  BY ArenaAssumption
<1>2. a <= v /\ v + BoxFp <= b + T
  BY Zenon
<1>3. ToTile(a) = t
  <2>1. t * TileFp <= a /\ a < t * TileFp + TileFp /\ a \in Int
    BY <1>1
  <2>. HIDE DEF a
  <2>. QED  BY <2>1, TileIs, Zenon
<1>4. ToTile(b + T - 1) = u
  <2>. DEFINE c == b + T - 1
  <2>1. u * TileFp <= c /\ c < u * TileFp + TileFp /\ c \in Int
    BY <1>1
  <2>. HIDE DEF c
  <2>2. ToTile(c) = u
    BY <2>1, TileIs, Zenon
  <2>. QED  BY <2>2, Zenon DEF c
<1>. HIDE DEF T, a, b
<1>5. e \in Int /\ b + T - 1 \in Int /\ e <= b + T - 1
  BY <1>1, <1>2
<1>6. ToTile(v) \in Int /\ t <= ToTile(v)
  BY <1>1, <1>2, <1>3, ToTileMono
<1>. HIDE DEF e
<1>7. ToTile(e) \in Int /\ ToTile(e) <= u
  BY <1>4, <1>5, ToTileMono, Zenon
<1>. QED  BY <1>6, <1>7 DEF Span, e

(* A step toward the center from more than AlignTol away reaches no tile   *)
(* that the box did not cover before.                                      *)
LEMMA Recenters ==
  ASSUME Walkable, NEW v \in Nat
  PROVE  /\ Off(v) < -AlignTol => Span(v + Speed) \subseteq Span(v)
         /\ Off(v) > AlignTol => Span(v - Speed) \subseteq Span(v)
<1>. DEFINE T == TileFp
            M == Margin
            A == AlignTol
            B == BoxFp
            S == Speed
            t == ToTile(v)
            a == t * T
<1>1. /\ T \in Nat \ {0} /\ B \in Nat \ {0} /\ S \in Nat \ {0}
      /\ M \in Nat /\ A \in Nat /\ M + M + B <= T /\ A <= M /\ S <= M + A
  BY UnitFact, Zenon
<1>2. t \in Nat /\ a \in Nat /\ a <= v /\ v < a + T
  BY TileBounds, Zenon
<1>3. Off(v) = v - (a + M)
  BY Zenon DEF Off
<1>4. ToTile(v + B - 1) \in Int /\ t <= ToTile(v + B - 1)
  BY <1>1, ToTileMono
<1>5. ASSUME Off(v) < -A  PROVE Span(v + S) \subseteq Span(v)
  <2>. HIDE DEF T, M, A, B, S, a
  <2>1. a <= v + S /\ (v + S) + B <= a + T /\ v + S \in Int
    BY <1>1, <1>2, <1>3, <1>5
  <2>2. Span(v + S) \subseteq t .. t
    <3>. DEFINE q == v + S
    <3>1. q \in Int /\ t * TileFp <= q /\ q + BoxFp <= t * TileFp + TileFp
      BY <2>1, Zenon DEF a, T, B
    <3>. HIDE DEF q, t
    <3>2. Span(q) \subseteq t .. t
      BY <1>2, <3>1, SpanBounds, Zenon
    <3>. QED  BY <3>2, Zenon DEF q
  <2>. QED  BY <1>2, <1>4, <2>2 DEF Span, B, t
<1>6. ASSUME Off(v) > A  PROVE Span(v - S) \subseteq Span(v)
  <2>. HIDE DEF T, M, A, B, S, a
  <2>1. a <= v - S /\ v - S < a + T /\ v - S \in Int
    BY <1>1, <1>2, <1>3, <1>6
  <2>2. ToTile(v - S) = t
    <3>. DEFINE q == v - S
    <3>1. q \in Int /\ t * TileFp <= q /\ q < t * TileFp + TileFp
      BY <2>1, Zenon DEF a, T
    <3>. HIDE DEF q, t
    <3>2. ToTile(q) = t
      BY <1>2, <3>1, TileIs, Zenon
    <3>. QED  BY <3>2, Zenon DEF q
  <2>3. /\ (v - S) + B - 1 \in Int /\ v + B - 1 \in Int
        /\ (v - S) + B - 1 <= v + B - 1
    BY <1>1, <1>2
  <2>4. /\ ToTile((v - S) + B - 1) \in Int
        /\ ToTile((v - S) + B - 1) <= ToTile(v + B - 1)
    BY <2>3, ToTileMono, Zenon
  <2>. QED  BY <1>2, <1>4, <2>2, <2>4 DEF Span, B, t
<1>. QED  BY <1>5, <1>6, Zenon DEF S, A

(* Within AlignTol of the center a box is inside of its tile, and a step   *)
(* of Speed reaches one tile more at most.                                 *)
LEMMA CenterSteps ==
  ASSUME Walkable, NEW v \in Nat, ToTile(v) # 0,
         -AlignTol <= Off(v), Off(v) <= AlignTol
  PROVE  /\ Span(v) \subseteq {ToTile(v)}
         /\ Span(v + Speed) \subseteq {ToTile(v), ToTile(v) + 1}
         /\ Span(v - Speed) \subseteq {ToTile(v), ToTile(v) - 1}
<1>. DEFINE T == TileFp
            M == Margin
            A == AlignTol
            B == BoxFp
            S == Speed
            t == ToTile(v)
            a == t * T
<1>1. /\ T \in Nat \ {0} /\ B \in Nat \ {0} /\ S \in Nat \ {0}
      /\ M \in Nat /\ A \in Nat /\ M + M + B <= T /\ A <= M /\ S <= M + A
  BY UnitFact, Zenon
<1>2. t \in Nat /\ a \in Nat /\ a <= v /\ v < a + T
  BY TileBounds, Zenon
<1>3. Off(v) = v - (a + M) /\ -A <= Off(v) /\ Off(v) <= A
  BY Zenon DEF Off
<1>0. t - 1 \in Nat /\ t + 1 \in Nat
  BY <1>2
<1>4. (t - 1) * T = a - T /\ (t + 1) * T = a + T
  BY <1>1, <1>2
<1>. HIDE DEF T, M, A, B, S, a, t
<1>5. /\ a <= v /\ v + B <= a + T
      /\ a <= v + S /\ (v + S) + B <= (a + T) + T /\ v + S \in Int
      /\ a - T <= v - S /\ (v - S) + B <= a + T /\ v - S \in Int
  BY <1>1, <1>2, <1>3
<1>6. Span(v) \subseteq t .. t
  BY <1>2, <1>5, SpanBounds DEF a, T, B
<1>7. Span(v + S) \subseteq t .. t + 1
  <2>. DEFINE q == v + S
  <2>1. q \in Int /\ t * T <= q /\ q + B <= (t + 1) * T + T
    BY <1>4, <1>5, Zenon DEF a
  <2>. HIDE DEF q
  <2>2. Span(q) \subseteq t .. t + 1
    BY <1>0, <1>2, <2>1, SpanBounds, Zenon DEF T, B
  <2>. QED  BY <2>2, Zenon DEF q
<1>8. Span(v - S) \subseteq t - 1 .. t
  <2>. DEFINE q == v - S
  <2>1. q \in Int /\ (t - 1) * T <= q /\ q + B <= t * T + T
    BY <1>4, <1>5, Zenon DEF a
  <2>. HIDE DEF q
  <2>2. Span(q) \subseteq t - 1 .. t
    BY <1>0, <1>2, <2>1, SpanBounds, Zenon DEF T, B
  <2>. QED  BY <2>2, Zenon DEF q
<1>9. t .. t = {t} /\ t .. t + 1 = {t, t + 1} /\ t - 1 .. t = {t, t - 1}
  BY <1>2
<1>. QED  BY <1>6, <1>7, <1>8, <1>9, Zenon DEF S, t
(* The same for the position itself, of which a bot knows only what went   *)
(* over the wire, and any length of step: it stays on its tile.            *)
LEMMA StaysOnTile ==
  ASSUME Walkable, NEW v \in Nat, NEW s \in 0 .. Speed
  PROVE  LET w == (v \div 16) * 16
         IN  /\ Off(w) < -AlignTol => ToTile(v + s) = ToTile(v)
             /\ Off(w) > AlignTol => ToTile(v - s) = ToTile(v)
<1>. DEFINE T == TileFp
            M == Margin
            A == AlignTol
            B == BoxFp
            t == ToTile(v)
            a == t * T
            w == (v \div 16) * 16
<1>1. /\ T \in Nat \ {0} /\ B \in Nat \ {0} /\ Speed \in Nat \ {0} /\ 16 <= B
      /\ M \in Nat /\ A \in Nat /\ M + M + B <= T /\ A <= M /\ Speed <= M + A
  BY UnitFact, Zenon
<1>2. t \in Nat /\ a \in Nat /\ a <= v /\ v < a + T
  BY TileBounds, Zenon
<1>3. w \in Nat /\ w <= v /\ v < w + 16 /\ ToTile(w) = t
  BY WireFact, Zenon
<1>. HIDE DEF w
<1>4. Off(w) = w - (a + M)
  BY <1>3, Zenon DEF Off
<1>. HIDE DEF T, M, A, B, a, t
<1>5. ASSUME NEW q \in Int, a <= q, q < a + T  PROVE ToTile(q) = t
  BY <1>2, <1>5, TileIs, Zenon DEF a, T
<1>6. ASSUME Off(w) < -A  PROVE ToTile(v + s) = t
  <2>1. a <= v + s /\ v + s < a + T /\ v + s \in Int
    BY <1>1, <1>2, <1>3, <1>4, <1>6
  <2>. QED  BY <1>5, <2>1, Zenon
<1>7. ASSUME Off(w) > A  PROVE ToTile(v - s) = t
  <2>1. a <= v - s /\ v - s < a + T /\ v - s \in Int
    BY <1>1, <1>2, <1>3, <1>4, <1>7
  <2>. QED  BY <1>5, <2>1, Zenon
<1>. QED  BY <1>6, <1>7, Zenon DEF w, A, t

(* No step leads further than to the next tile.                            *)
LEMMA OneTile ==
  ASSUME Walkable, NEW v \in Nat, ToTile(v) # 0, NEW s \in 0 .. Speed
  PROVE  /\ ToTile(v + s) \in {ToTile(v), ToTile(v) + 1}
         /\ ToTile(v - s) \in {ToTile(v), ToTile(v) - 1}
<1>. DEFINE T == TileFp
            t == ToTile(v)
            a == t * T
<1>1. T \in Nat \ {0} /\ Speed \in Nat \ {0} /\ Speed <= T
  BY UnitFact
<1>2. t \in Nat /\ a \in Nat /\ a <= v /\ v < a + T
  BY TileBounds, Zenon
<1>3. t - 1 \in Nat /\ t + 1 \in Nat
  BY <1>2
<1>4. (t - 1) * T = a - T /\ (t + 1) * T = a + T
  BY <1>1, <1>2
<1>. HIDE DEF T, a, t
<1>5. ASSUME NEW q \in Int, NEW u \in Nat, u * T <= q, q < u * T + T
      PROVE  ToTile(q) = u
  BY <1>5, TileIs, Zenon DEF T
<1>6. v + s \in Int /\ v - s \in Int
  BY <1>1
<1>7. a <= v + s /\ v + s < (a + T) + T /\ a - T <= v - s /\ v - s < a + T
  BY <1>1, <1>2
<1>8. ToTile(v + s) \in {t, t + 1}
  <2>. DEFINE q == v + s
  <2>1. q \in Int /\ a <= q /\ q < (a + T) + T
    BY <1>6, <1>7, Zenon
  <2>. HIDE DEF q
  <2>2. ASSUME q < a + T  PROVE ToTile(q) = t
    BY <1>2, <1>5, <2>1, <2>2, Zenon DEF a
  <2>3. ASSUME q >= a + T  PROVE ToTile(q) = t + 1
    <3>1. (t + 1) * T <= q /\ q < (t + 1) * T + T
      BY <1>4, <2>1, <2>3, Zenon
    <3>. QED  BY <1>3, <1>5, <2>1, <3>1, Zenon
  <2>4. q < a + T \/ q >= a + T
    BY <1>1, <1>2, <2>1
  <2>5. ToTile(q) \in {t, t + 1}
    BY <2>2, <2>3, <2>4, Zenon
  <2>. QED  BY <2>5, Zenon DEF q
<1>9. ToTile(v - s) \in {t, t - 1}
  <2>. DEFINE q == v - s
  <2>1. q \in Int /\ a - T <= q /\ q < a + T
    BY <1>6, <1>7, Zenon
  <2>. HIDE DEF q
  <2>2. ASSUME a <= q  PROVE ToTile(q) = t
    BY <1>2, <1>5, <2>1, <2>2, Zenon DEF a
  <2>3. ASSUME q < a  PROVE ToTile(q) = t - 1
    <3>1. (t - 1) * T <= q /\ q < (t - 1) * T + T
      BY <1>1, <1>2, <1>4, <2>1, <2>3
    <3>. QED  BY <1>3, <1>5, <2>1, <3>1, Zenon
  <2>4. a <= q \/ q < a
    BY <1>1, <1>2, <2>1
  <2>5. ToTile(q) \in {t, t - 1}
    BY <2>2, <2>3, <2>4, Zenon
  <2>. QED  BY <2>5, Zenon DEF q
<1>. QED  BY <1>8, <1>9, Zenon DEF t

(* A button moves by Speed at most, the diagonal too.                      *)
LEMMA VelocityBound ==
  ASSUME Walkable, NEW c \in Axis
  PROVE  /\ Velocity(0, c) = 0
         /\ Velocity(1, c) \in 0 .. Speed
         /\ -Velocity(-1, c) \in 0 .. Speed
<1>. DEFINE n == Speed * Diagonal
<1>1. Speed \in Nat /\ Diagonal \in Nat /\ Diagonal <= 256
  BY ArenaAssumption, Zenon DEF Walkable
<1>2. n \in Nat /\ n <= Speed * 256
  BY <1>1
<1>3. 1 * Speed * Diagonal = n /\ (-1) * Speed * Diagonal = -n
  BY <1>1
<1>4. 1 * Speed = Speed /\ (-1) * Speed = -Speed /\ 0 * Speed = 0
  BY <1>1
<1>5. /\ Velocity(0, c) = 0 * Speed
      /\ Velocity(1, c) \in {n \div 256, 1 * Speed}
      /\ Velocity(-1, c) \in {(-n) \div 256, (-1) * Speed}
  BY <1>3 DEF Velocity
<1>. HIDE DEF n
<1>6. n \div 256 \in 0 .. Speed /\ -((-n) \div 256) \in 0 .. Speed
  BY <1>1, <1>2
<1>. QED  BY <1>1, <1>4, <1>5, <1>6

(* One button of axis i.                                                   *)
Unit(i, s) == IF i = 1 THEN <<s, 0>> ELSE <<0, s>>

(* Why steer may press the button of axis i that b has: it leads downhill, *)
(* or toward the center of the tile from more than AlignTol away.          *)
Called(f, p, b, i) ==
  LET off == p[i] - Centered(TileOf(p))[i]
  IN  \/ b[i] = 0
      \/ Unit(i, b[i]) \in Descending(f, p)
      \/ b[i] = 1 /\ off < -AlignTol
      \/ b[i] = -1 /\ off > AlignTol

(* Where a field leads on, steer presses buttons for these reasons only;   *)
(* and none at all only if no neighbour is open and downhill and there is  *)
(* no step toward the center.                                              *)
LEMMA SteerShape ==
  ASSUME NEW b \in Team, NEW p, TileOf(p) \in Tiles,
         DistAt(Field[b], TileOf(p)) \notin {0, Unreachable}
  PROVE  LET f == Field[b]
             s == Steer(f, p)
         IN  /\ s \in Axis \X Axis
             /\ Called(f, p, s, 1) /\ Called(f, p, s, 2)
             /\ s = <<0, 0>> => /\ Descending(f, p) = {}
                                /\ TowardCenter(p, 1) = <<0, 0>>
                                /\ TowardCenter(p, 2) = <<0, 0>>
<1>. DEFINE f == Field[b]
            s == Steer(f, p)
            ds == Descending(f, p)
            X == {d \in ds : d[2] = 0}
            Y == {d \in ds : d[1] = 0}
            x == Best(f, p, X)
            y == Best(f, p, Y)
            c1 == TowardCenter(p, 1)
            c2 == TowardCenter(p, 2)
            o1 == p[1] - Centered(TileOf(p))[1]
            o2 == p[2] - Centered(TileOf(p))[2]
<1>1. ds \subseteq Cardinal
  BY Zenon DEF Descending
<1>. HIDE DEF ds
<1>2. X \subseteq {<<1, 0>>, <<-1, 0>>} /\ Y \subseteq {<<0, 1>>, <<0, -1>>}
  BY <1>1 DEF Cardinal
<1>3. IF X = {} THEN x = <<0, 0>> ELSE x \in X
  <2>1. X \in SUBSET {d \in Cardinal : d[2] = 0}
    BY <1>1, Zenon
  <2>. HIDE DEF X
  <2>. QED  BY <2>1, BestType, Zenon
<1>4. IF Y = {} THEN y = <<0, 0>> ELSE y \in Y
  <2>1. Y \in SUBSET {d \in Cardinal : d[1] = 0}
    BY <1>1, Zenon
  <2>. HIDE DEF Y
  <2>. QED  BY <2>1, BestType, Zenon
<1>5. X = {} /\ Y = {} => ds = {}
  <2>1. \A d \in Cardinal : d[1] = 0 \/ d[2] = 0
    BY DEF Cardinal
  <2>. QED  BY <1>1, <2>1, Zenon
<1>6. /\ c1 \in {<<0, 0>>, <<1, 0>>, <<-1, 0>>}
      /\ c1 = <<1, 0>> => o1 < -AlignTol
      /\ c1 = <<-1, 0>> => o1 > AlignTol
  BY DEF TowardCenter
<1>7. /\ c2 \in {<<0, 0>>, <<0, 1>>, <<0, -1>>}
      /\ c2 = <<0, 1>> => o2 < -AlignTol
      /\ c2 = <<0, -1>> => o2 > AlignTol
  BY DEF TowardCenter
<1>8. s = CASE x # <<0, 0>> /\ y # <<0, 0>> -> Plus(x, y)
            [] x # <<0, 0>> /\ y = <<0, 0>> -> Plus(x, c2)
            [] x = <<0, 0>> /\ y # <<0, 0>> -> Plus(c1, y)
            [] OTHER -> IF c2 # <<0, 0>> THEN c2 ELSE c1
  <2>. HIDE DEF f, x, y, c1, c2
  <2>. QED  BY Zenon DEF Steer, ds, f, x, y, c1, c2
<1>9. \/ x = <<0, 0>> /\ X = {}
      \/ x \in {<<1, 0>>, <<-1, 0>>} /\ x \in ds
  BY <1>2, <1>3, Zenon
<1>10. \/ y = <<0, 0>> /\ Y = {}
       \/ y \in {<<0, 1>>, <<0, -1>>} /\ y \in ds
  BY <1>2, <1>4, Zenon
<1>11. \A i \in {1, 2} : Called(f, p, s, i) <=>
         \/ s[i] = 0
         \/ Unit(i, s[i]) \in ds
         \/ s[i] = 1 /\ (IF i = 1 THEN o1 ELSE o2) < -AlignTol
         \/ s[i] = -1 /\ (IF i = 1 THEN o1 ELSE o2) > AlignTol
  <2>. HIDE DEF f, s
  <2>. QED  BY Zenon DEF Called, ds
<1>. HIDE DEF f, s, X, Y, x, y, c1, c2, o1, o2
<1>12. CASE x # <<0, 0>> /\ y # <<0, 0>>
  <2>1. s = <<x[1], y[2]>> /\ s \in Axis \X Axis /\ s # <<0, 0>>
    BY <1>8, <1>9, <1>10, <1>12 DEF Plus, Axis
  <2>2. Unit(1, s[1]) = x /\ Unit(2, s[2]) = y
    BY <1>9, <1>10, <1>12, <2>1 DEF Unit
  <2>. QED  BY <1>9, <1>10, <1>11, <1>12, <2>1, <2>2, Zenon DEF f, s
<1>13. CASE x # <<0, 0>> /\ y = <<0, 0>>
  <2>1. s = <<x[1], c2[2]>> /\ s \in Axis \X Axis /\ s # <<0, 0>>
    BY <1>7, <1>8, <1>9, <1>13 DEF Plus, Axis
  <2>2. Unit(1, s[1]) = x
    BY <1>9, <1>13, <2>1 DEF Unit
  <2>3. \/ s[2] = 0
        \/ s[2] = 1 /\ o2 < -AlignTol
        \/ s[2] = -1 /\ o2 > AlignTol
    BY <1>7, <2>1
  <2>. QED  BY <1>9, <1>11, <1>13, <2>1, <2>2, <2>3, Zenon DEF f, s
<1>14. CASE x = <<0, 0>> /\ y # <<0, 0>>
  <2>1. s = <<c1[1], y[2]>> /\ s \in Axis \X Axis /\ s # <<0, 0>>
    BY <1>6, <1>8, <1>10, <1>14 DEF Plus, Axis
  <2>2. Unit(2, s[2]) = y
    BY <1>10, <1>14, <2>1 DEF Unit
  <2>3. \/ s[1] = 0
        \/ s[1] = 1 /\ o1 < -AlignTol
        \/ s[1] = -1 /\ o1 > AlignTol
    BY <1>6, <2>1
  <2>. QED  BY <1>10, <1>11, <1>14, <2>1, <2>2, <2>3, Zenon DEF f, s
<1>15. CASE x = <<0, 0>> /\ y = <<0, 0>>
  <2>1. s \in {c1, c2} /\ s \in Axis \X Axis
    BY <1>6, <1>7, <1>8, <1>15 DEF Axis
  <2>2. s = <<0, 0>> => c1 = <<0, 0>> /\ c2 = <<0, 0>> /\ ds = {}
    BY <1>5, <1>8, <1>9, <1>10, <1>15
  <2>3. /\ s[1] = 0 \/ (s[1] = 1 /\ o1 < -AlignTol)
                    \/ (s[1] = -1 /\ o1 > AlignTol)
        /\ s[2] = 0 \/ (s[2] = 1 /\ o2 < -AlignTol)
                    \/ (s[2] = -1 /\ o2 > AlignTol)
    BY <1>6, <1>7, <2>1
  <2>. QED  BY <1>11, <2>1, <2>2, <2>3, Zenon DEF f, s, ds, c1, c2
<1>. QED  BY <1>12, <1>13, <1>14, <1>15, Zenon

(* Whoever is not in a wall is right of and below the walls of the edge,   *)
(* and what went over the wire is on the same tile and not in a wall.      *)
LEMMA Place ==
  ASSUME Walkable, NEW p \in Int \X Int, ~Collides(p)
  PROVE  /\ p[1] \in Nat /\ p[2] \in Nat
         /\ ToTile(p[1]) \in Nat \ {0} /\ ToTile(p[2]) \in Nat \ {0}
         /\ TileOf(p) = <<ToTile(p[1]), ToTile(p[2])>>
         /\ TileOf(p) \in Passable
         /\ OnWire(p) \in Nat \X Nat /\ ~Collides(OnWire(p))
         /\ TileOf(OnWire(p)) = TileOf(p)
         /\ ToTile(OnWire(p)[1]) = ToTile(p[1])
         /\ ToTile(OnWire(p)[2]) = ToTile(p[2])
<1>. DEFINE x == ToTile(p[1])
            y == ToTile(p[2])
            w == OnWire(p)
<1>1. TileOf(p) \in Passable /\ TileOf(p) = <<x, y>>
  BY OnOpenTile, Zenon
<1>2. x \in 0 .. Width - 1 /\ y \in 0 .. Height - 1 /\ <<x, y>> \notin Wall
  <2>. HIDE DEF x, y
  <2>. QED  BY <1>1 DEF Passable, Tiles, IsWall
<1>3. <<x, y>> \in Tiles /\ Width \in Nat /\ Height \in Nat
  BY <1>1, ArenaAssumption, Zenon DEF Passable
<1>4. x # 0 /\ y # 0
  <2>. HIDE DEF x, y
  <2>. QED  BY <1>2, <1>3, Zenon DEF Walkable
<1>5. p[1] \in Int /\ p[2] \in Int /\ ToTile(0) = 0
  <2>1. TileFp \in Nat \ {0}
    BY ArenaAssumption, Zenon
  <2>. QED  BY <2>1 DEF ToTile
<1>6. \A v \in Int : v < 0 => ToTile(v) <= 0
  BY <1>5, ToTileMono
<1>7. x \in Nat \ {0} /\ y \in Nat \ {0}
  <2>. HIDE DEF x, y
  <2>. QED  BY <1>2, <1>3, <1>4
<1>8. p[1] \in Nat /\ p[2] \in Nat
  BY <1>5, <1>6, <1>7
<1>9. w[1] = (p[1] \div 16) * 16 /\ w[2] = (p[2] \div 16) * 16
      /\ w = <<(p[1] \div 16) * 16, (p[2] \div 16) * 16>>
  BY Zenon DEF OnWire
<1>10. /\ w[1] \in Nat /\ ToTile(w[1]) = x /\ Span(w[1]) \subseteq Span(p[1])
       /\ w[2] \in Nat /\ ToTile(w[2]) = y /\ Span(w[2]) \subseteq Span(p[2])
  <2>. HIDE DEF w
  <2>. QED  BY <1>8, <1>9, WireFact, Zenon
<1>11. w \in Nat \X Nat /\ w \in Int \X Int
  BY <1>9, <1>10
<1>12. ~Collides(w)
  BY <1>10, Covered, Zenon
<1>13. TileOf(w) = <<x, y>>
  <2>. HIDE DEF w
  <2>. QED  BY <1>10, <1>11, <1>12, OnOpenTile, Zenon
<1>. QED  BY <1>1, <1>7, <1>8, <1>10, <1>11, <1>12, <1>13, Zenon

(* Next to a tile that is reached and not the goal there is an open one   *)
(* that is nearer.                                                         *)
LEMMA NearerNeighbour ==
  ASSUME NEW b \in Team, NEW t \in Tiles, Field[b][t] \notin {0, Unreachable}
  PROVE  /\ DistAt(Field[b], t) = Field[b][t]
         /\ \E d \in Cardinal : /\ Plus(t, d) \in Passable
                                /\ DistAt(Field[b], Plus(t, d)) < DistAt(Field[b], t)
<1>. DEFINE f == Field[b]
            s == TileOf(Base[b])
            L == Farthest
<1>0. L \in Nat /\ L < Unreachable /\ Unreachable \in Nat
  BY FlowFieldAssumption DEF Unreachable
<1>1. Searched(f, s, L)
  BY FieldFact, Zenon
<1>2. DistAt(f, t) = f[t]
  BY GridFact, Zenon DEF DistAt
<1>. HIDE DEF f, s, L
<1>3. f[t] \in 1 .. L
  <2>1. f[t] \in (0 .. L) \cup {Unreachable}
    BY <1>1, Zenon DEF Searched
  <2>2. f[t] # 0 /\ f[t] # Unreachable
    BY Zenon DEF f
  <2>. QED  BY <1>0, <2>1, <2>2
<1>4. PICK u \in Neighbours(t) : DistAt(f, u) = f[t] - 1
  BY <1>1, <1>3, Zenon DEF Searched
<1>5. DistAt(f, u) \in 0 .. L /\ DistAt(f, u) < f[t] /\ DistAt(f, u) # Unreachable
  BY <1>0, <1>3, <1>4
<1>6. InGrid(u) /\ f[u] = DistAt(f, u)
  BY <1>5, Zenon DEF DistAt
<1>7. u \in Tiles
  BY <1>6, GridFact, Zenon
<1>8. u \in Passable
  <2>1. f[u] = 0 => u \in Passable
    BY <1>1, <1>7, Zenon DEF Searched
  <2>2. f[u] \in 1 .. L => u \in Passable
    BY <1>1, <1>7, Zenon DEF Searched
  <2>3. f[u] = 0 \/ f[u] \in 1 .. L
    BY <1>0, <1>5, <1>6
  <2>. QED  BY <2>1, <2>2, <2>3, Zenon
<1>9. PICK d \in Cardinal : u = Plus(t, d)
  BY Zenon DEF Neighbours
<1>10. Plus(t, d) \in Passable /\ DistAt(f, Plus(t, d)) < f[t]
  BY <1>5, <1>8, <1>9, Zenon
<1>. QED  BY <1>2, <1>10 DEF f

(* The box can take a step toward the center of its tile.                  *)
LEMMA TowardIsFeasible ==
  ASSUME Walkable, NEW w \in Nat \X Nat, ~Collides(w)
  PROVE  /\ Off(w[1]) < -AlignTol => Feasible(w, <<1, 0>>)
         /\ Off(w[1]) > AlignTol => Feasible(w, <<-1, 0>>)
         /\ Off(w[2]) < -AlignTol => Feasible(w, <<0, 1>>)
         /\ Off(w[2]) > AlignTol => Feasible(w, <<0, -1>>)
<1>0. Speed \in Nat /\ w[1] \in Nat /\ w[2] \in Nat
  BY ArenaAssumption, Zenon
<1>1. /\ 1 * Speed = Speed /\ (-1) * Speed = -Speed /\ 0 * Speed = 0
      /\ w[1] + 0 = w[1] /\ w[2] + 0 = w[2]
      /\ w[1] + (-Speed) = w[1] - Speed /\ w[2] + (-Speed) = w[2] - Speed
  BY <1>0
<1>2. ASSUME NEW q, Span(q[1]) \subseteq Span(w[1]), Span(q[2]) \subseteq Span(w[2])
      PROVE  ~Collides(q)
  BY <1>2, Covered, Zenon
<1>3. /\ Feasible(w, <<1, 0>>) <=> ~Collides(<<w[1] + Speed, w[2]>>)
      /\ Feasible(w, <<-1, 0>>) <=> ~Collides(<<w[1] - Speed, w[2]>>)
      /\ Feasible(w, <<0, 1>>) <=> ~Collides(<<w[1], w[2] + Speed>>)
      /\ Feasible(w, <<0, -1>>) <=> ~Collides(<<w[1], w[2] - Speed>>)
  BY <1>1, Zenon DEF Feasible, Moved
<1>4. ASSUME NEW i \in {1, 2}
      PROVE  /\ Off(w[i]) < -AlignTol => Span(w[i] + Speed) \subseteq Span(w[i])
             /\ Off(w[i]) > AlignTol => Span(w[i] - Speed) \subseteq Span(w[i])
  BY <1>0, Recenters, Zenon
<1>5. Off(w[1]) < -AlignTol => ~Collides(<<w[1] + Speed, w[2]>>)
  <2>. DEFINE q == <<w[1] + Speed, w[2]>>
  <2>1. q[1] = w[1] + Speed /\ q[2] = w[2]
    BY Zenon
  <2>. HIDE DEF q
  <2>2. Off(w[1]) < -AlignTol => ~Collides(q)
    BY <1>2, <1>4, <2>1, Zenon
  <2>. QED  BY <2>2, Zenon DEF q
<1>6. Off(w[1]) > AlignTol => ~Collides(<<w[1] - Speed, w[2]>>)
  <2>. DEFINE q == <<w[1] - Speed, w[2]>>
  <2>1. q[1] = w[1] - Speed /\ q[2] = w[2]
    BY Zenon
  <2>. HIDE DEF q
  <2>2. Off(w[1]) > AlignTol => ~Collides(q)
    BY <1>2, <1>4, <2>1, Zenon
  <2>. QED  BY <2>2, Zenon DEF q
<1>7. Off(w[2]) < -AlignTol => ~Collides(<<w[1], w[2] + Speed>>)
  <2>. DEFINE q == <<w[1], w[2] + Speed>>
  <2>1. q[1] = w[1] /\ q[2] = w[2] + Speed
    BY Zenon
  <2>. HIDE DEF q
  <2>2. Off(w[2]) < -AlignTol => ~Collides(q)
    BY <1>2, <1>4, <2>1, Zenon
  <2>. QED  BY <2>2, Zenon DEF q
<1>8. Off(w[2]) > AlignTol => ~Collides(<<w[1], w[2] - Speed>>)
  <2>. DEFINE q == <<w[1], w[2] - Speed>>
  <2>1. q[1] = w[1] /\ q[2] = w[2] - Speed
    BY Zenon
  <2>. HIDE DEF q
  <2>2. Off(w[2]) > AlignTol => ~Collides(q)
    BY <1>2, <1>4, <2>1, Zenon
  <2>. QED  BY <2>2, Zenon DEF q
<1>. QED  BY <1>3, <1>5, <1>6, <1>7, <1>8, Zenon

(* A box within AlignTol of the center can take a step to any open tile    *)
(* next to its own.                                                        *)
LEMMA NextIsFeasible ==
  ASSUME Walkable, NEW w \in Nat \X Nat,
         ToTile(w[1]) # 0, ToTile(w[2]) # 0,
         \A i \in {1, 2} : -AlignTol <= Off(w[i]) /\ Off(w[i]) <= AlignTol,
         ~IsWall(<<ToTile(w[1]), ToTile(w[2])>>),
         NEW d \in Cardinal, ~IsWall(Plus(<<ToTile(w[1]), ToTile(w[2])>>, d))
  PROVE  Feasible(w, d)
<1>. DEFINE x == ToTile(w[1])
            y == ToTile(w[2])
            q == Moved(w, d[1] * Speed, d[2] * Speed)
<1>0. /\ Speed \in Nat /\ w[1] \in Nat /\ w[2] \in Nat
      /\ x \in Nat /\ y \in Nat
  BY ArenaAssumption, TileBounds, Zenon
<1>1. /\ 1 * Speed = Speed /\ (-1) * Speed = -Speed /\ 0 * Speed = 0
      /\ w[1] + 0 = w[1] /\ w[2] + 0 = w[2]
      /\ w[1] + (-Speed) = w[1] - Speed /\ w[2] + (-Speed) = w[2] - Speed
  BY <1>0
<1>2. /\ Span(w[1]) \subseteq {x}
      /\ Span(w[1] + Speed) \subseteq {x, x + 1}
      /\ Span(w[1] - Speed) \subseteq {x, x - 1}
  BY <1>0, CenterSteps, Zenon
<1>3. /\ Span(w[2]) \subseteq {y}
      /\ Span(w[2] + Speed) \subseteq {y, y + 1}
      /\ Span(w[2] - Speed) \subseteq {y, y - 1}
  BY <1>0, CenterSteps, Zenon
<1>4. ~IsWall(<<x, y>>) /\ ~IsWall(<<x + d[1], y + d[2]>>)
  BY Zenon DEF Plus
<1>5. q[1] = w[1] + d[1] * Speed /\ q[2] = w[2] + d[2] * Speed
  BY Zenon DEF Moved
<1>. HIDE DEF x, y, q
<1>6. ASSUME NEW i \in Span(q[1]), NEW j \in Span(q[2])
      PROVE  <<i, j>> \in {<<x, y>>, <<x + d[1], y + d[2]>>}
  <2>1. CASE d = <<1, 0>>
    <3>1. i \in {x, x + 1} /\ j = y
      BY <1>1, <1>2, <1>3, <1>5, <1>6, <2>1, Zenon
    <3>. QED  BY <1>0, <2>1, <3>1
  <2>2. CASE d = <<-1, 0>>
    <3>1. i \in {x, x - 1} /\ j = y
      BY <1>1, <1>2, <1>3, <1>5, <1>6, <2>2, Zenon
    <3>. QED  BY <1>0, <2>2, <3>1
  <2>3. CASE d = <<0, 1>>
    <3>1. i = x /\ j \in {y, y + 1}
      BY <1>1, <1>2, <1>3, <1>5, <1>6, <2>3, Zenon
    <3>. QED  BY <1>0, <2>3, <3>1
  <2>4. CASE d = <<0, -1>>
    <3>1. i = x /\ j \in {y, y - 1}
      BY <1>1, <1>2, <1>3, <1>5, <1>6, <2>4, Zenon
    <3>. QED  BY <1>0, <2>4, <3>1
  <2>. QED  BY <2>1, <2>2, <2>3, <2>4, Zenon DEF Cardinal
<1>7. \A i \in Span(q[1]), j \in Span(q[2]) : ~IsWall(<<i, j>>)
  BY <1>4, <1>6, Zenon
<1>8. ~Collides(q)
  BY <1>7, Zenon DEF Collides, Span
<1>. QED  BY <1>8, Zenon DEF Feasible, q

(* A bot is never wedged where the field leads on: steer presses a button. *)
LEMMA NotWedged ==
  ASSUME Walkable, NEW b \in Team, NEW w \in Nat \X Nat, ~Collides(w),
         ToTile(w[1]) # 0, ToTile(w[2]) # 0,
         Field[b][TileOf(w)] \notin {0, Unreachable}
  PROVE  Steer(Field[b], w) # <<0, 0>>
<1>. DEFINE f == Field[b]
            t == TileOf(w)
<1>0. w \in Int \X Int
  OBVIOUS
<1>1. t \in Passable /\ t = <<ToTile(w[1]), ToTile(w[2])>>
  BY <1>0, OnOpenTile, Zenon
<1>2. t \in Tiles
  BY <1>1, Zenon DEF Passable
<1>3. PICK d \in Cardinal : Plus(t, d) \in Passable
                            /\ DistAt(f, Plus(t, d)) < DistAt(f, t)
  BY <1>2, NearerNeighbour, Zenon
<1>4. DistAt(f, t) \notin {0, Unreachable}
  BY <1>2, NearerNeighbour, Zenon
<1>5. \A i \in {1, 2} : w[i] - Centered(t)[i] = Off(w[i])
  BY <1>1 DEF Centered, Off
<1>6. w[1] \in Nat /\ w[2] \in Nat /\ AlignTol \in Nat
      /\ Off(w[1]) \in Int /\ Off(w[2]) \in Int
  <2>1. w[1] \in Nat /\ w[2] \in Nat
    BY Zenon
  <2>2. AlignTol \in Nat /\ Margin \in Nat
    BY UnitFact, Zenon
  <2>3. ToTile(w[1]) * TileFp \in Nat /\ ToTile(w[2]) * TileFp \in Nat
    BY <2>1, TileBounds, Zenon
  <2>. QED  BY <2>1, <2>2, <2>3 DEF Off
<1>. SUFFICES ASSUME Steer(f, w) = <<0, 0>>  PROVE FALSE
  BY Zenon
<1>7. /\ Descending(f, w) = {}
      /\ TowardCenter(w, 1) = <<0, 0>> /\ TowardCenter(w, 2) = <<0, 0>>
  BY <1>2, <1>4, SteerShape, Zenon
<1>8. -AlignTol <= Off(w[1]) /\ Off(w[1]) <= AlignTol
  <2>1. /\ Off(w[1]) < -AlignTol => Feasible(w, <<1, 0>>)
        /\ Off(w[1]) > AlignTol => Feasible(w, <<-1, 0>>)
    BY TowardIsFeasible, Zenon
  <2>2. ~(Off(w[1]) < -AlignTol) /\ ~(Off(w[1]) > AlignTol)
    BY <1>5, <1>6, <1>7, <2>1 DEF TowardCenter
  <2>. QED  BY <1>6, <2>2
<1>9. -AlignTol <= Off(w[2]) /\ Off(w[2]) <= AlignTol
  <2>1. /\ Off(w[2]) < -AlignTol => Feasible(w, <<0, 1>>)
        /\ Off(w[2]) > AlignTol => Feasible(w, <<0, -1>>)
    BY TowardIsFeasible, Zenon
  <2>2. ~(Off(w[2]) < -AlignTol) /\ ~(Off(w[2]) > AlignTol)
    BY <1>5, <1>6, <1>7, <2>1 DEF TowardCenter
  <2>. QED  BY <1>6, <2>2
<1>10. ~IsWall(t) /\ ~IsWall(Plus(t, d))
  BY <1>1, <1>3, Zenon DEF Passable
<1>11. Feasible(w, d)
  BY <1>1, <1>8, <1>9, <1>10, NextIsFeasible, Zenon
<1>12. d \in Descending(f, w)
  BY <1>3, <1>11, Zenon DEF Descending, TilePassable
<1>. QED  BY <1>7, <1>12, Zenon

(* What a step does to one coordinate: it stays on the tile or gets to the *)
(* next one, and toward the center it stays.                               *)
LEMMA AxisStep ==
  ASSUME Walkable, NEW v \in Nat, ToTile(v) # 0, NEW a \in Axis, NEW c \in Axis,
         NEW r \in {v, v + Velocity(a, c)}
  PROVE  LET w == (v \div 16) * 16
         IN  /\ ToTile(r) \in {ToTile(v), ToTile(v) + a}
             /\ a = 0 \/ (a = 1 /\ Off(w) < -AlignTol)
                      \/ (a = -1 /\ Off(w) > AlignTol)
                  => ToTile(r) = ToTile(v)
<1>. DEFINE w == (v \div 16) * 16
            t == ToTile(v)
            s == Velocity(a, c)
<1>0. t \in Nat /\ Speed \in Nat
  BY TileBounds, ArenaAssumption, Zenon
<1>1. CASE r = v
  BY <1>1, Zenon
<1>2. CASE r # v /\ a = 0
  BY <1>2, VelocityBound
<1>3. CASE r # v /\ a = 1
  <2>1. s \in 0 .. Speed /\ r = v + s
    BY <1>3, VelocityBound, Zenon
  <2>. HIDE DEF s
  <2>2. ToTile(r) \in {t, t + 1} /\ (Off(w) < -AlignTol => ToTile(r) = t)
    BY <2>1, OneTile, StaysOnTile, Zenon
  <2>. HIDE DEF t, w
  <2>. QED  BY <1>3, <2>2 DEF t, w
<1>4. CASE r # v /\ a = -1
  <2>. DEFINE n == -s
  <2>1. n \in 0 .. Speed /\ r = v + s
    BY <1>4, VelocityBound, Zenon
  <2>2. s \in Int
    <3>1. Speed \in Nat /\ Diagonal \in Nat
      BY ArenaAssumption, Zenon
    <3>2. (-1) * Speed \in Int
      BY <3>1
    <3>3. (-1) * Speed * Diagonal \in Int
      BY <3>1, <3>2
    <3>. QED  BY <1>4, <3>2, <3>3 DEF Velocity
  <2>. HIDE DEF s
  <2>3. r = v - n
    BY <2>1, <2>2
  <2>. HIDE DEF n
  <2>4. ToTile(r) \in {t, t - 1} /\ (Off(w) > AlignTol => ToTile(r) = t)
    BY <2>1, <2>3, OneTile, StaysOnTile, ZenonT(30)
  <2>5. t - 1 = t + a
    BY <1>0, <1>4, Zenon
  <2>. HIDE DEF t, w
  <2>. QED  BY <1>4, <2>4, <2>5 DEF t, w
<1>. QED  BY <1>1, <1>2, <1>3, <1>4, Zenon DEF Axis

(* movement_step moves each coordinate by its button, or not at all.       *)
LEMMA StepAxes ==
  ASSUME NEW p \in Int \X Int, NEW s \in Axis \X Axis
  PROVE  LET q == MovementStep(p, s)
         IN  /\ q[1] \in {p[1], p[1] + Velocity(s[1], s[2])}
             /\ q[2] \in {p[2], p[2] + Velocity(s[2], s[1])}
<1>. DEFINE m == AlongX(p, s)
<1>0. Velocity(s[1], s[2]) \in Int /\ Velocity(s[2], s[1]) \in Int
  <2>1. Speed \in Nat /\ Diagonal \in Nat
    BY ArenaAssumption, Zenon
  <2>2. ASSUME NEW a \in Axis, NEW c  PROVE Velocity(a, c) \in Int
    <3>1. a * Speed \in Int
      BY <2>1 DEF Axis
    <3>2. a * Speed * Diagonal \in Int
      BY <2>1, <3>1
    <3>. QED  BY <3>1, <3>2 DEF Velocity
  <2>3. s[1] \in Axis /\ s[2] \in Axis
    BY Zenon
  <2>. QED  BY <2>2, <2>3, Zenon
<1>1. p[1] \in Int /\ p[2] \in Int
  BY Zenon
<1>2. m \in {p, <<p[1] + Velocity(s[1], s[2]), p[2] + 0>>}
  BY Zenon DEF AlongX, Moved
<1>3. m[1] \in {p[1], p[1] + Velocity(s[1], s[2])} /\ m[2] = p[2] /\ m[1] + 0 = m[1]
  <2>. HIDE DEF m
  <2>. QED  BY <1>0, <1>1, <1>2
<1>4. AlongY(m, s) \in {m, <<m[1] + 0, m[2] + Velocity(s[2], s[1])>>}
  <2>. HIDE DEF m
  <2>. QED  BY Zenon DEF AlongY, Moved
<1>5. MovementStep(p, s) = AlongY(m, s)
  BY Zenon DEF MovementStep
<1>. HIDE DEF m
<1>. QED  BY <1>3, <1>4, <1>5

(* A step with the buttons of steer, decided from what went over the wire, *)
(* does not lead further from the goal.                                    *)
LEMMA NotFurther ==
  ASSUME Walkable, NEW b \in Team, NEW p \in Int \X Int, ~Collides(p),
         Field[b][TileOf(p)] \notin {0, Unreachable}
  PROVE  DistAt(Field[b], TileOf(MovementStep(p, Steer(Field[b], OnWire(p)))))
           <= DistAt(Field[b], TileOf(p))
<1>. DEFINE f == Field[b]
            w == OnWire(p)
            s == Steer(f, w)
            q == MovementStep(p, s)
            x == ToTile(p[1])
            y == ToTile(p[2])
            i == ToTile(q[1])
            j == ToTile(q[2])
            D == f[<<x, y>>]
            L == Farthest
<1>1. /\ p[1] \in Nat /\ p[2] \in Nat /\ x \in Nat \ {0} /\ y \in Nat \ {0}
      /\ TileOf(p) = <<x, y>> /\ <<x, y>> \in Passable
      /\ w \in Nat \X Nat /\ ~Collides(w) /\ TileOf(w) = <<x, y>>
      /\ ToTile(w[1]) = x /\ ToTile(w[2]) = y
  BY Place, Zenon
<1>2. <<x, y>> \in Tiles
  BY <1>1, Zenon DEF Passable
<1>3. DistAt(f, <<x, y>>) = D /\ D \notin {0, Unreachable}
  BY <1>1, <1>2, NearerNeighbour, Zenon
<1>4. /\ s \in Axis \X Axis
      /\ Called(f, w, s, 1) /\ Called(f, w, s, 2)
  BY <1>1, <1>2, <1>3, SteerShape, Zenon
<1>5. q \in Int \X Int /\ ~Collides(q)
  <2>1. s \in Int \X Int
    BY <1>4 DEF Axis
  <2>. HIDE DEF s
  <2>. QED  BY <2>1, StepType, StepFits, Zenon
<1>6. TileOf(q) = <<i, j>> /\ <<i, j>> \in Passable
  <2>. HIDE DEF q
  <2>. QED  BY <1>5, OnOpenTile, Zenon
<1>7. /\ w[1] = (p[1] \div 16) * 16 /\ w[2] = (p[2] \div 16) * 16
      /\ w[1] - Centered(<<x, y>>)[1] = Off(w[1])
      /\ w[2] - Centered(<<x, y>>)[2] = Off(w[2])
  <2>1. w[1] = (p[1] \div 16) * 16 /\ w[2] = (p[2] \div 16) * 16
    BY Zenon DEF OnWire
  <2>. HIDE DEF w
  <2>. QED  BY <1>1, <2>1, Zenon DEF Centered, Off
<1>8. /\ q[1] \in {p[1], p[1] + Velocity(s[1], s[2])}
      /\ q[2] \in {p[2], p[2] + Velocity(s[2], s[1])}
      /\ s[1] \in Axis /\ s[2] \in Axis
  <2>. HIDE DEF s
  <2>. QED  BY <1>4, StepAxes, Zenon
<1>. HIDE DEF f, w, s, q
<1>9. /\ i \in {x, x + s[1]}
      /\ s[1] = 0 \/ (s[1] = 1 /\ Off(w[1]) < -AlignTol)
                  \/ (s[1] = -1 /\ Off(w[1]) > AlignTol) => i = x
  BY <1>1, <1>7, <1>8, AxisStep
<1>10. /\ j \in {y, y + s[2]}
       /\ s[2] = 0 \/ (s[2] = 1 /\ Off(w[2]) < -AlignTol)
                   \/ (s[2] = -1 /\ Off(w[2]) > AlignTol) => j = y
  BY <1>1, <1>7, <1>8, AxisStep
<1>11. i # x => /\ i = x + s[1] /\ <<s[1], 0>> \in Descending(f, w)
  BY <1>1, <1>4, <1>7, <1>9, Zenon DEF Called, Unit
<1>12. j # y => /\ j = y + s[2] /\ <<0, s[2]>> \in Descending(f, w)
  BY <1>1, <1>4, <1>7, <1>10 DEF Called, Unit
<1>. HIDE DEF x, y, i, j
<1>13. i # x => <<i, y>> \in Passable /\ DistAt(f, <<i, y>>) < D
  BY <1>1, <1>3, <1>11 DEF Descending, TilePassable, Plus
<1>14. j # y => <<x, j>> \in Passable /\ DistAt(f, <<x, j>>) < D
  BY <1>1, <1>3, <1>12 DEF Descending, TilePassable, Plus
<1>15. Searched(f, TileOf(Base[b]), L) /\ L \in Nat /\ L < Unreachable
       /\ Unreachable \in Nat
  BY FieldFact, FlowFieldAssumption DEF f, Unreachable
<1>. HIDE DEF L
<1>16. D \in 1 .. L
  <2>1. D \in (0 .. L) \cup {Unreachable}
    BY <1>2, <1>15, Zenon DEF Searched
  <2>. QED  BY <1>3, <1>15, <2>1
<1>. HIDE DEF D
<1>17. ASSUME i # x, j # y  PROVE DistAt(f, <<i, j>>) <= D
  <2>. DEFINE u == <<i, y>>
              k == DistAt(f, u)
  <2>1. u \in Neighbours(<<i, j>>)
    <3>1. s[2] \in {1, -1} /\ j = y + s[2]
      BY <1>8, <1>10, <1>12, <1>17, Zenon DEF Axis
    <3>2. <<0, -s[2]>> \in Cardinal /\ y = j + (-s[2]) /\ i = i + 0
      <4>1. i \in Int
        BY <1>6 DEF Passable, Tiles
      <4>. QED  BY <1>1, <3>1, <4>1 DEF Cardinal
    <3>3. u = Plus(<<i, j>>, <<0, -s[2]>>)
      BY <3>2, Zenon DEF Plus
    <3>. QED  BY <3>2, <3>3, Zenon DEF Neighbours
  <2>2. k \in 0 .. Unreachable /\ k < D
    <3>1. u \in Tiles
      BY <1>13, <1>17, Zenon DEF Passable
    <3>. QED  BY <1>13, <1>17, <3>1, DistType, Zenon DEF f
  <2>3. k \in 0 .. L - 1
    <3>. HIDE DEF k
    <3>. QED  BY <1>15, <1>16, <2>2
  <2>4. f[<<i, j>>] <= k + 1
    <3>. HIDE DEF u
    <3>. QED  BY <1>6, <1>15, <2>1, <2>3, Zenon DEF Searched
  <2>5. <<i, j>> \in Tiles
    BY <1>6, Zenon DEF Passable
  <2>6. DistAt(f, <<i, j>>) = f[<<i, j>>] /\ DistAt(f, <<i, j>>) \in 0 .. Unreachable
    BY <2>5, GridFact, DistType, Zenon DEF DistAt, f
  <2>. HIDE DEF k
  <2>. QED  BY <1>16, <2>2, <2>3, <2>4, <2>6
<1>18. \A n \in 0 .. Unreachable : n < D => n <= D
  BY <1>15, <1>16
<1>19. DistAt(f, <<i, j>>) <= D
  <2>1. CASE i = x /\ j = y
    BY <1>3, <1>16, <2>1
  <2>2. CASE i # x /\ j = y
    <3>1. DistAt(f, <<i, j>>) \in 0 .. Unreachable
      BY <1>6, DistType, Zenon DEF Passable, f
    <3>. QED  BY <1>13, <1>18, <2>2, <3>1, Zenon
  <2>3. CASE i = x /\ j # y
    <3>1. DistAt(f, <<i, j>>) \in 0 .. Unreachable
      BY <1>6, DistType DEF Passable, f
    <3>. QED  BY <1>14, <1>18, <2>3, <3>1, Zenon
  <2>. QED  BY <1>17, <2>1, <2>2, <2>3, Zenon
<1>. QED  BY <1>1, <1>3, <1>6, <1>19, Zenon DEF f, w, s, q

(* The newest snapshot is the last one under way; without latency it is    *)
(* the only one, so that the bot sees where it is, cut to the wire.        *)
Fresh ==
  /\ latency \in Nat /\ Len(view) = latency + 1
  /\ latency = 0 => Head(view).pos = OnWire(pos)

(* A step keeps it.                                                        *)
LEMMA FreshStep ==
  ASSUME Sane, Fresh, [Next]_vars
  PROVE  Fresh'
<1>. USE DEF Fresh
<1>1. CASE Tick
  <2>1. PICK s : view' = Append(Tail(view), s) /\ s.pos = OnWire(pos')
    BY <1>1 DEF Tick, Snapshot
  <2>2. view \in Seq(Seen) /\ latency' = latency
    BY <1>1, Zenon DEF Sane, Tick
  <2>3. Len(view') = latency + 1
    BY <2>1, <2>2
  <2>4. ASSUME latency = 0  PROVE Head(view') = s
    <3>1. Tail(view) \in Seq(Seen) /\ Len(Tail(view)) = 0
      BY <2>2, <2>4, SMTT(30)
    <3>2. Append(Tail(view), s)[Len(Tail(view)) + 1] = s
      BY <3>1
    <3>3. Len(Tail(view)) + 1 = 1
      BY <2>2, <2>4, <3>1
    <3>4. view'[1] = s
      BY <2>1, <3>2, <3>3, Zenon
    <3>5. Head(view') = view'[1]
      BY <2>1, <3>1
    <3>. QED  BY <3>4, <3>5, Zenon
  <2>. QED  BY <2>1, <2>2, <2>3, <2>4, Zenon
<1>2. CASE RaiderGone
  BY <1>2, Zenon DEF RaiderGone
<1>3. CASE UNCHANGED vars
  BY <1>3, Zenon DEF vars
<1>. QED  BY <1>1, <1>2, <1>3, Zenon DEF Next

(* It holds at the start.                                                  *)
LEMMA FreshInit == Init => Fresh
<1>. SUFFICES ASSUME Init  PROVE Fresh
  BY Zenon
<1>1. latency \in Nat
  BY BotAssumption, Zenon DEF Init
<1>2. view = [n \in 1 .. latency + 1 |-> Snapshot(pos, carrying, ownFlag, raider)]
  BY DEF Init
<1>3. Snapshot(pos, carrying, ownFlag, raider).pos = OnWire(pos)
  BY Zenon DEF Snapshot
<1>4. Len(view) = latency + 1 /\ Head(view) = view[1]
  BY <1>1, <1>2
<1>. QED  BY <1>1, <1>2, <1>3, <1>4 DEF Fresh

(* One step of a bot that sees where it is.                                *)
LEMMA DownhillStep ==
  ASSUME Connected, Walkable, Sane, Fresh, NeverInWall, Tick,
         latency = 0, ~Hunts(Head(view)),
         DistAt(Field[Goal(team, Head(view))], TileOf(pos)) > 2
  PROVE  DistAt(Field[Goal(team, Head(view))], TileOf(pos'))
           <= DistAt(Field[Goal(team, Head(view))], TileOf(pos))
<1>. DEFINE g == Goal(team, Head(view))
            w == OnWire(pos)
            t == TileOf(pos)
<1>1. g \in Team
  BY Zenon DEF Goal, Enemy, Team, Sane
<1>. HIDE DEF g
<1>2. pos \in Int \X Int /\ ~Collides(pos)
  BY Zenon DEF Sane, NeverInWall
<1>3. /\ t \in Passable /\ w \in Nat \X Nat /\ ~Collides(w) /\ TileOf(w) = t
      /\ ToTile(w[1]) # 0 /\ ToTile(w[2]) # 0
  BY <1>2, Place, Zenon
<1>4. t \in Tiles /\ Field[g][t] # Unreachable
  BY <1>1, <1>3, Zenon DEF Passable, Connected
<1>5. DistAt(Field[g], t) = Field[g][t] /\ Field[g][t] \in Nat /\ Field[g][t] > 2
  <2>1. DistAt(Field[g], t) = Field[g][t]
    BY <1>4, GridFact, Zenon DEF DistAt
  <2>2. DistAt(Field[g], t) \in 0 .. Unreachable
    BY <1>1, <1>4, DistType, Zenon
  <2>3. DistAt(Field[g], t) > 2
    BY DEF g
  <2>4. Unreachable \in Nat
    BY DEF Unreachable
  <2>. QED  BY <2>1, <2>2, <2>3, <2>4
<1>6. Field[g][t] \notin {0, Unreachable}
  BY <1>4, <1>5
<1>7. Steer(Field[g], w) # <<0, 0>>
  BY <1>1, <1>3, <1>6, NotWedged, Zenon
<1>8. Navigate(g, w) = Steer(Field[g], w)
  BY <1>3, <1>5, <1>7 DEF Navigate
<1>9. pos' = MovementStep(pos, Steer(Field[g], w))
  <2>1. pos' = MovementStep(pos, BotTick(team, Head(view)))
    BY Zenon DEF Tick
  <2>2. BotTick(team, Head(view)) = Navigate(g, w)
    BY Zenon DEF BotTick, Fresh, g
  <2>. QED  BY <1>8, <2>1, <2>2, Zenon
<1>10. DistAt(Field[g], TileOf(MovementStep(pos, Steer(Field[g], w))))
         <= DistAt(Field[g], t)
  BY <1>1, <1>2, <1>6, NotFurther, Zenon
<1>. QED  BY <1>9, <1>10, Zenon DEF g

(* On every map where each open tile is within reach of both bases, and    *)
(* with any box and speed that fit its tiles, a bot that sees where it is  *)
(* never gets further from the base it is heading for: steer always finds  *)
(* a button, so that greedy_buttons is left to the last two tiles.         *)
THEOREM DownhillSafe ==
  ASSUME Connected, Walkable
  PROVE  Spec => Downhill
<1>. DEFINE I == Sane /\ carrying \in BOOLEAN /\ Fresh
<1>1. Init => I
  BY SaneInit, FreshInit, Zenon
<1>2. I /\ [Next]_vars => I'
  BY SaneStep, FreshStep, Zenon
<1>3. Spec => []I
  BY <1>1, <1>2, PTL DEF Spec
<1>4. ASSUME I, NeverInWall, [Next]_vars
      PROVE  [latency = 0 /\ ~Hunts(Head(view)) =>
                LET f == Field[Goal(team, Head(view))]
                IN  DistAt(f, TileOf(pos)) > 2 =>
                      DistAt(f, TileOf(pos')) <= DistAt(f, TileOf(pos))]_vars
  <2>1. CASE Tick
    BY <1>4, <2>1, DownhillStep, Zenon
  <2>2. CASE RaiderGone
    <3>. DEFINE n == DistAt(Field[Goal(team, Head(view))], TileOf(pos))
    <3>1. pos' = pos
      BY <2>2, Zenon DEF RaiderGone
    <3>2. n \in Int
      <4>1. Goal(team, Head(view)) \in Team
        BY <1>4, Zenon DEF Goal, Enemy, Team, Sane
      <4>2. TileOf(pos) \in Tiles
        BY <1>4, TileOfType, Zenon DEF Sane
      <4>. QED  BY <4>1, <4>2, DistType
    <3>3. n <= n
      BY <3>2
    <3>. QED  BY <3>1, <3>3, Zenon
  <2>. QED  BY <1>4, <2>1, <2>2, Zenon DEF Next
<1>. QED  BY <1>3, <1>4, StaysOutOfWalls, PTL DEF Spec, Downhill

=============================================================================
