--------------------------------- MODULE Bot ---------------------------------
(***************************************************************************)
(* One bot and the match around it: BotAI::tick (bot/bot_ai.cpp) decides   *)
(* from a snapshot that is some ticks old and rounded to the wire, and the *)
(* simulation moves the bot and lets it take and bring home the enemy's    *)
(* flag.  Meanwhile an enemy, standing somewhere with the bot's own flag,  *)
(* may be killed at any time.  Shooting is left out: it moves nobody.      *)
(***************************************************************************)
EXTENDS FlowField

CONSTANTS
  Base,          \* kRedBasePosition, kBlueBasePosition, by team
  Starts,        \* the situations to start from, records of
                 \*   team, pos: the bot's team and spawn point,
                 \*   latency: the age in ticks of the snapshots it sees,
                 \*   raider: where an enemy stands with its flag, if any
  ReturnTicks,   \* kFlagAutoReturnTicks
  ScoreToWin,    \* kScoreToWin
  Patience       \* bound: ticks a bot is given for a capture

Team == {"Red", "Blue"}
Enemy(t) == IF t = "Red" THEN "Blue" ELSE "Red"
Nowhere == <<>>

ASSUME BotAssumption ==
  /\ \A t \in Team : Base[t] \in Int \X Int
  /\ \A s \in Starts :
       /\ s.team \in Team /\ s.latency \in Nat
       /\ s.pos \in Int \X Int /\ ~Collides(s.pos)
       /\ s.raider \in (Int \X Int) \cup {Nowhere}
  /\ {ReturnTicks, ScoreToWin, Patience} \subseteq Nat

VARIABLES
  team, latency,  \* of the bot; they never change
  pos, carrying,  \* Sim::Player
  ownFlag, age,   \* its team's flag and, dropped, its age
  raider,         \* where the flag was carried to, or Nowhere
  score,
  idle,           \* history variable: ticks without a capture, unless raided
  view            \* the snapshots under way to the bot, the oldest first

vars == <<team, latency, pos, carrying, ownFlag, age, raider, score, idle, view>>

(* Positions are cut to 1/16 px on the wire. *)
OnWire(p) == <<(p[1] \div 16) * 16, (p[2] \div 16) * 16>>

(* What a bot reads in a snapshot: itself, and the carrier of its flag. *)
Snapshot(p, c, f, r) ==
  [pos |-> OnWire(p), carrying |-> c,
   hunted |-> IF f = "Carried" THEN OnWire(r) ELSE Nowhere]

Init ==
  /\ \E s \in Starts :
       team = s.team /\ latency = s.latency /\ pos = s.pos /\ raider = s.raider
  /\ carrying = FALSE
  /\ ownFlag = IF raider = Nowhere THEN "AtBase" ELSE "Carried"
  /\ age = 0 /\ score = 0 /\ idle = 0
  /\ view = [i \in 1 .. latency + 1 |-> Snapshot(pos, carrying, ownFlag, raider)]

-----------------------------------------------------------------------------
(* BotAI *)

(* own_base_field_ and enemy_base_field_, built once. *)
Field == [Red |-> Build(Base.Red), Blue |-> Build(Base.Blue)]

(* What the map of the game has: both bases are within reach of every open *)
(* tile.                                                                   *)
Connected == \A b \in Team, t \in Passable : Field[b][t] # Unreachable

(* And what its units have: there is a wall along the upper and left edge, *)
(* the wire cuts no position into another tile, a box within AlignTol of   *)
(* the center fits into its tile, and no step leads across the center and  *)
(* out of the tile on the other side.                                      *)
Walkable ==
  /\ \A t \in Tiles : 0 \in {t[1], t[2]} => t \in Wall
  /\ TileFp % 16 = 0 /\ BoxFp >= 16 /\ Diagonal <= 256
  /\ AlignTol <= Margin /\ Speed <= Margin + AlignTol

Abs(n) == IF n >= 0 THEN n ELSE -n
Sign(n) == IF n > 0 THEN 1 ELSE -1

(* How much nearer to q a step d brings p, up to a factor: the squares of  *)
(* the distances differ by Speed times this.  The code compares floats,    *)
(* which may settle a difference below their precision otherwise.          *)
Gain(p, q, d) ==
  2 * ((q[1] - p[1]) * d[1] + (q[2] - p[2]) * d[2])
    - Speed * (Abs(d[1]) + Abs(d[2]))

(* The order in which greedy_buttons tries: right, left, down, up, and the *)
(* diagonal last.                                                          *)
Order(d) == CASE d = <<1, 0>> -> 1 [] d = <<-1, 0>> -> 2 [] d = <<0, 1>> -> 3
              [] d = <<0, -1>> -> 4 [] OTHER -> 5

(* greedy_buttons: the open step that ends nearest, the first of equals;   *)
(* nothing within 4 px.                                                    *)
Near == 4 * 256
Greedy(p, q) ==
  LET off == <<q[1] - p[1], q[2] - p[2]>>
      diagonal == IF Abs(off[1]) > Near /\ Abs(off[2]) > Near
                  THEN {<<Sign(off[1]), Sign(off[2])>>} ELSE {}
      steps == {d \in Cardinal \cup diagonal : Feasible(p, d)}
  IN  IF (Abs(off[1]) <= Near /\ Abs(off[2]) <= Near) \/ steps = {}
      THEN <<0, 0>>
      ELSE CHOOSE d \in steps :
             \A e \in steps \ {d} :
               \/ Gain(p, q, d) > Gain(p, q, e)
               \/ Gain(p, q, d) = Gain(p, q, e) /\ Order(d) < Order(e)

(* Mutant: a bot with a flag stays at the enemy's base. *)
GoalAway(t, v) == Enemy(t)

(* Where the bot is heading: home with a flag, else to the enemy's base. *)
Goal(t, v) == IF v.carrying THEN t ELSE Enemy(t)
Hunts(v) == ~v.carrying /\ v.hunted # Nowhere

(* The field as far as the last two tiles, then straight on. *)
Navigate(goal, p) ==
  LET buttons == Steer(Field[goal], p)
  IN  IF DistAt(Field[goal], TileOf(p)) <= 2 \/ buttons = <<0, 0>>
      THEN Greedy(p, Base[goal]) ELSE buttons

BotTick(t, v) ==
  IF Hunts(v) THEN Greedy(v.pos, v.hunted) ELSE Navigate(Goal(t, v), v.pos)

-----------------------------------------------------------------------------
(* The simulation, as far as it concerns the bot. *)

OwnFlagNext(p) ==
  IF ownFlag = "Dropped" /\ (age >= ReturnTicks \/ Overlaps(p, raider))
  THEN "AtBase" ELSE ownFlag

(* One tick: the input decided from the oldest snapshot under way, then    *)
(* movement_step, then flags_phase, then publish.                          *)
Tick ==
  /\ score < ScoreToWin /\ idle <= Patience
  /\ \E p \in {MovementStep(pos, BotTick(team, Head(view)))} :
     LET own == OwnFlagNext(p)
         carries == carrying \/ Overlaps(p, Base[Enemy(team)])
         captures == carries /\ own = "AtBase" /\ Overlaps(p, Base[team])
         carried == carries /\ ~captures
     IN  /\ pos' = p
         /\ ownFlag' = own
         /\ age' = IF own = "Dropped" THEN age + 1 ELSE 0
         /\ carrying' = carried
         /\ score' = IF captures THEN score + 1 ELSE score
         /\ idle' = IF captures \/ own = "Carried" THEN 0 ELSE idle + 1
         /\ view' = Append(Tail(view), Snapshot(p, carried, own, raider))
  /\ UNCHANGED <<team, latency, raider>>

(* The enemy with the own flag is killed or leaves, and the flag falls. *)
RaiderGone ==
  /\ ownFlag = "Carried"
  /\ ownFlag' = "Dropped"
  /\ UNCHANGED <<team, latency, pos, carrying, age, raider, score, idle, view>>

Next == Tick \/ RaiderGone

Spec == Init /\ [][Next]_vars

-----------------------------------------------------------------------------
(* Properties *)

(* movement_step never puts a player into a wall, whatever the buttons:    *)
(* sliding along one axis starts from where the other one ended.           *)
NeverInWall == ~Collides(pos)

(* Wherever a bot gets to, both fields reach it and are the distance       *)
(* through open tiles: zero at the goal, one more than the least of the    *)
(* neighbours elsewhere (FlowField::build).                                *)
FieldIsShortest ==
  \A b \in Team :
    LET t == TileOf(pos)
    IN  DistAt(Field[b], t) =
          IF t = TileOf(Base[b]) THEN 0
          ELSE 1 + Min({DistAt(Field[b], u) : u \in Neighbours(t)})

(* "Walking strictly downhill": a bot that sees where it is never gets     *)
(* further from the base it is heading for, counted in tiles (steer).      *)
Downhill ==
  [][latency = 0 /\ ~Hunts(Head(view)) =>
       LET f == Field[Goal(team, Head(view))]
       IN  DistAt(f, TileOf(pos)) > 2 =>
             DistAt(f, TileOf(pos')) <= DistAt(f, TileOf(pos))]_vars

(* A bot brings home one flag after the other, each within the time the    *)
(* tests give it, unless an enemy has its own: it is never caught at a     *)
(* wall nor walks to and fro between two ways (BotAI::tick).               *)
ScoresInTime == idle <= Patience
=============================================================================
