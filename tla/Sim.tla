--------------------------------- MODULE Sim ---------------------------------
(***************************************************************************)
(* The simulation thread (server/sim.h, server/sim.cpp): the authoritative *)
(* game.  One call of tick() is the fixed sequence                         *)
(*                                                                         *)
(*   drain inbound; pop one input per player; move; combat; flags; win     *)
(*   check; publish                                                        *)
(*                                                                         *)
(* which `pc` steps through.  A loop over the player ids whose iterations  *)
(* see each other's effects or push events takes one step per id, in id    *)
(* order (`idx`); a loop whose iterations are independent is one step.     *)
(* The inbound queue is seen through pop(): a step of the drain loop       *)
(* applies some command, or finds the queue empty and goes on.             *)
(*                                                                         *)
(* Data that no property tells apart is abstracted.  A position is a       *)
(* member of Pos and movement_step, aabb_overlap are constant operators.   *)
(* The ray of a shot hits some living enemy or nothing.  The input ring is *)
(* its ring_count: what a queued input says is chosen when it is popped,   *)
(* and whether drain_inbound finds a sequence number stale is a choice     *)
(* (module Inputs keeps the sequence numbers).  Of the applied inputs only *)
(* the fire button outlives move_players.                                  *)
(***************************************************************************)
EXTENDS Integers, Sequences, FiniteSets

CONSTANTS
  MaxPlayers,      \* config::kMaxPlayers
  Pos,             \* positions a player or a flag can have
  Dir,             \* movement buttons of an input
  NoDir,           \* no button pressed
  Step(_, _),      \* movement_step: position and direction to position
  Overlap(_, _),   \* aabb_overlap of two positions
  Base,            \* base_of: team to position
  SpawnIndex,      \* spawn indices
  Joins,           \* the PlayerJoined commands the lobby can issue
  Spawn,           \* kRedSpawnPoints and kBlueSpawnPoints
  MaxHealth, DamagePerShot, FireCooldownTicks, RespawnDelayTicks,
  FlagAutoReturnTicks, ScoreToWin, LimitTicks, InputRingSize,
  MaxTick          \* the tick counter stops here: see WinCheckAndPublish

Team == {"Red", "Blue"}
Enemy(t) == IF t = "Red" THEN "Blue" ELSE "Red"
Id == 0 .. MaxPlayers - 1
NoOne == 255       \* carrier_id 0xFF

ASSUME PlayersAssumption ==
  /\ MaxPlayers \in 1 .. 255
  /\ 0 \in SpawnIndex
  /\ Joins \subseteq [id : Id, team : Team, spawn : SpawnIndex]

(* No position touches both bases: they lie 35 tiles apart. *)
ASSUME MapAssumption ==
  /\ NoDir \in Dir
  /\ \A p \in Pos, d \in Dir : Step(p, d) \in Pos
  /\ Base \in [Team -> Pos]
  /\ \A p \in Pos : ~(Overlap(p, Base["Red"]) /\ Overlap(p, Base["Blue"]))
  /\ Spawn \in [Team -> [SpawnIndex -> Pos]]

ASSUME RulesAssumption ==
  /\ MaxHealth \in Nat \ {0}
  /\ DamagePerShot \in Nat \ {0}
  /\ FireCooldownTicks \in Nat
  /\ RespawnDelayTicks \in Nat \ {0}
  /\ FlagAutoReturnTicks \in Nat \ {0}
  /\ ScoreToWin \in Nat \ {0}
  /\ LimitTicks \in Nat
  /\ InputRingSize \in Nat \ {0}
  /\ MaxTick \in Nat

VARIABLES
  pc, idx,          \* where tick() is, and the id its loop has reached
  active, team, spawnIndex, position, health, alive, carrying,
  respawnTimer, fireCooldown, ringCount,   \* Player players_[kMaxPlayers]
  firing,           \* the fire button of applied_cmds_
  flagState, flagPos, carrier, dropTick,   \* FlagInfo flags_[2], drop_tick_
  score, tick, matchOver,
  events            \* what this step pushes on the outbound queue

rosterVars == <<active, team, spawnIndex>>
bodyVars == <<position, health, alive, respawnTimer, fireCooldown>>
flagVars == <<flagState, flagPos, carrier, dropTick>>
matchVars == <<score, tick, matchOver>>
vars == <<pc, idx, rosterVars, bodyVars, carrying, ringCount, firing,
          flagVars, matchVars, events>>

FlagStates == {"AtBase", "Carried", "Dropped"}

Phase == {"drain", "combat", "flags", "touch", "respawn", "win"}

Event ==
  [type : {"FlagPickedUp", "FlagReturned", "FlagCaptured"},
   team : Team, by : Id \cup {NoOne}]
    \cup [type : {"FlagDropped"}, team : Team, pos : Pos]
    \cup [type : {"PlayerKilled"}, victim : Id, killer : Id]
    \cup [type : {"PlayerRespawned"}, id : Id, pos : Pos]
    \cup [type : {"ShotFired"}, id : Id]
    \cup [type : {"MatchEnd"}, winner : Team, score : [Team -> Nat]]

Init ==
  /\ pc = "drain" /\ idx = 0
  /\ active = [i \in Id |-> FALSE]
  /\ team = [i \in Id |-> "Red"]
  /\ spawnIndex = [i \in Id |-> 0]
  /\ position = [i \in Id |-> Base["Red"]]
  /\ health = [i \in Id |-> MaxHealth]
  /\ alive = [i \in Id |-> TRUE]
  /\ carrying = [i \in Id |-> FALSE]
  /\ respawnTimer = [i \in Id |-> 0]
  /\ fireCooldown = [i \in Id |-> 0]
  /\ ringCount = [i \in Id |-> 0]
  /\ firing = [i \in Id |-> FALSE]
  /\ flagState = [t \in Team |-> "AtBase"]
  /\ flagPos = Base
  /\ carrier = [t \in Team |-> NoOne]
  /\ dropTick = [t \in Team |-> 0]
  /\ score = [t \in Team |-> 0]
  /\ tick = 0
  /\ matchOver = FALSE
  /\ events = <<>>

-----------------------------------------------------------------------------
(* drain_inbound(): one step per popped command.  Once the match is over   *)
(* every command is popped and ignored, which changes nothing.             *)

(* apply_join: an id that is already active is left alone. *)
ApplyJoin(i, t, s) ==
  /\ pc = "drain" /\ ~matchOver /\ ~active[i]
  /\ active' = [active EXCEPT ![i] = TRUE]
  /\ team' = [team EXCEPT ![i] = t]
  /\ spawnIndex' = [spawnIndex EXCEPT ![i] = s]
  /\ position' = [position EXCEPT ![i] = Spawn[t][s]]
  /\ health' = [health EXCEPT ![i] = MaxHealth]
  /\ alive' = [alive EXCEPT ![i] = TRUE]
  /\ carrying' = [carrying EXCEPT ![i] = FALSE]
  /\ respawnTimer' = [respawnTimer EXCEPT ![i] = 0]
  /\ fireCooldown' = [fireCooldown EXCEPT ![i] = 0]
  /\ ringCount' = [ringCount EXCEPT ![i] = 0]
  /\ events' = <<>>
  /\ UNCHANGED <<pc, idx, firing, flagVars, matchVars>>

(* Mutant: the flag remembers its carrier after it fell. *)
DropCarriedFlagKeepsCarrier(i) ==
  LET f == Enemy(team[i])
  IN  IF carrying[i]
      THEN /\ flagState' = [flagState EXCEPT ![f] = "Dropped"]
           /\ flagPos' = [flagPos EXCEPT ![f] = position[i]]
           /\ dropTick' = [dropTick EXCEPT ![f] = tick]
           /\ UNCHANGED carrier
      ELSE UNCHANGED flagVars

(* The flag that player i carries falls where i stands: the common part of *)
(* apply_leave and handle_death.                                           *)
DropCarriedFlag(i) ==
  LET f == Enemy(team[i])
  IN  IF carrying[i]
      THEN /\ flagState' = [flagState EXCEPT ![f] = "Dropped"]
           /\ flagPos' = [flagPos EXCEPT ![f] = position[i]]
           /\ carrier' = [carrier EXCEPT ![f] = NoOne]
           /\ dropTick' = [dropTick EXCEPT ![f] = tick]
      ELSE UNCHANGED flagVars

(* apply_leave: the slot becomes a fresh Player{}; no event is pushed. *)
ApplyLeave(i) ==
  /\ pc = "drain" /\ ~matchOver /\ active[i]
  /\ DropCarriedFlag(i)
  /\ active' = [active EXCEPT ![i] = FALSE]
  /\ team' = [team EXCEPT ![i] = "Red"]
  /\ spawnIndex' = [spawnIndex EXCEPT ![i] = 0]
  /\ position' = [position EXCEPT ![i] = Base["Red"]]
  /\ health' = [health EXCEPT ![i] = MaxHealth]
  /\ alive' = [alive EXCEPT ![i] = TRUE]
  /\ carrying' = [carrying EXCEPT ![i] = FALSE]
  /\ respawnTimer' = [respawnTimer EXCEPT ![i] = 0]
  /\ fireCooldown' = [fireCooldown EXCEPT ![i] = 0]
  /\ ringCount' = [ringCount EXCEPT ![i] = 0]
  /\ events' = <<>>
  /\ UNCHANGED <<pc, idx, firing, matchVars>>

(* Mutant: a full ring keeps its oldest entry. *)
QueueInputKeepsOldest(i) ==
  /\ pc = "drain" /\ ~matchOver /\ active[i] /\ alive[i]
  /\ ringCount' = [ringCount EXCEPT ![i] = @ + 1]
  /\ events' = <<>>
  /\ UNCHANGED <<pc, idx, rosterVars, bodyVars, carrying, firing, flagVars,
                 matchVars>>

(* A PlayerInput that is not stale: a full ring drops its oldest entry, so *)
(* its count stays.  Inputs of the dead are ignored.                       *)
QueueInput(i) ==
  /\ pc = "drain" /\ ~matchOver /\ active[i] /\ alive[i]
  /\ ringCount' = [ringCount EXCEPT
                     ![i] = IF @ = InputRingSize THEN @ ELSE @ + 1]
  /\ events' = <<>>
  /\ UNCHANGED <<pc, idx, rosterVars, bodyVars, carrying, firing, flagVars,
                 matchVars>>

-----------------------------------------------------------------------------
HasInput(i) == active[i] /\ alive[i] /\ ringCount[i] > 0

(* pop() finds the queue empty.  pop_inputs takes the oldest queued input  *)
(* of each player, or a zero input; move_players applies it.               *)
PopAndMove ==
  /\ pc = "drain"
  /\ \E dir \in [Id -> Dir], fire \in [Id -> BOOLEAN] :
       /\ \A i \in Id : ~HasInput(i) => dir[i] = NoDir /\ fire[i] = FALSE
       /\ position' = [i \in Id |-> IF active[i] /\ alive[i]
                                    THEN Step(position[i], dir[i])
                                    ELSE position[i]]
       /\ firing' = fire
  /\ ringCount' = [i \in Id |-> IF HasInput(i) THEN ringCount[i] - 1
                                               ELSE ringCount[i]]
  /\ pc' = "combat" /\ idx' = 0
  /\ events' = <<>>
  /\ UNCHANGED <<rosterVars, health, alive, respawnTimer, fireCooldown,
                 carrying, flagVars, matchVars>>
-----------------------------------------------------------------------------
(* combat(): the loop body for id = idx.  The input of idx is spent: no    *)
(* one reads it before the next pop_inputs overwrites it.                  *)

NextId(phase) ==
  IF idx + 1 < MaxPlayers THEN pc' = pc /\ idx' = idx + 1
                          ELSE pc' = phase /\ idx' = 0

CanFire(i) ==
  active[i] /\ alive[i] /\ fireCooldown[i] = 0 /\ firing[i]

(* Neither the dead nor the cooling nor the idle fire. *)
HoldFire ==
  /\ pc = "combat" /\ ~CanFire(idx)
  /\ fireCooldown' = [fireCooldown EXCEPT
       ![idx] = IF active[idx] /\ alive[idx] /\ @ > 0 THEN @ - 1 ELSE @]
  /\ firing' = [firing EXCEPT ![idx] = FALSE]
  /\ NextId("flags")
  /\ events' = <<>>
  /\ UNCHANGED <<rosterVars, position, health, alive, respawnTimer, carrying,
                 ringCount, flagVars, matchVars>>

(* cast_ray: the living enemies a shot of i can hit. *)
Targets(i) == {v \in Id : active[v] /\ alive[v] /\ team[v] # team[i]}

ShotMisses ==
  /\ pc = "combat" /\ CanFire(idx)
  /\ fireCooldown' = [fireCooldown EXCEPT ![idx] = FireCooldownTicks]
  /\ firing' = [firing EXCEPT ![idx] = FALSE]
  /\ NextId("flags")
  /\ events' = <<[type |-> "ShotFired", id |-> idx]>>
  /\ UNCHANGED <<rosterVars, position, health, alive, respawnTimer, carrying,
                 ringCount, flagVars, matchVars>>

ShotWounds(v) ==
  /\ pc = "combat" /\ CanFire(idx) /\ v \in Targets(idx)
  /\ health[v] > DamagePerShot
  /\ health' = [health EXCEPT ![v] = @ - DamagePerShot]
  /\ fireCooldown' = [fireCooldown EXCEPT ![idx] = FireCooldownTicks]
  /\ firing' = [firing EXCEPT ![idx] = FALSE]
  /\ NextId("flags")
  /\ events' = <<[type |-> "ShotFired", id |-> idx]>>
  /\ UNCHANGED <<rosterVars, position, alive, respawnTimer, carrying,
                 ringCount, flagVars, matchVars>>

(* Mutant: carrying_flag is cleared before it is asked for. *)
DroppedEventTooLate(v) == <<>>

(* The FLAG_DROPPED of handle_death names the victim's own team. *)
DroppedEvent(v) ==
  IF carrying[v]
  THEN <<[type |-> "FlagDropped", team |-> team[v], pos |-> position[v]]>>
  ELSE <<>>

(* handle_death: the ring and the cooldown of the victim stay. *)
ShotKills(v) ==
  /\ pc = "combat" /\ CanFire(idx) /\ v \in Targets(idx)
  /\ health[v] <= DamagePerShot
  /\ health' = [health EXCEPT ![v] = 0]
  /\ alive' = [alive EXCEPT ![v] = FALSE]
  /\ respawnTimer' = [respawnTimer EXCEPT ![v] = RespawnDelayTicks]
  /\ DropCarriedFlag(v)
  /\ carrying' = [carrying EXCEPT ![v] = FALSE]
  /\ fireCooldown' = [fireCooldown EXCEPT ![idx] = FireCooldownTicks]
  /\ firing' = [firing EXCEPT ![idx] = FALSE]
  /\ NextId("flags")
  /\ events' = <<[type |-> "ShotFired", id |-> idx]>> \o DroppedEvent(v)
                 \o <<[type |-> "PlayerKilled", victim |-> v, killer |-> idx]>>
  /\ UNCHANGED <<rosterVars, position, ringCount, matchVars>>
-----------------------------------------------------------------------------

(* flags_phase(), first loop: carried flags follow their carrier, dropped  *)
(* flags return when their time is up.  The drop tick of a flag that is no *)
(* longer on the ground is dead, and forgotten.                            *)

KeepDropTicks ==
  dropTick' = [t \in Team |-> IF flagState'[t] = "Dropped" THEN dropTick[t]
                                                          ELSE 0]

(* Mutant: a tick late. *)
TimeUpLate(t) ==
  flagState[t] = "Dropped" /\ tick - dropTick[t] > FlagAutoReturnTicks

TimeUp(t) ==
  flagState[t] = "Dropped" /\ tick - dropTick[t] >= FlagAutoReturnTicks

ReturnedEvent(t, i) == [type |-> "FlagReturned", team |-> t, by |-> i]

FlagUpkeep ==
  /\ pc = "flags"
  /\ flagState' = [t \in Team |-> IF TimeUp(t) THEN "AtBase" ELSE flagState[t]]
  /\ flagPos' = [t \in Team |->
       IF flagState[t] = "Carried" /\ carrier[t] \in Id
       THEN IF active[carrier[t]] THEN position[carrier[t]] ELSE flagPos[t]
       ELSE IF TimeUp(t) THEN Base[t] ELSE flagPos[t]]
  /\ carrier' = [t \in Team |-> IF TimeUp(t) THEN NoOne ELSE carrier[t]]
  /\ KeepDropTicks
  /\ pc' = "touch" /\ idx' = 0
  /\ events' = (IF TimeUp("Red") THEN <<ReturnedEvent("Red", NoOne)>> ELSE <<>>)
           \o (IF TimeUp("Blue") THEN <<ReturnedEvent("Blue", NoOne)>> ELSE <<>>)
  /\ UNCHANGED <<rosterVars, bodyVars, carrying, ringCount, firing, matchVars>>

(* Second loop, the body for id = idx: return the own flag, then pick up   *)
(* the enemy flag, then capture.  Each test sees what the one before did.  *)

Touches(i, p) == active[i] /\ alive[i] /\ Overlap(position[i], p)

Returns(i) ==
  flagState[team[i]] = "Dropped" /\ Touches(i, flagPos[team[i]])

PicksUp(i) ==
  /\ ~carrying[i]
  /\ flagState[Enemy(team[i])] # "Carried"
  /\ Touches(i, flagPos[Enemy(team[i])])

(* Mutant: the own flag need not be at base. *)
CapturesUngated(i) ==
  (carrying[i] \/ PicksUp(i)) /\ Touches(i, Base[team[i]])

Captures(i) ==
  /\ carrying[i] \/ PicksUp(i)
  /\ flagState[team[i]] = "AtBase" \/ Returns(i)
  /\ Touches(i, Base[team[i]])

TouchFlags ==
  LET i == idx
      own == team[idx]
      enemy == Enemy(team[idx])
  IN
  /\ pc = "touch"
  /\ flagState' = [f \in Team |->
       IF f = own THEN IF Returns(i) THEN "AtBase" ELSE flagState[f]
       ELSE IF Captures(i) THEN "AtBase"
            ELSE IF PicksUp(i) THEN "Carried" ELSE flagState[f]]
  /\ flagPos' = [f \in Team |->
       IF (f = own /\ Returns(i)) \/ (f = enemy /\ Captures(i))
       THEN Base[f] ELSE flagPos[f]]
  /\ carrier' = [f \in Team |->
       IF f = own THEN IF Returns(i) THEN NoOne ELSE carrier[f]
       ELSE IF Captures(i) THEN NoOne
            ELSE IF PicksUp(i) THEN i ELSE carrier[f]]
  /\ KeepDropTicks
  /\ carrying' = [carrying EXCEPT ![i] = (@ \/ PicksUp(i)) /\ ~Captures(i)]
  /\ score' = [score EXCEPT ![own] = IF Captures(i) THEN @ + 1 ELSE @]
  /\ NextId("respawn")
  /\ events' =
       (IF Returns(i) THEN <<ReturnedEvent(own, i)>> ELSE <<>>)
       \o (IF PicksUp(i)
           THEN <<[type |-> "FlagPickedUp", team |-> enemy, by |-> i]>>
           ELSE <<>>)
       \o (IF Captures(i)
           THEN <<[type |-> "FlagCaptured", team |-> enemy, by |-> i]>>
           ELSE <<>>)
  /\ UNCHANGED <<rosterVars, bodyVars, ringCount, firing, tick, matchOver>>

(* Mutant: the timers stop with the match. *)
DownInMatch(i) == active[i] /\ ~alive[i] /\ ~matchOver

Down(i) == active[i] /\ ~alive[i]

(* Mutant: a tick late. *)
BackLate(i) == Down(i) /\ respawnTimer[i] - 1 < 0

Back(i) == Down(i) /\ respawnTimer[i] - 1 <= 0

(* Third loop, the body for id = idx: respawn timers.  A player who died   *)
(* in this very tick is counted down too.                                  *)
RespawnTimers ==
  LET back == Back(idx)
      home == Spawn[team[idx]][spawnIndex[idx]]
  IN
  /\ pc = "respawn"
  /\ respawnTimer' = [respawnTimer EXCEPT
                        ![idx] = IF Down(idx) THEN @ - 1 ELSE @]
  /\ alive' = [alive EXCEPT ![idx] = @ \/ back]
  /\ health' = [health EXCEPT ![idx] = IF back THEN MaxHealth ELSE @]
  /\ position' = [position EXCEPT ![idx] = IF back THEN home ELSE @]
  /\ NextId("win")
  /\ events' = IF back
               THEN <<[type |-> "PlayerRespawned", id |-> idx, pos |-> home]>>
               ELSE <<>>
  /\ UNCHANGED <<rosterVars, fireCooldown, carrying, ringCount, firing,
                 flagVars, matchVars>>
-----------------------------------------------------------------------------
Decided == (\E t \in Team : score[t] >= ScoreToWin) \/ tick >= LimitTicks

(* Mutant: the counter is not moved. *)
SameTick == tick

(* ++current_tick_.  The counter stops at MaxTick: nothing after the match *)
(* reads it but the age of a dropped flag, so a MaxTick above LimitTicks + *)
(* InputRingSize + FlagAutoReturnTicks loses nothing (after the match no   *)
(* input arrives, so no flag falls later than InputRingSize ticks after    *)
(* its end).                                                               *)
NextTick == IF tick < MaxTick THEN tick + 1 ELSE tick

(* win_check, then publish and the next tick.  A draw on time goes to Red. *)
(* The snapshot is the state itself here: its encodings are the subject of *)
(* module DeltaSnapshot.                                                   *)
WinCheckAndPublish ==
  /\ pc = "win"
  /\ matchOver' = (matchOver \/ Decided)
  /\ tick' = NextTick
  /\ pc' = "drain"
  /\ events' =
       IF ~matchOver /\ Decided
       THEN <<[type |-> "MatchEnd", score |-> score, winner |->
                IF score["Red"] >= score["Blue"] THEN "Red" ELSE "Blue"]>>
       ELSE <<>>
  /\ UNCHANGED <<idx, rosterVars, bodyVars, carrying, ringCount, firing,
                 flagVars, score>>
-----------------------------------------------------------------------------
(* The commands the network thread can have queued. *)
Drain ==
  \/ \E j \in Joins : ApplyJoin(j.id, j.team, j.spawn)
  \/ \E i \in Id : ApplyLeave(i) \/ QueueInput(i)

Combat ==
  \/ HoldFire
  \/ ShotMisses
  \/ \E v \in Id : ShotWounds(v) \/ ShotKills(v)

(* The steps of tick() that depend on no one else. *)
Tick ==
  \/ PopAndMove
  \/ Combat
  \/ FlagUpkeep
  \/ TouchFlags
  \/ RespawnTimers
  \/ WinCheckAndPublish

Next == Drain \/ Tick

Spec == Init /\ [][Next]_vars

(* run() calls tick() for ever; the drain loop ends because the network    *)
(* thread queues finitely many commands per poll.                          *)
FairSpec == Spec /\ WF_vars(Tick)
-----------------------------------------------------------------------------

(* Properties *)

ControlType == pc \in Phase /\ idx \in Id

RosterType ==
  /\ active \in [Id -> BOOLEAN]
  /\ team \in [Id -> Team]
  /\ spawnIndex \in [Id -> SpawnIndex]

BodyType ==
  /\ position \in [Id -> Pos]
  /\ health \in [Id -> 0 .. MaxHealth]
  /\ alive \in [Id -> BOOLEAN]
  /\ respawnTimer \in [Id -> 0 .. RespawnDelayTicks]
  /\ fireCooldown \in [Id -> 0 .. FireCooldownTicks]

HandsType ==
  /\ carrying \in [Id -> BOOLEAN]
  /\ ringCount \in [Id -> 0 .. InputRingSize]
  /\ firing \in [Id -> BOOLEAN]

FlagType ==
  /\ flagState \in [Team -> FlagStates]
  /\ flagPos \in [Team -> Pos]
  /\ carrier \in [Team -> Id \cup {NoOne}]
  /\ dropTick \in [Team -> Nat]

MatchType ==
  /\ score \in [Team -> Nat]
  /\ tick \in Nat
  /\ matchOver \in BOOLEAN

(* Every variable of the simulation keeps its type; for respawnTimer and   *)
(* ringCount that includes never running below zero or past their limit.   *)
TypeOK ==
  /\ ControlType
  /\ RosterType
  /\ BodyType
  /\ HandsType
  /\ FlagType
  /\ MatchType
  /\ events \in Seq(Event)

(* The two records of who carries a flag, carrier_id of the flag and       *)
(* carrying_flag of the player, agree after every step of every phase: a   *)
(* carried flag has exactly one carrier, a living enemy who is still in    *)
(* the match, and nobody carries a flag that is elsewhere.  Deaths,        *)
(* departures, returns, pick-ups and captures of one tick all touch it.    *)
FlagConsistency ==
  /\ \A t \in Team :
       IF flagState[t] = "Carried"
       THEN /\ carrier[t] \in Id
            /\ carrying[carrier[t]]
            /\ team[carrier[t]] = Enemy(t)
       ELSE carrier[t] = NoOne
  /\ \A i \in Id : carrying[i] =>
       /\ active[i] /\ alive[i]
       /\ flagState[Enemy(team[i])] = "Carried"
       /\ carrier[Enemy(team[i])] = i
  /\ \A t \in Team : flagState[t] = "AtBase" => flagPos[t] = Base[t]

(* A player is dead exactly while its health is zero, and a dead player    *)
(* always has a respawn coming within RespawnDelayTicks: the timer that    *)
(* handle_death sets never reaches zero without respawning, whatever       *)
(* order of deaths, shots in the same tick and departures.                 *)
LifeConsistency ==
  \A i \in Id :
    /\ alive[i] <=> health[i] > 0
    /\ ~alive[i] => active[i] /\ respawnTimer[i] \in 1 .. RespawnDelayTicks

(* No flag lies on the ground longer than FlagAutoReturnTicks: once the    *)
(* upkeep loop has run, every dropped flag is younger than that.           *)
DroppedFlagIsYoung ==
  \A t \in Team : flagState[t] = "Dropped" =>
    /\ dropTick[t] <= tick
    /\ tick - dropTick[t] <= FlagAutoReturnTicks
    /\ pc \in {"touch", "respawn", "win"} =>
         tick - dropTick[t] < FlagAutoReturnTicks

(* MATCH_END is never ambiguous about captures: the score that win_check   *)
(* announces never has both teams at kScoreToWin, nor one above it, since  *)
(* one tick sees at most one capture that counts (the gate on the own flag *)
(* being at base, and the distance of the bases).                          *)
DecisiveEnd ==
  [][~matchOver /\ matchOver' =>
       /\ \A t \in Team : score[t] <= ScoreToWin
       /\ \E t \in Team : score[t] < ScoreToWin]_vars

(* Everyone who dies respawns or leaves. *)
DeadRespawn ==
  \A i \in Id : ~alive[i] ~> alive[i]

(* Every match ends, if only on time, and its world comes to rest, though  *)
(* not at once: win_check stops no phase of tick(), so the inputs left in  *)
(* the rings are still played, shots and captures among them, the dead     *)
(* respawn and fallen flags return; then nothing moves again.              *)
MatchComesToRest ==
  /\ <>matchOver
  /\ <>[][UNCHANGED <<rosterVars, position, health, alive, carrying,
                      flagState, flagPos, carrier, score>>]_vars

Pushed(type, t) ==
  \E n \in DOMAIN events' : events'[n].type = type /\ events'[n].team = t

PushedDrop(p) ==
  \E n \in DOMAIN events' : events'[n].type = "FlagDropped" /\ events'[n].pos = p

(* A flag that changes its state is told of in the step that changes it. *)
FlagsTold ==
  \A t \in Team : flagState'[t] # flagState[t] =>
    /\ flagState'[t] = "Carried" => Pushed("FlagPickedUp", t)
    /\ flagState'[t] = "AtBase" =>
         Pushed("FlagReturned", t) \/ Pushed("FlagCaptured", t)
    /\ flagState'[t] = "Dropped" =>
         PushedDrop(flagPos'[t]) \/ \E i \in Id : active[i] /\ ~active'[i]

(* No flag changes its state in silence: that it is taken, returned or     *)
(* captured is pushed in the step that does it, and a kill that makes it   *)
(* fall pushes the place where it lies, which no snapshot has.  (A carrier *)
(* who leaves pushes nothing, and the event of a kill names the victim's   *)
(* team.)                                                                  *)
EventsTellFlags == [][FlagsTold]_vars

(* What docs/implementation_guide.md asks of MATCH_END, and the test of    *)
(* the win condition calls a freeze: no gameplay state changes after it.   *)
FrozenAfterEnd ==
  [][matchOver => UNCHANGED <<position, health, alive, carrying, flagState,
                              flagPos, carrier, score>>]_vars
=============================================================================
