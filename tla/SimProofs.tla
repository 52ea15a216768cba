----------------------------- MODULE SimProofs ------------------------------
(***************************************************************************)
(* Theorems about Sim, for any number of players, any map and any timings: *)
(* its types, the life and death of its players, the records of who        *)
(* carries a flag agree, a dropped flag returns in time, MATCH_END is      *)
(* decisive, no flag changes its state in silence.                         *)
(***************************************************************************)
EXTENDS Sim, TLAPS

(* There are two teams, and each is the enemy of the other.                *)
LEMMA TeamFact ==
  /\ "Red" \in Team /\ "Blue" \in Team
  /\ \A t \in Team : t = "Red" \/ t = "Blue"
  /\ \A t \in Team : Enemy(t) \in Team /\ Enemy(t) # t /\ Enemy(Enemy(t)) = t
  BY Zenon DEF Team, Enemy

(* Events queued behind events are events (outbound_.push).                *)
LEMMA ConcatType ==
  ASSUME NEW S, NEW a \in Seq(S), NEW b \in Seq(S)
  PROVE  a \o b \in Seq(S)
  OBVIOUS

(* The loops over the players stay within the player ids.                  *)
LEMMA NextIdType ==
  ASSUME pc \in Phase, idx \in Id, NEW ph \in Phase, NextId(ph)
  PROVE  pc' \in Phase /\ idx' \in Id
  BY PlayersAssumption DEF NextId, Id

(* Dropping a carried flag, in apply_leave and handle_death, keeps the     *)
(* types of the flags.                                                     *)
LEMMA DropType ==
  ASSUME RosterType, BodyType, HandsType, FlagType, MatchType,
         NEW i \in Id, DropCarriedFlag(i)
  PROVE  FlagType'
<1>1. team[i] \in Team /\ Enemy(team[i]) \in Team
  BY TeamFact, Zenon DEF RosterType
<1>. QED
  BY <1>1, ZenonT(30)
     DEF BodyType, HandsType, FlagType, MatchType, DropCarriedFlag,
              flagVars, FlagStates

(* The state the constructor of Sim leaves has the right types.            *)
LEMMA InitType == Init => TypeOK
<1> SUFFICES ASSUME Init PROVE TypeOK
  BY Zenon
<1>1. 0 \in Id
  BY PlayersAssumption DEF Id
<1>2. ControlType /\ RosterType
  BY <1>1, TeamFact, PlayersAssumption, Zenon
     DEF Init, ControlType, RosterType, Phase
<1>3. BodyType /\ HandsType
  BY TeamFact, MapAssumption, RulesAssumption DEF Init, BodyType, HandsType
<1>4. FlagType /\ MatchType
  BY MapAssumption, Zenon DEF Init, FlagType, MatchType, FlagStates
<1>5. events \in Seq(Event)
  BY DEF Init
<1>. QED  BY <1>2, <1>3, <1>4, <1>5, Zenon DEF TypeOK

(* Every step of drain_inbound and of the phases of tick() keeps the       *)
(* types.                                                                  *)
LEMMA TypeStep ==
  ASSUME TypeOK, LifeConsistency, [Next]_vars
  PROVE  TypeOK'
<1> USE DEF rosterVars, bodyVars, flagVars, matchVars
<1>0. /\ \A ph \in {"combat", "flags", "respawn", "win", "touch", "drain"} :
            ph \in Phase
      /\ 0 \in Id
      /\ pc \in Phase /\ idx \in Id
  BY PlayersAssumption DEF Phase, TypeOK, ControlType, Id
<1>t. /\ RosterType /\ BodyType /\ HandsType /\ FlagType /\ MatchType
      /\ ControlType
  BY Zenon DEF TypeOK
<1>1. ASSUME NEW j \in Joins, ApplyJoin(j.id, j.team, j.spawn)
      PROVE  TypeOK'
  <2>1. j.id \in Id /\ j.team \in Team /\ j.spawn \in SpawnIndex
    BY PlayersAssumption, Zenon
  <2>2. Spawn[j.team][j.spawn] \in Pos
    BY <2>1, MapAssumption, Zenon
  <2>3. RosterType'
    BY <1>1, <1>t, <2>1, Zenon DEF ApplyJoin, RosterType
  <2>4. BodyType'
    BY <1>1, <1>t, <2>1, <2>2, RulesAssumption DEF ApplyJoin, BodyType
  <2>5. HandsType'
    BY <1>1, <1>t, <2>1, RulesAssumption DEF ApplyJoin, HandsType
  <2>6. ControlType' /\ FlagType' /\ MatchType' /\ events' \in Seq(Event)
    BY <1>1, <1>t DEF ApplyJoin, ControlType, FlagType, MatchType
  <2>. QED  BY <2>3, <2>4, <2>5, <2>6, Zenon DEF TypeOK
<1>2. ASSUME NEW i \in Id, ApplyLeave(i)
      PROVE  TypeOK'
  <2>3. RosterType'
    BY <1>2, <1>t, TeamFact, PlayersAssumption, Zenon DEF ApplyLeave, RosterType
  <2>4. BodyType'
    BY <1>2, <1>t, TeamFact, MapAssumption, RulesAssumption
       DEF ApplyLeave, BodyType
  <2>5. HandsType'
    BY <1>2, <1>t, RulesAssumption DEF ApplyLeave, HandsType
  <2>6. FlagType'
    BY <1>2, <1>t, DropType, Zenon DEF ApplyLeave
  <2>7. ControlType' /\ MatchType' /\ events' \in Seq(Event)
    BY <1>2, <1>t DEF ApplyLeave, ControlType, MatchType
  <2>. QED  BY <2>3, <2>4, <2>5, <2>6, <2>7, Zenon DEF TypeOK
<1>3. ASSUME NEW i \in Id, QueueInput(i)
      PROVE  TypeOK'
  <2>1. HandsType'
    BY <1>3, <1>t, RulesAssumption DEF QueueInput, HandsType
  <2>2. RosterType' /\ BodyType' /\ ControlType' /\ FlagType' /\ MatchType'
    BY <1>3, <1>t, Zenon DEF QueueInput, ControlType, RosterType, BodyType,
                      FlagType, MatchType
  <2>. QED  BY <1>3, <2>1, <2>2 DEF QueueInput, TypeOK
<1>4. CASE PopAndMove
  <2>1. HandsType'
    <3>1. ringCount' \in [Id -> 0 .. InputRingSize]
      <4>1. \A i \in Id : ringCount[i] > 0 =>
                           ringCount[i] - 1 \in 0 .. InputRingSize
        BY <1>t, RulesAssumption DEF HandsType
      <4>. QED  BY <1>4, <1>t, <4>1, Zenon DEF PopAndMove, HandsType, HasInput
    <3>2. firing' \in [Id -> BOOLEAN]
      BY <1>4, Zenon DEF PopAndMove
    <3>. QED  BY <1>4, <1>t, <3>1, <3>2, Zenon DEF PopAndMove, HandsType
  <2>2. BodyType'
    <3>1. PICK dir \in [Id -> Dir] :
            position' = [i \in Id |-> IF active[i] /\ alive[i]
                                      THEN Step(position[i], dir[i])
                                      ELSE position[i]]
      BY <1>4, Zenon DEF PopAndMove
    <3>2. position' \in [Id -> Pos]
      BY <1>t, <3>1, MapAssumption, Zenon DEF BodyType
    <3>. QED  BY <1>4, <1>t, <3>2, Zenon DEF PopAndMove, BodyType
  <2>3. ControlType' /\ RosterType' /\ FlagType' /\ MatchType'
    BY <1>0, <1>4, <1>t, Zenon
       DEF PopAndMove, ControlType, RosterType, FlagType,
                            MatchType
  <2>. QED  BY <1>4, <2>1, <2>2, <2>3 DEF PopAndMove, TypeOK
<1>5. CASE HoldFire
  <2>1. ControlType'
    BY <1>0, <1>5, NextIdType, Zenon DEF HoldFire, ControlType
  <2>2. BodyType' /\ HandsType'
    <3>1. fireCooldown[idx] > 0 =>
            fireCooldown[idx] - 1 \in 0 .. FireCooldownTicks
      BY <1>0, <1>t, RulesAssumption DEF BodyType
    <3>2. fireCooldown' \in [Id -> 0 .. FireCooldownTicks]
      BY <1>0, <1>5, <1>t, <3>1, Zenon DEF HoldFire, BodyType
    <3>. QED  BY <1>0, <1>5, <1>t, <3>2, Zenon DEF HoldFire, BodyType, HandsType
  <2>3. RosterType' /\ FlagType' /\ MatchType'
    BY <1>5, <1>t, Zenon DEF HoldFire, RosterType, FlagType, MatchType
  <2>. QED  BY <1>5, <2>1, <2>2, <2>3 DEF HoldFire, TypeOK
<1>6. CASE ShotMisses
  <2>1. ControlType'
    BY <1>0, <1>6, NextIdType, Zenon DEF ShotMisses, ControlType
  <2>2. BodyType' /\ HandsType'
    BY <1>0, <1>6, <1>t, RulesAssumption DEF ShotMisses, BodyType, HandsType
  <2>3. RosterType' /\ FlagType' /\ MatchType'
    BY <1>6, <1>t, Zenon DEF ShotMisses, RosterType, FlagType, MatchType
  <2>4. events' \in Seq(Event)
    BY <1>0, <1>6 DEF ShotMisses, Event
  <2>. QED  BY <2>1, <2>2, <2>3, <2>4, Zenon DEF TypeOK
<1>7. ASSUME NEW v \in Id, ShotWounds(v)
      PROVE  TypeOK'
  <2>1. ControlType'
    BY <1>0, <1>7, NextIdType, Zenon DEF ShotWounds, ControlType
  <2>2. BodyType' /\ HandsType'
    BY <1>0, <1>7, <1>t, RulesAssumption DEF ShotWounds, BodyType, HandsType
  <2>3. RosterType' /\ FlagType' /\ MatchType'
    BY <1>7, <1>t, Zenon DEF ShotWounds, RosterType, FlagType, MatchType
  <2>4. events' \in Seq(Event)
    BY <1>0, <1>7 DEF ShotWounds, Event
  <2>. QED  BY <2>1, <2>2, <2>3, <2>4, Zenon DEF TypeOK
<1>8. ASSUME NEW v \in Id, ShotKills(v)
      PROVE  TypeOK'
  <2>1. ControlType'
    BY <1>0, <1>8, NextIdType, Zenon DEF ShotKills, ControlType
  <2>2. BodyType' /\ HandsType'
    <3>1. /\ 0 \in 0 .. MaxHealth
          /\ RespawnDelayTicks \in 0 .. RespawnDelayTicks
          /\ FireCooldownTicks \in 0 .. FireCooldownTicks
      BY RulesAssumption
    <3>2. BodyType'
      BY <1>0, <1>8, <1>t, <3>1, Zenon DEF ShotKills, BodyType
    <3>3. HandsType'
      BY <1>0, <1>8, <1>t, Zenon DEF ShotKills, HandsType
    <3>. QED  BY <3>2, <3>3, Zenon
  <2>3. RosterType' /\ FlagType' /\ MatchType'
    BY <1>8, <1>t, DropType, Zenon DEF ShotKills, RosterType, MatchType
  <2>4. events' \in Seq(Event)
    <3>1. DroppedEvent(v) \in Seq(Event)
      <4>1. team[v] \in Team /\ position[v] \in Pos
        BY <1>t, Zenon DEF RosterType, BodyType
      <4>2. [type |-> "FlagDropped", team |-> team[v], pos |-> position[v]]
              \in Event
        BY <4>1, Zenon DEF Event
      <4>. QED  BY <4>2 DEF DroppedEvent
    <3>2. /\ <<[type |-> "ShotFired", id |-> idx]>> \in Seq(Event)
          /\ <<[type |-> "PlayerKilled", victim |-> v, killer |-> idx]>>
                \in Seq(Event)
      BY <1>0 DEF Event
    <3>. QED  BY <1>8, <3>1, <3>2, ConcatType, Zenon DEF ShotKills
  <2>. QED  BY <2>1, <2>2, <2>3, <2>4 DEF TypeOK
<1>9. CASE FlagUpkeep
  <2>1. events' \in Seq(Event)
    <3>1. \A t \in Team : <<ReturnedEvent(t, NoOne)>> \in Seq(Event)
      BY DEF ReturnedEvent, Event
    <3>. QED  BY <1>9, <3>1, ConcatType, TeamFact DEF FlagUpkeep
  <2>2. flagState' \in [Team -> FlagStates]
    BY <1>9, <1>t, Zenon DEF FlagUpkeep, FlagType, FlagStates
  <2>3. dropTick' \in [Team -> Nat]
    BY <1>9, <1>t, Zenon DEF FlagUpkeep, KeepDropTicks, FlagType
  <2>4. flagPos' \in [Team -> Pos] /\ carrier' \in [Team -> Id \cup {NoOne}]
    BY <1>9, <1>t, MapAssumption, Zenon DEF FlagUpkeep, FlagType, BodyType
  <2>5. ControlType' /\ RosterType' /\ BodyType' /\ HandsType' /\ MatchType'
    BY <1>0, <1>9, <1>t, Zenon
       DEF FlagUpkeep, ControlType, RosterType, BodyType,
                            HandsType, MatchType
  <2>. QED  BY <2>1, <2>2, <2>3, <2>4, <2>5, Zenon DEF FlagType, TypeOK
<1>10. CASE TouchFlags
  <2>0. team[idx] \in Team /\ Enemy(team[idx]) \in Team
    BY <1>0, <1>t, TeamFact, Zenon DEF RosterType
  <2>1. events' \in Seq(Event)
    <3>1. \A t \in Team :
            /\ <<ReturnedEvent(t, idx)>> \in Seq(Event)
            /\ <<[type |-> "FlagPickedUp", team |-> t, by |-> idx]>>
                 \in Seq(Event)
            /\ <<[type |-> "FlagCaptured", team |-> t, by |-> idx]>>
                 \in Seq(Event)
      BY <1>0 DEF ReturnedEvent, Event
    <3>2. <<>> \in Seq(Event)
      OBVIOUS
    <3> DEFINE r == IF Returns(idx) THEN <<ReturnedEvent(team[idx], idx)>>
                                    ELSE <<>>
               p == IF PicksUp(idx)
                    THEN <<[type |-> "FlagPickedUp",
                            team |-> Enemy(team[idx]), by |-> idx]>>
                    ELSE <<>>
               c == IF Captures(idx)
                    THEN <<[type |-> "FlagCaptured",
                            team |-> Enemy(team[idx]), by |-> idx]>>
                    ELSE <<>>
    <3>3. r \in Seq(Event) /\ p \in Seq(Event) /\ c \in Seq(Event)
      BY <2>0, <3>1, <3>2, Zenon
    <3>4. events' = r \o p \o c
      BY <1>10, Zenon DEF TouchFlags
    <3> HIDE DEF r, p, c
    <3>. QED  BY <3>3, <3>4, ConcatType, Zenon
  <2>2. flagState' \in [Team -> FlagStates]
    BY <1>10, <1>t, Zenon DEF TouchFlags, FlagType, FlagStates
  <2>3. dropTick' \in [Team -> Nat]
    BY <1>10, <1>t, Zenon DEF TouchFlags, KeepDropTicks, FlagType
  <2>4. flagPos' \in [Team -> Pos] /\ carrier' \in [Team -> Id \cup {NoOne}]
    BY <1>0, <1>10, <1>t, MapAssumption, Zenon DEF TouchFlags, FlagType
  <2>5. HandsType'
    BY <1>0, <1>10, <1>t, Zenon DEF TouchFlags, HandsType
  <2>6. MatchType'
    BY <1>10, <1>t, <2>0 DEF TouchFlags, MatchType
  <2>7. ControlType'
    BY <1>0, <1>10, NextIdType, Zenon DEF TouchFlags, ControlType
  <2>8. RosterType' /\ BodyType'
    BY <1>10, <1>t, Zenon DEF TouchFlags, RosterType, BodyType
  <2>. QED
    BY <2>1, <2>2, <2>3, <2>4, <2>5, <2>6, <2>7, <2>8, Zenon
       DEF FlagType, TypeOK
<1>11. CASE RespawnTimers
  <2>1. Spawn[team[idx]][spawnIndex[idx]] \in Pos
    BY <1>0, <1>t, MapAssumption DEF RosterType
  <2>2. events' \in Seq(Event)
    <3>1. [type |-> "PlayerRespawned", id |-> idx,
           pos |-> Spawn[team[idx]][spawnIndex[idx]]] \in Event
      BY <1>0, <2>1, Zenon DEF Event
    <3>. QED  BY <1>11, <3>1 DEF RespawnTimers
  <2>3. respawnTimer' \in [Id -> 0 .. RespawnDelayTicks]
    BY <1>0, <1>11, <1>t, RulesAssumption
       DEF RespawnTimers, BodyType, LifeConsistency, Down
  <2>4. /\ alive' \in [Id -> BOOLEAN]
        /\ health' \in [Id -> 0 .. MaxHealth]
        /\ position' \in [Id -> Pos]
    BY <1>0, <1>11, <1>t, <2>1, RulesAssumption DEF RespawnTimers, BodyType
  <2>5. BodyType'
    BY <1>11, <1>t, <2>3, <2>4, Zenon DEF RespawnTimers, BodyType
  <2>6. ControlType'
    BY <1>0, <1>11, NextIdType, Zenon DEF RespawnTimers, ControlType
  <2>7. RosterType' /\ HandsType' /\ FlagType' /\ MatchType'
    BY <1>11, <1>t, Zenon DEF RespawnTimers, RosterType, HandsType, FlagType,
                       MatchType
  <2>. QED  BY <2>2, <2>5, <2>6, <2>7, Zenon DEF TypeOK
<1>12. CASE WinCheckAndPublish
  <2>1. events' \in Seq(Event)
    <3>1. \A w \in Team :
            [type |-> "MatchEnd", score |-> score, winner |-> w] \in Event
      BY <1>t, Zenon DEF MatchType, Event
    <3>. QED  BY <1>12, <3>1, TeamFact DEF WinCheckAndPublish
  <2>2. MatchType'
    BY <1>12, <1>t DEF WinCheckAndPublish, MatchType, Decided, NextTick
  <2>3. ControlType' /\ RosterType' /\ BodyType' /\ HandsType' /\ FlagType'
    BY <1>0, <1>12, <1>t, Zenon DEF WinCheckAndPublish, ControlType, RosterType,
                             BodyType, HandsType, FlagType
  <2>. QED  BY <2>1, <2>2, <2>3, Zenon DEF TypeOK
<1>13. CASE UNCHANGED vars
  BY <1>13, Zenon
     DEF vars, TypeOK, ControlType, RosterType, BodyType, HandsType,
               FlagType, MatchType
<1>. QED
  BY <1>1, <1>2, <1>3, <1>4, <1>5, <1>6, <1>7, <1>8, <1>9, <1>10, <1>11,
     <1>12, <1>13, Zenon DEF Next, Drain, Tick, Combat
-----------------------------------------------------------------------------
(* Life and death, player by player. *)

(* At the start no player is dead, hurt or waiting.                        *)
LEMMA InitLife == Init => LifeConsistency
  BY RulesAssumption DEF Init, LifeConsistency

(* Joining, leaving, wounds, deaths and the respawn loop keep health,      *)
(* alive and respawn_timer in step.                                        *)
LEMMA LifeStep ==
  ASSUME TypeOK, LifeConsistency, [Next]_vars
  PROVE  LifeConsistency'
<1> USE DEF rosterVars, bodyVars
<1>t. BodyType /\ RosterType /\ idx \in Id
  BY Zenon DEF TypeOK, ControlType
<1>1. ASSUME NEW j \in Joins, ApplyJoin(j.id, j.team, j.spawn)
      PROVE  LifeConsistency'
  <2>1. j.id \in Id
    BY PlayersAssumption, Zenon
  <2>. QED
    BY <1>1, <1>t, <2>1, RulesAssumption
       DEF ApplyJoin, LifeConsistency, BodyType, RosterType
<1>2. ASSUME NEW i \in Id, ApplyLeave(i)
      PROVE  LifeConsistency'
  BY <1>2, <1>t, RulesAssumption
     DEF ApplyLeave, LifeConsistency, BodyType, RosterType
<1>3. ASSUME NEW v \in Id, ShotWounds(v)
      PROVE  LifeConsistency'
  BY <1>3, <1>t, RulesAssumption
     DEF ShotWounds, Targets, LifeConsistency, BodyType
<1>4. ASSUME NEW v \in Id, ShotKills(v)
      PROVE  LifeConsistency'
  BY <1>4, <1>t, RulesAssumption
     DEF ShotKills, Targets, LifeConsistency, BodyType
<1>5. CASE RespawnTimers
  <2>1. ASSUME NEW i \in Id, i # idx
        PROVE  /\ alive'[i] = alive[i] /\ health'[i] = health[i]
               /\ active'[i] = active[i] /\ respawnTimer'[i] = respawnTimer[i]
    BY <1>5, <1>t, <2>1, Zenon DEF RespawnTimers, BodyType
  <2>2. CASE Back(idx)
    <3>1. alive'[idx] /\ health'[idx] = MaxHealth
      BY <1>5, <1>t, <2>2, Zenon DEF RespawnTimers, BodyType
    <3>. QED  BY <2>1, <3>1, RulesAssumption DEF LifeConsistency
  <2>3. CASE ~Back(idx)
    <3>1. /\ alive'[idx] = alive[idx] /\ health'[idx] = health[idx]
          /\ active'[idx] = active[idx]
          /\ respawnTimer'[idx] = IF Down(idx) THEN respawnTimer[idx] - 1
                                               ELSE respawnTimer[idx]
      BY <1>5, <1>t, <2>3, Zenon DEF RespawnTimers, BodyType
    <3>2. ~alive[idx] => respawnTimer'[idx] \in 1 .. RespawnDelayTicks
      BY <1>t, <2>3, <3>1, RulesAssumption
         DEF Back, Down, LifeConsistency, BodyType
    <3>. QED  BY <2>1, <3>1, <3>2, <1>t, Zenon DEF LifeConsistency
  <2>. QED  BY <2>2, <2>3, Zenon
<1>6. ASSUME UNCHANGED <<active, health, alive, respawnTimer>>
      PROVE  LifeConsistency'
  BY <1>6, Zenon DEF LifeConsistency
<1>7. \/ \E i \in Id : QueueInput(i)
      \/ PopAndMove \/ HoldFire \/ ShotMisses \/ FlagUpkeep \/ TouchFlags
      \/ WinCheckAndPublish \/ UNCHANGED vars
      => UNCHANGED <<active, health, alive, respawnTimer>>
  BY Zenon
     DEF QueueInput, PopAndMove, HoldFire, ShotMisses, FlagUpkeep, TouchFlags,
         WinCheckAndPublish, vars
<1>. QED
  BY <1>1, <1>2, <1>3, <1>4, <1>5, <1>6, <1>7, Zenon
     DEF Next, Drain, Tick, Combat

-----------------------------------------------------------------------------
(* The flag of each team, and what each player carries. *)

FlagOf(t) ==
  IF flagState[t] = "Carried"
  THEN /\ carrier[t] \in Id
       /\ carrying[carrier[t]]
       /\ team[carrier[t]] = Enemy(t)
  ELSE carrier[t] = NoOne

HandOf(i) ==
  carrying[i] =>
    /\ active[i] /\ alive[i]
    /\ flagState[Enemy(team[i])] = "Carried"
    /\ carrier[Enemy(team[i])] = i

HomeOf(t) == flagState[t] = "AtBase" => flagPos[t] = Base[t]

(* FlagConsistency is a property of each flag, each player and each base   *)
(* by itself.                                                              *)
LEMMA FlagParts ==
  FlagConsistency <=> /\ \A t \in Team : FlagOf(t)
                      /\ \A i \in Id : HandOf(i)
                      /\ \A t \in Team : HomeOf(t)
  BY Zenon DEF FlagConsistency, FlagOf, HandOf, HomeOf

(* Both flags start at their bases and nobody carries one.                 *)
LEMMA InitFlag == Init => FlagConsistency
  BY Zenon DEF Init, FlagConsistency

(* 0xFF is not a player id.                                                *)
LEMMA NoOneIsNobody == NoOne \notin Id
  BY PlayersAssumption DEF NoOne, Id

(* Taking a player out of play while the flag it carries falls keeps the   *)
(* records together.  Shared by apply_leave and handle_death.              *)
LEMMA DropKeepsFlags ==
  ASSUME TypeOK, FlagConsistency, NEW i \in Id, DropCarriedFlag(i),
         carrying' = [carrying EXCEPT ![i] = FALSE],
         \A j \in Id \ {i} : /\ team'[j] = team[j]
                             /\ active'[j] = active[j]
                             /\ alive'[j] = alive[j]
  PROVE  FlagConsistency'
<1>t. RosterType /\ HandsType /\ FlagType
  BY Zenon DEF TypeOK
<1>0. team[i] \in Team /\ Enemy(team[i]) \in Team
  BY <1>t, TeamFact, Zenon DEF RosterType
<1>1. carrying' \in [Id -> BOOLEAN] /\ ~carrying'[i]
      /\ \A j \in Id \ {i} : carrying'[j] = carrying[j]
  BY <1>t, Zenon DEF HandsType
<1>2. CASE carrying[i]
  <2> DEFINE f == Enemy(team[i])
  <2>1. /\ f \in Team
        /\ flagState[f] = "Carried" /\ carrier[f] = i
    BY <1>0, <1>2, Zenon DEF FlagConsistency
  <2>2. /\ flagState'[f] = "Dropped" /\ carrier'[f] = NoOne
        /\ \A t \in Team \ {f} : /\ flagState'[t] = flagState[t]
                                 /\ flagPos'[t] = flagPos[t]
                                 /\ carrier'[t] = carrier[t]
    BY <1>0, <1>2, <1>t DEF DropCarriedFlag, FlagType
  <2> HIDE DEF f
  <2>3. \A t \in Team \ {f} : carrier[t] # i
    BY <2>1, <1>0, <1>t, TeamFact, NoOneIsNobody DEF FlagConsistency, f
  <2>4. \A j \in Id \ {i} : carrying[j] => Enemy(team[j]) # f
    BY <2>1 DEF FlagConsistency
  <2>5. \A t \in Team : FlagOf(t)'
    BY <2>1, <2>2, <2>3, <1>1, FlagParts DEF FlagOf
  <2>6. \A j \in Id : HandOf(j)'
    <3> SUFFICES ASSUME NEW j \in Id, carrying'[j] PROVE HandOf(j)'
      BY Zenon DEF HandOf
    <3>1. j # i /\ carrying[j]
      BY <1>1, Zenon
    <3>2. Enemy(team[j]) \in Team \ {f}
      BY <3>1, <2>4, <1>t, TeamFact, Zenon DEF RosterType
    <3>. QED  BY <3>1, <3>2, <2>2, <1>1, FlagParts DEF HandOf
  <2>7. \A t \in Team : HomeOf(t)'
    BY <2>2, FlagParts, Zenon DEF HomeOf
  <2>. QED  BY <2>5, <2>6, <2>7, Zenon
               DEF FlagConsistency, FlagOf, HandOf, HomeOf
<1>3. CASE ~carrying[i]
  <2>1. UNCHANGED flagVars /\ carrying' = carrying
    BY <1>3, <1>1, <1>t, Zenon DEF DropCarriedFlag, HandsType
  <2>2. \A t \in Team : carrier[t] # i
    BY <1>3, NoOneIsNobody DEF FlagConsistency
  <2>3. \A t \in Team : FlagOf(t)'
    BY <2>1, <2>2, <1>1, FlagParts, Zenon DEF FlagOf, flagVars
  <2>4. \A j \in Id : HandOf(j)'
    BY <2>1, <1>1, <1>3, FlagParts DEF HandOf, flagVars
  <2>5. \A t \in Team : HomeOf(t)'
    BY <2>1, FlagParts, Zenon DEF HomeOf, flagVars
  <2>. QED  BY <2>3, <2>4, <2>5 DEF FlagConsistency, FlagOf, HandOf, HomeOf
<1>. QED  BY <1>2, <1>3, Zenon

(* Every step of the simulation keeps the flags and the hands that hold    *)
(* them consistent.                                                        *)
LEMMA FlagStep ==
  ASSUME TypeOK, FlagConsistency, [Next]_vars
  PROVE  FlagConsistency'
<1>t. /\ RosterType /\ HandsType /\ FlagType /\ BodyType
      /\ idx \in Id /\ team[idx] \in Team /\ Enemy(team[idx]) \in Team
  BY TeamFact, Zenon DEF TypeOK, RosterType, ControlType
<1>1. ASSUME NEW j \in Joins, ApplyJoin(j.id, j.team, j.spawn)
      PROVE  FlagConsistency'
  <2>1. j.id \in Id /\ j.team \in Team
    BY PlayersAssumption, Zenon
  <2>2. /\ ~active[j.id] /\ ~carrying[j.id]
        /\ \A t \in Team : carrier[t] # j.id
    BY <1>1, <2>1, NoOneIsNobody DEF ApplyJoin, FlagConsistency
  <2>3. /\ UNCHANGED flagVars /\ carrying' = carrying
        /\ \A k \in Id \ {j.id} : /\ active'[k] = active[k]
                                  /\ alive'[k] = alive[k]
                                  /\ team'[k] = team[k]
    BY <1>1, <1>t, <2>1, <2>2, Zenon
       DEF ApplyJoin, RosterType, BodyType, HandsType
  <2>4. \A t \in Team : FlagOf(t)'
    BY <2>2, <2>3, FlagParts, Zenon DEF FlagOf, flagVars
  <2>5. \A k \in Id : HandOf(k)'
    BY <2>2, <2>3, FlagParts DEF HandOf, flagVars
  <2>6. \A t \in Team : HomeOf(t)'
    BY <2>3, FlagParts, Zenon DEF HomeOf, flagVars
  <2>. QED  BY <2>4, <2>5, <2>6, Zenon
               DEF FlagConsistency, FlagOf, HandOf, HomeOf
<1>2. ASSUME NEW i \in Id, ApplyLeave(i)
      PROVE  FlagConsistency'
  <2>1. \A j \in Id \ {i} : /\ team'[j] = team[j]
                            /\ active'[j] = active[j]
                            /\ alive'[j] = alive[j]
    BY <1>2, <1>t, Zenon DEF ApplyLeave, RosterType, BodyType
  <2>. QED  BY <1>2, <2>1, DropKeepsFlags, Zenon DEF ApplyLeave
<1>3. ASSUME NEW v \in Id, ShotKills(v)
      PROVE  FlagConsistency'
  <2>1. \A j \in Id \ {v} : /\ team'[j] = team[j]
                            /\ active'[j] = active[j]
                            /\ alive'[j] = alive[j]
    BY <1>3, <1>t, Zenon DEF ShotKills, rosterVars, BodyType
  <2>. QED  BY <1>3, <2>1, DropKeepsFlags, Zenon DEF ShotKills
<1>4. CASE FlagUpkeep
  <2>0. UNCHANGED <<active, alive, team, carrying>>
    BY <1>4, Zenon DEF FlagUpkeep, rosterVars, bodyVars
  <2>1. \A t \in Team : FlagOf(t)'
    BY <1>4, <2>0, <1>t, FlagParts, Zenon DEF FlagUpkeep, FlagOf, TimeUp
  <2>2. \A i \in Id : HandOf(i)'
    <3> SUFFICES ASSUME NEW i \in Id, carrying[i] PROVE HandOf(i)'
      BY <2>0, Zenon DEF HandOf
    <3>1. Enemy(team[i]) \in Team
      BY <1>t, TeamFact, Zenon DEF RosterType
    <3>. QED  BY <1>4, <2>0, <3>1, FlagParts, Zenon
                 DEF FlagUpkeep, HandOf, TimeUp
  <2>3. \A t \in Team : HomeOf(t)'
    BY <1>4, <1>t, FlagParts, Zenon DEF FlagUpkeep, HomeOf, TimeUp
  <2>. QED  BY <2>1, <2>2, <2>3, Zenon
               DEF FlagConsistency, FlagOf, HandOf, HomeOf
<1>5. CASE TouchFlags
  <2>p. PICK own \in Team, enemy \in Team :
          own = team[idx] /\ enemy = Enemy(team[idx])
    BY <1>t, Zenon
  <2>0. /\ UNCHANGED <<active, alive, team>>
        /\ own \in Team /\ enemy \in Team /\ own # enemy
        /\ \A t \in Team : t = own \/ t = enemy
        /\ Enemy(own) = enemy /\ Enemy(enemy) = own
    BY <1>5, <1>t, <2>p, TeamFact, Zenon DEF TouchFlags, rosterVars, bodyVars
  <2>1. /\ carrying'[idx] = ((carrying[idx] \/ PicksUp(idx)) /\ ~Captures(idx))
        /\ \A j \in Id \ {idx} : carrying'[j] = carrying[j]
    BY <1>5, <1>t, Zenon DEF TouchFlags, HandsType
  <2>2. /\ flagState'[own] = IF Returns(idx) THEN "AtBase" ELSE flagState[own]
        /\ carrier'[own] = IF Returns(idx) THEN NoOne ELSE carrier[own]
        /\ flagPos'[own] = IF Returns(idx) THEN Base[own] ELSE flagPos[own]
    BY <1>5, <2>0, <2>p, Zenon DEF TouchFlags
  <2>3. /\ flagState'[enemy] = IF Captures(idx) THEN "AtBase"
                               ELSE IF PicksUp(idx) THEN "Carried"
                               ELSE flagState[enemy]
        /\ carrier'[enemy] = IF Captures(idx) THEN NoOne
                             ELSE IF PicksUp(idx) THEN idx ELSE carrier[enemy]
        /\ flagPos'[enemy] = IF Captures(idx) THEN Base[enemy]
                             ELSE flagPos[enemy]
    BY <1>5, <2>0, <2>p, Zenon DEF TouchFlags
  <2>4. /\ Returns(idx) => flagState[own] = "Dropped"
        /\ PicksUp(idx) => /\ ~carrying[idx] /\ flagState[enemy] # "Carried"
                           /\ active[idx] /\ alive[idx]
        /\ Captures(idx) => carrying[idx] \/ PicksUp(idx)
    BY <2>p, Zenon DEF Returns, PicksUp, Captures, Touches
  <2>5. \A j \in Id : team[j] \in Team
    BY <1>t, Zenon DEF RosterType
  <2>6. FlagOf(own)' /\ HomeOf(own)'
    <3>1. CASE Returns(idx)
      BY <2>2, <3>1, Zenon DEF FlagOf, HomeOf
    <3>2. CASE ~Returns(idx)
      <4>1. UNCHANGED <<flagState[own], carrier[own], flagPos[own]>>
        BY <2>2, <3>2, Zenon
      <4>2. flagState[own] = "Carried" => carrier[own] # idx
        BY <2>0, <2>p, <1>t, FlagParts, Zenon DEF FlagOf
      <4>. QED  BY <2>0, <2>1, <4>1, <4>2, FlagParts, Zenon DEF FlagOf, HomeOf
    <3>. QED  BY <3>1, <3>2, Zenon
  <2>7. FlagOf(enemy)' /\ HomeOf(enemy)'
    <3>1. CASE Captures(idx)
      BY <2>3, <3>1, Zenon DEF FlagOf, HomeOf
    <3>2. CASE ~Captures(idx) /\ PicksUp(idx)
      BY <2>0, <2>1, <2>3, <2>p, <3>2, <1>t, Zenon DEF FlagOf, HomeOf
    <3>3. CASE ~Captures(idx) /\ ~PicksUp(idx)
      <4>1. UNCHANGED <<flagState[enemy], carrier[enemy], flagPos[enemy]>>
        BY <2>3, <3>3, Zenon
      <4>2. \A j \in Id : carrying[j] => carrying'[j]
        BY <2>1, <3>3, Zenon
      <4>. QED  BY <2>0, <4>1, <4>2, FlagParts, Zenon DEF FlagOf, HomeOf
    <3>. QED  BY <3>1, <3>2, <3>3, Zenon
  <2>8. ASSUME NEW j \in Id, carrying'[j] PROVE HandOf(j)'
    <3>1. CASE j = idx
      <4>1. ~Captures(idx) /\ (carrying[idx] \/ PicksUp(idx))
        BY <2>1, <2>8, <3>1, Zenon
      <4>2. Enemy(team[j]) = enemy
        BY <2>p, <3>1, Zenon
      <4>. QED
        BY <2>0, <2>3, <2>4, <3>1, <4>1, <4>2, FlagParts DEF HandOf
    <3>2. CASE j # idx
      <4>1. carrying[j]
        BY <2>1, <2>8, <3>2, Zenon
      <4>2. HandOf(j)
        BY FlagParts, Zenon
      <4>3. Enemy(team[j]) = own \/ Enemy(team[j]) = enemy
        BY <2>0, <2>5, TeamFact, Zenon
      <4>4. CASE Enemy(team[j]) = own
        BY <2>0, <2>2, <2>4, <4>1, <4>2, <4>4, Zenon DEF HandOf
      <4>5. CASE Enemy(team[j]) = enemy
        <5>1. ~PicksUp(idx)
          BY <2>4, <4>1, <4>2, <4>5, Zenon DEF HandOf
        <5>2. ~carrying[idx]
          BY <2>p, <3>2, <4>1, <4>2, <4>5, <1>t, FlagParts DEF HandOf
        <5>. QED
          BY <2>0, <2>3, <2>4, <4>1, <4>2, <4>5, <5>1, <5>2, Zenon DEF HandOf
      <4>. QED  BY <4>3, <4>4, <4>5, Zenon
    <3>. QED  BY <3>1, <3>2, Zenon
  <2>9. (\A t \in Team : FlagOf(t)' /\ HomeOf(t)') /\ \A j \in Id : HandOf(j)'
    BY <2>0, <2>6, <2>7, <2>8, Zenon DEF HandOf
  <2>. QED  BY <2>9, Zenon DEF FlagConsistency, FlagOf, HandOf, HomeOf
<1>6. CASE RespawnTimers
  <2>1. UNCHANGED <<active, team, carrying, flagVars>>
    BY <1>6, Zenon DEF RespawnTimers, rosterVars
  <2>2. \A i \in Id : alive[i] => alive'[i]
    BY <1>6, <1>t, Zenon DEF RespawnTimers, BodyType
  <2>. QED  BY <2>1, <2>2, Zenon DEF FlagConsistency, flagVars
<1>7. ASSUME UNCHANGED <<active, team, alive, carrying, flagVars>>
      PROVE  FlagConsistency'
  BY <1>7, Zenon DEF FlagConsistency, flagVars
<1>8. \/ \E i \in Id : QueueInput(i) \/ ShotWounds(i)
      \/ PopAndMove \/ HoldFire \/ ShotMisses
      \/ WinCheckAndPublish \/ UNCHANGED vars
      => UNCHANGED <<active, team, alive, carrying, flagVars>>
  BY Zenon DEF QueueInput, ShotWounds, PopAndMove, HoldFire, ShotMisses,
         WinCheckAndPublish, vars, rosterVars, bodyVars
<1>. QED
  BY <1>1, <1>2, <1>3, <1>4, <1>5, <1>6, <1>7, <1>8, Zenon
     DEF Next, Drain, Tick, Combat

-----------------------------------------------------------------------------
(* The age of a dropped flag. *)

(* A loop over the players that is over goes on with its next phase.       *)
LEMMA NextIdPhase ==
  ASSUME NEW ph, NextId(ph)
  PROVE  pc' = pc \/ pc' = ph
  BY Zenon DEF NextId

(* No flag lies on the ground at the start.                                *)
LEMMA InitYoung == Init => DroppedFlagIsYoung
  BY Zenon DEF Init, DroppedFlagIsYoung

(* The first loop of flags_phase returns a dropped flag before it is older *)
(* than the limit.                                                         *)
LEMMA YoungStep ==
  ASSUME TypeOK, DroppedFlagIsYoung, [Next]_vars
  PROVE  DroppedFlagIsYoung'
<1>t. FlagType /\ tick \in Nat /\ FlagAutoReturnTicks \in Nat \ {0}
  BY RulesAssumption, Zenon DEF TypeOK, MatchType
<1>1. ASSUME NEW i \in Id, DropCarriedFlag(i), tick' = tick,
             pc' \notin {"touch", "respawn", "win"}
      PROVE  DroppedFlagIsYoung'
  <2>1. \A t \in Team : \/ dropTick'[t] = tick
                        \/ /\ dropTick'[t] = dropTick[t]
                           /\ flagState'[t] = flagState[t]
    BY <1>1, <1>t, Zenon DEF DropCarriedFlag, FlagType, flagVars
  <2>. QED  BY <1>1, <1>t, <2>1 DEF DroppedFlagIsYoung, FlagType
<1>2. ASSUME NEW i \in Id, ApplyLeave(i)
      PROVE  DroppedFlagIsYoung'
  BY <1>1, <1>2, Zenon DEF ApplyLeave, matchVars
<1>3. ASSUME NEW v \in Id, ShotKills(v)
      PROVE  DroppedFlagIsYoung'
  <2>1. pc' \in {"combat", "flags"}
    BY <1>3, NextIdPhase, Zenon DEF ShotKills
  <2>. QED  BY <1>1, <1>3, <2>1, Zenon DEF ShotKills, matchVars
<1>4. CASE FlagUpkeep
  <2>1. ASSUME NEW t \in Team, flagState'[t] = "Dropped"
        PROVE  /\ flagState[t] = "Dropped" /\ dropTick'[t] = dropTick[t]
               /\ ~(tick - dropTick[t] >= FlagAutoReturnTicks)
    BY <1>4, <2>1, Zenon DEF FlagUpkeep, KeepDropTicks, TimeUp
  <2>2. tick' = tick
    BY <1>4, Zenon DEF FlagUpkeep, matchVars
  <2>. QED  BY <1>t, <2>1, <2>2 DEF DroppedFlagIsYoung, FlagType
<1>5. CASE TouchFlags
  <2>1. ASSUME NEW t \in Team, flagState'[t] = "Dropped"
        PROVE  flagState[t] = "Dropped" /\ dropTick'[t] = dropTick[t]
    BY <1>5, <2>1, Zenon DEF TouchFlags, KeepDropTicks
  <2>2. tick' = tick /\ pc = "touch"
    BY <1>5, Zenon DEF TouchFlags
  <2>. QED  BY <2>1, <2>2, Zenon DEF DroppedFlagIsYoung
<1>6. CASE RespawnTimers
  BY <1>6, Zenon DEF RespawnTimers, flagVars, matchVars, DroppedFlagIsYoung
<1>7. CASE WinCheckAndPublish
  <2>1. pc = "win" /\ pc' = "drain" /\ tick' \in {tick, tick + 1}
    BY <1>7, Zenon DEF WinCheckAndPublish, NextTick
  <2>2. UNCHANGED flagVars
    BY <1>7, Zenon DEF WinCheckAndPublish
  <2>. QED  BY <1>t, <2>1, <2>2 DEF DroppedFlagIsYoung, flagVars, FlagType
<1>8. ASSUME UNCHANGED <<flagVars, tick>>,
             pc' \in {"touch", "respawn", "win"} => pc' = pc
      PROVE  DroppedFlagIsYoung'
  BY <1>8, Zenon DEF DroppedFlagIsYoung, flagVars
<1>9. \/ \E j \in Joins : ApplyJoin(j.id, j.team, j.spawn)
      \/ \E i \in Id : QueueInput(i) \/ ShotWounds(i)
      \/ PopAndMove \/ HoldFire \/ ShotMisses \/ UNCHANGED vars
      => /\ UNCHANGED <<flagVars, tick>>
         /\ pc' \in {"touch", "respawn", "win"} => pc' = pc
  BY NextIdPhase, Zenon
     DEF ApplyJoin, QueueInput, ShotWounds, PopAndMove, HoldFire, ShotMisses,
         vars, matchVars
<1>. QED
  BY <1>2, <1>3, <1>4, <1>5, <1>6, <1>7, <1>8, <1>9, Zenon
     DEF Next, Drain, Tick, Combat

-----------------------------------------------------------------------------
(* At most one capture in a tick.  While a match runs nobody has           *)
(* ScoreToWin before the touch loop; once somebody gets it in the loop,    *)
(* every flag is at its base or was taken from there by an id the loop has *)
(* passed, and whoever takes one at its base does not stand on its own.    *)
CaptureBudget ==
  ~matchOver =>
    /\ \A t \in Team : score[t] <= ScoreToWin
    /\ \E t \in Team : score[t] < ScoreToWin
    /\ pc \in {"drain", "combat", "flags"} =>
         \A t \in Team : score[t] < ScoreToWin
    /\ pc = "touch" /\ (\E t \in Team : score[t] = ScoreToWin) =>
         \A f \in Team : \/ flagState[f] = "AtBase"
                         \/ flagState[f] = "Carried" /\ carrier[f] < idx

(* At the start no team has captured anything.                             *)
LEMMA InitBudget == Init => CaptureBudget
  BY TeamFact, RulesAssumption DEF Init, CaptureBudget

(* Walking over flags in flags_phase: a capture takes the flag the budget  *)
(* counted.                                                                *)
LEMMA BudgetTouch ==
  ASSUME TypeOK, FlagConsistency, CaptureBudget, TouchFlags
  PROVE  CaptureBudget'
<1>t. /\ idx \in Id /\ Id \subseteq Nat
      /\ team[idx] \in Team /\ Enemy(team[idx]) \in Team
      /\ \A t \in Team : score[t] \in Nat
      /\ position[idx] \in Pos
      /\ ScoreToWin \in Nat \ {0}
  BY TeamFact, RulesAssumption
     DEF TypeOK, RosterType, ControlType, MatchType, BodyType, Id
<1>p. PICK own \in Team, enemy \in Team :
        /\ own = team[idx] /\ enemy = Enemy(team[idx])
        /\ own # enemy /\ \A t \in Team : t = own \/ t = enemy
  BY <1>t, TeamFact
<1> SUFFICES ASSUME ~matchOver PROVE CaptureBudget'
  BY Zenon DEF TouchFlags, CaptureBudget
<1>0. pc = "touch" /\ pc' \in {"touch", "respawn"} /\ ~matchOver'
  BY NextIdPhase, Zenon DEF TouchFlags
<1>1. /\ score'[enemy] = score[enemy]
      /\ score'[own] = IF Captures(idx) THEN score[own] + 1 ELSE score[own]
  BY <1>p, Zenon DEF TouchFlags, TypeOK, MatchType
<1>2. (pc' = "touch" => idx' = idx + 1)
  BY <1>0, Zenon DEF TouchFlags, NextId
<1>3. CASE \E t \in Team : score[t] = ScoreToWin
  <2>1. \A f \in Team : \/ flagState[f] = "AtBase"
                        \/ flagState[f] = "Carried" /\ carrier[f] < idx
    BY <1>0, <1>3, Zenon DEF CaptureBudget
  <2>2. ~carrying[idx]
    BY <1>t, <2>1 DEF FlagConsistency
  <2>3. ~Captures(idx)
    <3> SUFFICES ASSUME PicksUp(idx), Touches(idx, Base[own]) PROVE FALSE
      BY <1>p, <2>2, Zenon DEF Captures
    <3>1. flagState[enemy] # "Carried" /\ Overlap(position[idx], flagPos[enemy])
      BY <1>p, Zenon DEF PicksUp, Touches
    <3>2. flagPos[enemy] = Base[enemy]
      BY <2>1, <3>1, Zenon DEF FlagConsistency
    <3>3. Overlap(position[idx], Base[enemy]) /\ Overlap(position[idx], Base[own])
      BY <3>1, <3>2, Zenon DEF Touches
    <3>. QED  BY <1>t, <1>p, <3>3, TeamFact, MapAssumption, Zenon
  <2>4. \A t \in Team : score'[t] = score[t]
    BY <1>1, <1>p, <2>3, Zenon
  <2>5. ~Returns(idx)
    BY <1>p, <2>1, Zenon DEF Returns
  <2>6. \A f \in Team : \/ /\ flagState'[f] = flagState[f]
                           /\ carrier'[f] = carrier[f]
                        \/ flagState'[f] = "Carried" /\ carrier'[f] = idx
    BY <1>p, <2>3, <2>5, Zenon DEF TouchFlags
  <2>7. pc' = "touch" =>
          \A f \in Team : \/ flagState'[f] = "AtBase"
                          \/ flagState'[f] = "Carried" /\ carrier'[f] < idx'
    <3> SUFFICES ASSUME NEW f \in Team, idx' = idx + 1
                 PROVE  \/ flagState'[f] = "AtBase"
                        \/ flagState'[f] = "Carried" /\ carrier'[f] < idx'
      BY <1>2, Zenon
    <3>1. flagState[f] = "Carried" => carrier[f] \in Nat
      BY <1>t, Zenon DEF FlagConsistency
    <3>. QED  BY <1>t, <2>1, <2>6, <3>1
  <2>. QED  BY <1>0, <2>4, <2>7, Zenon DEF CaptureBudget
<1>4. CASE \A t \in Team : score[t] # ScoreToWin
  <2>1. \A t \in Team : score[t] < ScoreToWin
    BY <1>t, <1>4 DEF CaptureBudget
  <2>2. CASE Captures(idx)
    <3>1. flagState'[own] = "AtBase" /\ flagState'[enemy] = "AtBase"
      BY <1>p, <2>2, Zenon DEF TouchFlags, Captures
    <3>2. score'[own] <= ScoreToWin /\ score'[enemy] < ScoreToWin
      BY <1>1, <1>t, <2>1
    <3>. QED  BY <1>0, <1>p, <1>1, <1>t, <2>1, <3>1, <3>2, Zenon
                 DEF CaptureBudget
  <2>3. CASE ~Captures(idx)
    <3>1. \A t \in Team : score'[t] = score[t]
      BY <1>1, <1>p, <2>3, Zenon
    <3>. QED  BY <1>0, <1>t, <1>4, <2>1, <3>1, Zenon DEF CaptureBudget
  <2>. QED  BY <2>2, <2>3, Zenon
<1>. QED  BY <1>3, <1>4, Zenon

(* In every step captures of a tick stay within the budget.                *)
LEMMA BudgetStep ==
  ASSUME TypeOK, FlagConsistency, CaptureBudget, [Next]_vars
  PROVE  CaptureBudget'
<1>t. /\ \A t \in Team : score[t] \in Nat
      /\ ScoreToWin \in Nat \ {0}
  BY RulesAssumption, Zenon DEF TypeOK, MatchType
<1>1. CASE WinCheckAndPublish
  <2> SUFFICES ASSUME ~matchOver' PROVE CaptureBudget'
    BY Zenon DEF CaptureBudget
  <2>1. /\ ~matchOver /\ score' = score /\ pc' = "drain"
        /\ \A t \in Team : ~(score[t] >= ScoreToWin)
    BY <1>1, Zenon DEF WinCheckAndPublish, Decided
  <2>. QED  BY <1>t, <2>1, TeamFact DEF CaptureBudget
<1>2. CASE TouchFlags
  BY <1>2, BudgetTouch, Zenon
<1>3. ASSUME UNCHANGED <<score, matchOver>>,
             \/ pc' \in {"drain", "combat", "flags"} /\ pc = pc'
             \/ pc = "drain" /\ pc' = "combat"
             \/ pc = "combat" /\ pc' \in {"combat", "flags"}
             \/ pc = "flags" /\ pc' = "touch"
             \/ pc = "respawn" /\ pc' \in {"respawn", "win"}
      PROVE  CaptureBudget'
  BY <1>3, <1>t DEF CaptureBudget
<1>4. CASE UNCHANGED vars
  BY <1>4, Zenon DEF vars, CaptureBudget, matchVars, flagVars
<1>5. CASE Drain
  BY <1>3, <1>5, Zenon DEF Drain, ApplyJoin, ApplyLeave, QueueInput, matchVars
<1>6. CASE PopAndMove
  BY <1>3, <1>6, Zenon DEF PopAndMove, matchVars
<1>7. CASE Combat
  BY <1>3, <1>7, NextIdPhase, Zenon
     DEF Combat, HoldFire, ShotMisses, ShotWounds, ShotKills, matchVars
<1>8. CASE FlagUpkeep
  BY <1>3, <1>8, Zenon DEF FlagUpkeep, matchVars
<1>9. CASE RespawnTimers
  BY <1>3, <1>9, NextIdPhase, Zenon DEF RespawnTimers, matchVars
<1>. QED
  BY <1>1, <1>2, <1>4, <1>5, <1>6, <1>7, <1>8, <1>9, Zenon DEF Next, Tick

-----------------------------------------------------------------------------
IndInv ==
  /\ TypeOK
  /\ LifeConsistency
  /\ FlagConsistency
  /\ DroppedFlagIsYoung
  /\ CaptureBudget

(* The conjunction of the invariants above is inductive: it holds at the   *)
(* start and every step of the simulation keeps it.                        *)
THEOREM Invariance == Spec => []IndInv
<1>1. Init => IndInv
  BY InitType, InitLife, InitFlag, InitYoung, InitBudget, Zenon DEF IndInv
<1>2. IndInv /\ [Next]_vars => IndInv'
  BY TypeStep, LifeStep, FlagStep, YoungStep, BudgetStep, Zenon DEF IndInv
<1>. QED  BY <1>1, <1>2, PTL DEF Spec

(* The variables of the simulation keep their types: in particular no      *)
(* input ring overflows, and no timer runs below zero.                     *)
THEOREM TypeCorrect == Spec => []TypeOK
  BY Invariance, PTL DEF IndInv

(* handle_death, the respawn loop, apply_join and apply_leave together     *)
(* keep health, alive and respawn_timer of every player in step.           *)
THEOREM LifeSafe == Spec => []LifeConsistency
  BY Invariance, PTL DEF IndInv

(* However deaths, departures, returns, pick-ups and captures follow each  *)
(* other, carrier_id of the flags and carrying_flag of the players agree.  *)
THEOREM FlagSafe == Spec => []FlagConsistency
  BY Invariance, PTL DEF IndInv

(* The auto-return of flags_phase is punctual: no flag is on the ground    *)
(* longer than FlagAutoReturnTicks.                                        *)
THEOREM DropSafe == Spec => []DroppedFlagIsYoung
  BY Invariance, PTL DEF IndInv

(* win_check never announces a score above ScoreToWin or one where both    *)
(* teams have reached it, for any map whose bases do not touch.            *)
THEOREM EndSafe == Spec => DecisiveEnd
<1>1. IndInv => [~matchOver /\ matchOver' =>
                   /\ \A t \in Team : score[t] <= ScoreToWin
                   /\ \E t \in Team : score[t] < ScoreToWin]_vars
  BY Zenon DEF IndInv, CaptureBudget
<1>. QED  BY <1>1, Invariance, PTL DEF DecisiveEnd

-----------------------------------------------------------------------------
Has(s, e) == \E n \in DOMAIN s : s[n] = e

(* An event that is pushed first, last or in between is pushed.            *)
LEMMA HasPart ==
  ASSUME NEW S, NEW a \in Seq(S), NEW b \in Seq(S), NEW e,
         Has(a, e) \/ Has(b, e)
  PROVE  Has(a \o b, e)
<1>1. ASSUME NEW n \in DOMAIN a, a[n] = e  PROVE Has(a \o b, e)
  <2>1. n \in DOMAIN (a \o b) /\ (a \o b)[n] = a[n]
    BY <1>1
  <2>. QED  BY <1>1, <2>1, Zenon DEF Has
<1>2. ASSUME NEW n \in DOMAIN b, b[n] = e  PROVE Has(a \o b, e)
  <2>1. Len(a) + n \in DOMAIN (a \o b) /\ (a \o b)[Len(a) + n] = b[n]
    BY <1>2
  <2>. QED  BY <1>2, <2>1, Zenon DEF Has
<1>. QED  BY <1>1, <1>2, Zenon DEF Has

(* Of three parts of what a step pushes, each is pushed.                   *)
LEMMA HasOneOfThree ==
  ASSUME NEW S, NEW a \in Seq(S), NEW b \in Seq(S), NEW c \in Seq(S), NEW e \in S,
         a = <<e>> \/ b = <<e>> \/ c = <<e>>
  PROVE  Has(a \o b \o c, e)
<1>1. Has(<<e>>, e)
  <2>1. 1 \in DOMAIN <<e>> /\ <<e>>[1] = e
    OBVIOUS
  <2>. QED  BY <2>1, Zenon DEF Has
<1>2. a \o b \in Seq(S)
  OBVIOUS
<1>3. CASE a = <<e>> \/ b = <<e>>
  <2>1. Has(a, e) \/ Has(b, e)
    BY <1>1, <1>3, Zenon
  <2>2. Has(a \o b, e)
    BY <2>1, HasPart, Zenon
  <2>. QED  BY <1>2, <2>2, HasPart, Zenon
<1>4. CASE c = <<e>>
  BY <1>1, <1>2, <1>4, HasPart, Zenon
<1>. QED  BY <1>3, <1>4, Zenon

(* The flags after apply_leave and handle_death: only the carried one      *)
(* falls, and it lies where its carrier is.                                *)
LEMMA DropFlag ==
  ASSUME TypeOK, NEW i \in Id, DropCarriedFlag(i), NEW t \in Team,
         flagState'[t] # flagState[t]
  PROVE  /\ flagState'[t] = "Dropped" /\ flagPos'[t] = position[i]
         /\ carrying[i]
<1>1. /\ flagState \in [Team -> FlagStates] /\ flagPos \in [Team -> Pos]
      /\ team[i] \in Team
  BY Zenon DEF TypeOK, FlagType, RosterType
<1>2. CASE carrying[i]
  BY <1>1, <1>2, Zenon DEF DropCarriedFlag
<1>3. CASE ~carrying[i]
  BY <1>3, Zenon DEF DropCarriedFlag, flagVars
<1>. QED  BY <1>2, <1>3, Zenon

(* Whoever changes a flag pushes the event that says so.                   *)
LEMMA ToldStep ==
  ASSUME TypeOK, [Next]_vars
  PROVE  FlagsTold
<1>t. RosterType /\ BodyType /\ FlagType /\ idx \in Id
  BY Zenon DEF TypeOK, ControlType
<1>0. "AtBase" # "Carried" /\ "AtBase" # "Dropped" /\ "Carried" # "Dropped"
  OBVIOUS
<1>1. CASE flagState' = flagState
  BY <1>1, Zenon DEF FlagsTold
<1>2. ASSUME NEW i \in Id, ApplyLeave(i)  PROVE FlagsTold
  <2>1. active[i] /\ ~active'[i] /\ DropCarriedFlag(i)
    BY <1>2, <1>t, Zenon DEF ApplyLeave, RosterType
  <2>2. \A t \in Team : flagState'[t] # flagState[t] => flagState'[t] = "Dropped"
    BY <2>1, DropFlag, Zenon
  <2>. QED  BY <1>0, <2>1, <2>2, Zenon DEF FlagsTold
<1>3. ASSUME NEW v \in Id, ShotKills(v)  PROVE FlagsTold
  <2>. SUFFICES ASSUME NEW t \in Team, flagState'[t] # flagState[t]
                PROVE  flagState'[t] = "Dropped" /\ PushedDrop(flagPos'[t])
    BY <1>0, Zenon DEF FlagsTold
  <2>1. /\ flagState'[t] = "Dropped" /\ flagPos'[t] = position[v]
        /\ carrying[v]
    BY <1>3, DropFlag, Zenon DEF ShotKills
  <2>. DEFINE f == [type |-> "ShotFired", id |-> idx]
              d == [type |-> "FlagDropped", team |-> team[v],
                    pos |-> position[v]]
              k == [type |-> "PlayerKilled", victim |-> v, killer |-> idx]
  <2>2. events' = <<f>> \o <<d>> \o <<k>>
    BY <1>3, <2>1, Zenon DEF ShotKills, DroppedEvent
  <2>3. d.type = "FlagDropped" /\ d.pos = position[v]
    BY Zenon
  <2>. HIDE DEF f, d, k
  <2>4. /\ <<f>> \in Seq({f, d, k}) /\ <<d>> \in Seq({f, d, k})
        /\ <<k>> \in Seq({f, d, k}) /\ d \in {f, d, k}
    OBVIOUS
  <2>5. Has(events', d)
    BY <2>2, <2>4, HasOneOfThree, Zenon
  <2>. QED  BY <2>1, <2>3, <2>5, Zenon DEF Has, PushedDrop
<1>4. ASSUME FlagUpkeep  PROVE FlagsTold
  <2>. SUFFICES ASSUME NEW t \in Team, flagState'[t] # flagState[t]
                PROVE  flagState'[t] = "AtBase" /\ Pushed("FlagReturned", t)
    BY <1>0, Zenon DEF FlagsTold
  <2>1. flagState'[t] = "AtBase" /\ TimeUp(t)
    BY <1>4, Zenon DEF FlagUpkeep
  <2>. DEFINE r == ReturnedEvent("Red", NoOne)
              b == ReturnedEvent("Blue", NoOne)
              x == IF TimeUp("Red") THEN <<r>> ELSE <<>>
              y == IF TimeUp("Blue") THEN <<b>> ELSE <<>>
  <2>2. events' = x \o y
    BY <1>4, Zenon DEF FlagUpkeep
  <2>3. x \in Seq({r, b}) /\ y \in Seq({r, b})
    <3>. HIDE DEF r, b
    <3>1. /\ <<r>> \in Seq({r, b}) /\ <<b>> \in Seq({r, b})
          /\ <<>> \in Seq({r, b})
      OBVIOUS
    <3>. QED  BY <3>1, Zenon
  <2>4. Has(<<r>>, r) /\ Has(<<b>>, b)
    <3>1. /\ 1 \in DOMAIN <<r>> /\ <<r>>[1] = r
          /\ 1 \in DOMAIN <<b>> /\ <<b>>[1] = b
      <4>. HIDE DEF r, b
      <4>. QED  OBVIOUS
    <3>. QED  BY <3>1, Zenon DEF Has
  <2>5. t = "Red" \/ t = "Blue"
    BY TeamFact, Zenon
  <2>6. Has(x, ReturnedEvent(t, NoOne)) \/ Has(y, ReturnedEvent(t, NoOne))
    BY <2>1, <2>4, <2>5, Zenon
  <2>. HIDE DEF x, y
  <2>7. Has(events', ReturnedEvent(t, NoOne))
    BY <2>2, <2>3, <2>6, HasPart, Zenon
  <2>8. /\ ReturnedEvent(t, NoOne).type = "FlagReturned"
        /\ ReturnedEvent(t, NoOne).team = t
    BY Zenon DEF ReturnedEvent
  <2>. QED  BY <2>1, <2>7, <2>8, Zenon DEF Has, Pushed
<1>5. ASSUME TouchFlags  PROVE FlagsTold
  <2>. DEFINE own == team[idx]
              enemy == Enemy(team[idx])
              r == ReturnedEvent(own, idx)
              p == [type |-> "FlagPickedUp", team |-> enemy, by |-> idx]
              c == [type |-> "FlagCaptured", team |-> enemy, by |-> idx]
              x == IF Returns(idx) THEN <<r>> ELSE <<>>
              y == IF PicksUp(idx) THEN <<p>> ELSE <<>>
              z == IF Captures(idx) THEN <<c>> ELSE <<>>
  <2>1. own \in Team /\ enemy \in Team /\ \A t \in Team : t = own \/ t = enemy
    <3>1. own \in Team
      BY <1>t, Zenon DEF RosterType
    <3>. QED  BY <3>1, TeamFact, Zenon
  <2>2. events' = x \o y \o z
    BY <1>5, Zenon DEF TouchFlags
  <2>3. /\ r.type = "FlagReturned" /\ r.team = own
        /\ p.type = "FlagPickedUp" /\ p.team = enemy
        /\ c.type = "FlagCaptured" /\ c.team = enemy
    BY Zenon DEF ReturnedEvent
  <2>4. \A t \in Team :
          flagState'[t] = IF t = own
                          THEN IF Returns(idx) THEN "AtBase" ELSE flagState[t]
                          ELSE IF Captures(idx) THEN "AtBase"
                          ELSE IF PicksUp(idx) THEN "Carried" ELSE flagState[t]
    BY <1>5, Zenon DEF TouchFlags
  <2>. HIDE DEF own, enemy, r, p, c
  <2>5. x \in Seq({r, p, c}) /\ y \in Seq({r, p, c}) /\ z \in Seq({r, p, c})
    <3>1. /\ <<r>> \in Seq({r, p, c}) /\ <<p>> \in Seq({r, p, c})
          /\ <<c>> \in Seq({r, p, c}) /\ <<>> \in Seq({r, p, c})
      OBVIOUS
    <3>. QED  BY <3>1, Zenon
  <2>6. /\ Returns(idx) => x = <<r>>
        /\ PicksUp(idx) => y = <<p>>
        /\ Captures(idx) => z = <<c>>
    BY Zenon
  <2>. HIDE DEF x, y, z
  <2>7. /\ Returns(idx) => Has(events', r)
        /\ PicksUp(idx) => Has(events', p)
        /\ Captures(idx) => Has(events', c)
    <3>1. r \in {r, p, c} /\ p \in {r, p, c} /\ c \in {r, p, c}
      BY Zenon
    <3>. QED  BY <2>2, <2>5, <2>6, <3>1, HasOneOfThree, Zenon
  <2>8. /\ Returns(idx) => Pushed("FlagReturned", own)
        /\ PicksUp(idx) => Pushed("FlagPickedUp", enemy)
        /\ Captures(idx) => Pushed("FlagCaptured", enemy)
    BY <2>3, <2>7, Zenon DEF Has, Pushed
  <2>. SUFFICES ASSUME NEW t \in Team, flagState'[t] # flagState[t]
                PROVE  \/ flagState'[t] = "Carried" /\ Pushed("FlagPickedUp", t)
                       \/ /\ flagState'[t] = "AtBase"
                          /\ Pushed("FlagReturned", t) \/ Pushed("FlagCaptured", t)
    BY <1>0, Zenon DEF FlagsTold
  <2>9. CASE t = own
    BY <2>4, <2>8, <2>9, Zenon
  <2>10. CASE t # own
    BY <2>1, <2>4, <2>8, <2>10, Zenon
  <2>. QED  BY <2>9, <2>10, Zenon
<1>6. ASSUME \/ \E j \in Joins : ApplyJoin(j.id, j.team, j.spawn)
             \/ \E i \in Id : QueueInput(i) \/ ShotWounds(i)
             \/ PopAndMove \/ HoldFire \/ ShotMisses \/ RespawnTimers
             \/ WinCheckAndPublish \/ UNCHANGED vars
      PROVE  flagState' = flagState
  BY <1>6, Zenon
     DEF ApplyJoin, QueueInput, ShotWounds, PopAndMove, HoldFire, ShotMisses,
         RespawnTimers, WinCheckAndPublish, flagVars, vars
<1>. QED
  BY <1>1, <1>2, <1>3, <1>4, <1>5, <1>6, Zenon DEF Next, Drain, Tick, Combat

(* flags_phase and handle_death push an event for every flag they take,    *)
(* return, capture or let fall, with the place where it lies: for any      *)
(* number of players and any map.                                          *)
THEOREM FlagsAnnounced == Spec => EventsTellFlags
<1>1. IndInv /\ [Next]_vars => [FlagsTold]_vars
  BY ToldStep, Zenon DEF IndInv
<1>. QED  BY <1>1, Invariance, PTL DEF Spec, EventsTellFlags
=============================================================================
