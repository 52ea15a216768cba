---------------------------- MODULE DeltaSnapshot ----------------------------
(***************************************************************************)
(* The snapshot stream: Sim::publish sends a full WORLD_SNAPSHOT now and   *)
(* then and a DELTA_SNAPSHOT against the previous publish in between       *)
(* (server/sim.cpp, shared/protocol.cpp), and the client decodes the       *)
(* deltas onto the last snapshot it holds (client/net_client.cpp           *)
(* dispatch_udp_payload).  Datagrams stay in the network, so they may be   *)
(* lost, delayed, duplicated and reordered.                                *)
(*                                                                         *)
(* A player has an id, a position, which the wire rounds, and an hp, which *)
(* stands for the fields it does not (aim, health, flags byte).  The score *)
(* stands for the header fields.  The ack at offset 0 is in every          *)
(* datagram and is left out.                                               *)
(***************************************************************************)
EXTENDS Integers, Sequences, FiniteSets, FiniteSetsExt

CONSTANTS
  Ids,               \* player ids, which the registry hands out from 0
  Bodies,            \* records of pos and hp a player can show
  Worlds,            \* records of score and players (ids to Bodies): what
                     \* there can be to publish
  WireUnit,          \* fixed-point units per wire unit
  KeyframeInterval,  \* kSnapshotKeyframeInterval
  Div,               \* tick rate over snapshot rate
  AgoMax,            \* 255, the most baseline_ticks_ago can say
  MaxTick            \* bound: ticks of the server

ASSUME DeltaAssumption ==
  /\ Ids \subseteq Nat /\ IsFiniteSet(Ids)
  /\ Bodies \subseteq [pos : Nat, hp : Nat] /\ IsFiniteSet(Bodies)
  /\ \A w \in Worlds : /\ w.score \in Nat
                       /\ DOMAIN w.players \subseteq Ids
                       /\ w.players \in [DOMAIN w.players -> Bodies]
  /\ WireUnit \in Nat \ {0}
  /\ KeyframeInterval \in Nat \ {0}
  /\ Div \in Nat \ {0}
  /\ AgoMax \in Nat \ {0}
  /\ MaxTick \in Nat

VARIABLES
  tick, published,    \* current_tick_; history variable: all publishes
  net,                \* datagrams in the network
  have, cache,        \* the client: have_last_snapshot_, last_snapshot_cache_
  fresh, stall        \* history variables: the newest publish has not
                      \* arrived yet; publishes in a row that arrived at once
                      \* and were dropped

vars == <<tick, published, net, have, cache, fresh, stall>>

Slots == 1 .. Cardinality(Ids)

(* PlayerState{}: what an unused slot holds.  It has the id of a player. *)
Blank == [id |-> 0, pos |-> 0, hp |-> 0]

-----------------------------------------------------------------------------
(* Snapshots *)

(* Mutant: positions travel unrounded. *)
OnWireRaw(p) == p

(* write_vec2 and read_vec2. *)
OnWire(p) == (p \div WireUnit) * WireUnit

(* What publish() builds: the active players in the order of their ids, in *)
(* the first slots.                                                        *)
Roster(R) ==
  [i \in 1 .. Cardinality(R) |->
     CHOOSE id \in R : Cardinality({j \in R : j < id}) = i - 1]

Build(t, w) ==
  LET ids == DOMAIN w.players
  IN  [tick |-> t, score |-> w.score, count |-> Cardinality(ids),
       slots |-> [i \in Slots |->
         IF i <= Cardinality(ids)
         THEN LET id == Roster(ids)[i]
              IN  [id |-> id, pos |-> w.players[id].pos,
                   hp |-> w.players[id].hp]
         ELSE Blank]]

(* What a client holds of a snapshot after encode and decode. *)
Rounded(snap) ==
  [tick |-> snap.tick, score |-> snap.score, count |-> snap.count,
   slots |-> [i \in Slots |-> LET p == snap.slots[i]
                              IN  [id |-> p.id, pos |-> OnWire(p.pos),
                                   hp |-> p.hp]]]

-----------------------------------------------------------------------------
(* The codec *)

PlayerDiffers(a, b) ==
  a.id # b.id \/ OnWire(a.pos) # OnWire(b.pos) \/ a.hp # b.hp

(* encode_delta_snapshot: a field is a singleton set if it is in its mask, *)
(* and empty otherwise.                                                    *)
Present(cond, v) == IF cond THEN {v} ELSE {}

EncodeDelta(cur, base) ==
  LET ago == cur.tick - base.tick
      rosterChanged == cur.count # base.count
      compared == 1 .. IF rosterChanged THEN Max({cur.count, base.count})
                                        ELSE cur.count
      changed == {i \in compared : \/ rosterChanged
                                   \/ PlayerDiffers(cur.slots[i], base.slots[i])}
  IN  [type |-> "Delta", tick |-> cur.tick,
       ago |-> Min({ago, AgoMax}),
       score |-> Present(cur.score # base.score, cur.score),
       count |-> Present(rosterChanged, cur.count),
       slots |-> [i \in changed |->
         LET p == cur.slots[i]
             b == base.slots[i]
         IN  [id |-> p.id,
              pos |-> Present(rosterChanged \/ OnWire(p.pos) # OnWire(b.pos),
                              OnWire(p.pos)),
              hp |-> Present(rosterChanged \/ p.hp # b.hp, p.hp)]]]

Taken(field, old) == IF field = {} THEN old ELSE CHOOSE v \in field : TRUE

(* Mutant: a delta is applied to whatever is cached. *)
BaselineAny(d, c) == d.ago <= d.tick

BaselineMatches(d, c) == d.ago <= d.tick /\ c.tick = d.tick - d.ago

(* decode_delta_snapshot, once the baseline matches. *)
ApplyDelta(d, c) ==
  [tick |-> d.tick,
   score |-> Taken(d.score, c.score),
   count |-> Taken(d.count, c.count),
   slots |-> [i \in Slots |->
     IF i \in DOMAIN d.slots
     THEN [id |-> d.slots[i].id, pos |-> Taken(d.slots[i].pos, c.slots[i].pos),
           hp |-> Taken(d.slots[i].hp, c.slots[i].hp)]
     ELSE c.slots[i]]]

-----------------------------------------------------------------------------
Init ==
  /\ tick = 0 /\ published = <<>>
  /\ net = {}
  /\ have = FALSE
  /\ cache = Build(0, [score |-> 0, players |-> <<>>])
  /\ fresh = FALSE /\ stall = 0

(* Mutant: only the first publish is a keyframe. *)
IsKeyframeOnce == published = <<>>

IsKeyframe ==
  published = <<>> \/ Len(published) % KeyframeInterval = 0

(* The end of a tick: publish(), if this tick is one of those that do. *)
Publish(w) ==
  /\ tick < MaxTick /\ tick % Div = 0
  /\ tick' = tick + 1
  /\ LET snap == Build(tick, w)
     IN  /\ published' = Append(published, snap)
         /\ net' = net \cup
              {IF IsKeyframe
               THEN [type |-> "Full", tick |-> tick, snap |-> Rounded(snap)]
               ELSE EncodeDelta(snap, published[Len(published)])}
         /\ fresh' = TRUE
         /\ stall' = IF fresh THEN 0 ELSE stall
  /\ UNCHANGED <<have, cache>>

SkipPublish ==
  /\ tick < MaxTick /\ tick % Div # 0
  /\ tick' = tick + 1
  /\ UNCHANGED <<published, net, have, cache, fresh, stall>>

(* A datagram that is the newest publish, arriving for the first time. *)
IsFresh(d) == fresh /\ d.tick = published[Len(published)].tick

Accepted(d) == d.type = "Full" \/ (have /\ BaselineMatches(d, cache))

(* dispatch_udp_payload.  A keyframe always replaces the cache; a delta    *)
(* with another baseline costs the client its cache.                       *)
Deliver(d) ==
  /\ have' = Accepted(d)
  /\ cache' = IF d.type = "Full" THEN d.snap
              ELSE IF Accepted(d) THEN ApplyDelta(d, cache) ELSE cache
  /\ fresh' = (fresh /\ ~IsFresh(d))
  /\ stall' = IF Accepted(d) THEN 0
              ELSE IF IsFresh(d) THEN stall + 1 ELSE stall
  /\ UNCHANGED <<tick, published, net>>

Next ==
  \/ \E w \in Worlds : Publish(w)
  \/ SkipPublish
  \/ \E d \in net : Deliver(d)

Spec == Init /\ [][Next]_vars

-----------------------------------------------------------------------------
(* Properties *)

Snapshot(pos) ==
  [tick : 0 .. MaxTick, score : {w.score : w \in Worlds} \cup {0},
   count : 0 .. Cardinality(Ids),
   slots : [Slots -> [id : Ids \cup {0}, pos : pos,
                      hp : {b.hp : b \in Bodies} \cup {0}]]]

Positions == {b.pos : b \in Bodies} \cup {0}

(* The types; a client holds positions of the wire's resolution only. *)
TypeOK ==
  /\ tick \in 0 .. MaxTick
  /\ \A n \in DOMAIN published : published[n] \in Snapshot(Positions)
  /\ have \in BOOLEAN
  /\ cache \in Snapshot({p \in 0 .. Max(Positions) : p % WireUnit = 0})
  /\ fresh \in BOOLEAN
  /\ stall \in 0 .. MaxTick

(* A client never shows a state the server was not in: whatever deltas     *)
(* were lost, repeated or reordered, and through players joining and       *)
(* leaving, the snapshot it holds is the one the server published for that *)
(* tick, rounded by the wire.                                              *)
CacheIsPublished ==
  have => \E n \in DOMAIN published : cache = Rounded(published[n])

(* The stall after a loss ends with the next keyframe: of the publishes    *)
(* that arrive in time, fewer than KeyframeInterval in a row are dropped.  *)
StallBounded == stall < KeyframeInterval
=============================================================================
