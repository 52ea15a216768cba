-------------------------------- MODULE Inputs --------------------------------
(***************************************************************************)
(* The way of one player's inputs: numbered and predicted by the client    *)
(* (client/prediction.cpp, client/main.cpp), sent several at a time over   *)
(* UDP (client/net_client.cpp), queued by the network thread               *)
(* (server/net_server.cpp on_player_input), deduplicated into the player's *)
(* ring and applied one per tick by the simulation (server/sim.cpp), and   *)
(* acknowledged by snapshots the client reconciles with.                   *)
(*                                                                         *)
(* Datagrams are never removed from the network, so any of them may be     *)
(* lost, delayed, duplicated or overtaken.  A snapshot is known by its age *)
(* in ticks instead of its tick number; the network forgets it at MaxAge.  *)
(* The world is one axis with a wall at either end: movement_step with the *)
(* map is the subject of another module, its rounding on the wire of this. *)
(***************************************************************************)
EXTENDS Integers, Sequences, FiniteSets

CONSTANTS
  Dirs,        \* subset of {-1, 0, 1}: the inputs a player gives
  Redundancy,  \* kInputRedundancy
  RingSize,    \* kInputRingSize
  HistorySize, \* kInputHistoryRingSize
  Speed,       \* kMoveSpeedFpPerTick
  WireUnit,    \* fixed-point units per wire unit, 2^kWireFixedShift
  Width,       \* the far wall
  Spawn,       \* the spawn point
  MaxSeq,      \* bound: inputs the client issues
  MaxAge,      \* bound: ticks a snapshot stays in the network
  MaxDeaths,   \* bound: deaths of the player
  MaxInbound   \* bound: commands in the inbound queue when more arrive

ASSUME InputsAssumption ==
  /\ Dirs \subseteq {-1, 0, 1}
  /\ Redundancy \in Nat \ {0}
  /\ RingSize \in Nat \ {0}
  /\ HistorySize \in Nat \ {0}
  /\ Speed \in Nat
  /\ WireUnit \in Nat \ {0}
  /\ Width \in Nat
  /\ Spawn \in 0 .. Width
  /\ MaxSeq \in Nat
  /\ MaxAge \in Nat
  /\ MaxDeaths \in Nat
  /\ MaxInbound \in Nat

VARIABLES
  seq, history, local, lastAge, selfAlive,   \* the client
  issued,                \* history variable: every input it ever issued
  up, down,              \* datagrams in the network
  pushing, inbound,      \* commands on_player_input has yet to push; queued
  alive, pos, newest, ring, ack, deaths,     \* the player in the simulation
  diedAt, lived          \* history variables: while inputs received before
                         \* the last death wait in the ring, the newest of
                         \* them and the ticks of the new life; else 0

clientVars == <<seq, history, local, lastAge, selfAlive, issued>>
lifeVars == <<diedAt, lived>>
simVars == <<alive, pos, newest, ring, ack, deaths, lifeVars>>
vars == <<clientVars, up, down, pushing, inbound, simVars>>

-----------------------------------------------------------------------------
(* Movement and the wire *)

(* movement_step along one axis: a step into a wall is not made. *)
MovementStep(p, dir) ==
  IF p + dir * Speed \in 0 .. Width THEN p + dir * Speed ELSE p

(* write_vec2 shifts the fraction out and read_vec2 shifts zeros in. *)
OnWire(p) == (p \div WireUnit) * WireUnit

(* The position after replaying a history from p. *)
Replay(p, h) ==
  LET after[n \in 0 .. Len(h)] ==
        IF n = 0 THEN p ELSE MovementStep(after[n - 1], h[n].input)
  IN  after[Len(h)]

Init ==
  /\ seq = 0 /\ history = <<>> /\ local = 0 /\ lastAge = MaxAge + 1
  /\ selfAlive = FALSE /\ issued = <<>>
  /\ up = {} /\ down = {}
  /\ pushing = <<>> /\ inbound = <<>>
  /\ alive = TRUE /\ pos = Spawn /\ newest = 0 /\ ring = <<>> /\ ack = 0
  /\ deaths = 0 /\ diedAt = 0 /\ lived = 0

-----------------------------------------------------------------------------
(* The client *)

Last(s, n) == SubSeq(s, IF Len(s) > n THEN Len(s) - n + 1 ELSE 1, Len(s))

(* send_current_input: the newest inputs of the history, or an idle one    *)
(* numbered zero, which the server has always seen.                        *)
Packet(n, h) ==
  IF h = <<>> THEN [base |-> 0, inputs |-> <<0>>]
  ELSE [base |-> n,
        inputs |-> [k \in DOMAIN Last(h, Redundancy) |->
                      Last(h, Redundancy)[k].input]]

(* Mutant: a full history keeps its oldest entries. *)
RememberIfRoom(h, e) == IF Len(h) = HistorySize THEN h ELSE Append(h, e)

(* RingBuffer::push_back on the history. *)
Remember(h, e) ==
  Append(IF Len(h) = HistorySize THEN Tail(h) ELSE h, e)

(* A client tick: on_local_tick if the latest snapshot shows the player    *)
(* alive, and in any case send_current_input.                              *)
ClientTick(dir) ==
  /\ IF selfAlive
     THEN /\ seq < MaxSeq
          /\ seq' = seq + 1
          /\ local' = MovementStep(local, dir)
          /\ history' = Remember(history, [seq |-> seq', input |-> dir])
          /\ issued' = Append(issued, dir)
     ELSE UNCHANGED <<seq, local, history, issued>>
  /\ up' = up \cup {Packet(seq', history')}
  /\ UNCHANGED <<lastAge, selfAlive, down, pushing, inbound, simVars>>

(* Mutant: acknowledged inputs stay in the history. *)
UnackedAll(h, n) == h

(* history_.remove_if: one entry after the other is kept or not. *)
Unacked(h, n) ==
  LET kept[k \in 0 .. Len(h)] ==
        IF k = 0 THEN <<>>
        ELSE IF h[k].seq > n THEN Append(kept[k - 1], h[k]) ELSE kept[k - 1]
  IN  kept[Len(h)]

(* UDP reorders: a snapshot not newer than the last applied is dropped. *)
Stale(s) == s.age >= lastAge

(* Snap to authority, then replay every unacknowledged input. *)
Reconcile(s, rest) ==
  /\ history' = rest
  /\ local' = Replay(s.pos, rest)

(* The client loop takes a snapshot: latest_snapshot is whatever came      *)
(* last, and then Prediction::on_snapshot.  Its count of mispredictions,   *)
(* which is only displayed, is left out, and with it the position that     *)
(* each entry of the history keeps for it.                                 *)
OnSnapshot(s) ==
  /\ selfAlive' = s.alive
  /\ IF Stale(s) THEN UNCHANGED <<history, local, lastAge>>
     ELSE /\ lastAge' = s.age
          /\ Reconcile(s, Unacked(history, s.ack))
  /\ UNCHANGED <<seq, issued, up, down, pushing, inbound, simVars>>

-----------------------------------------------------------------------------
(* The network thread *)

(* Mutant: every packet is taken to be full. *)
NumberedAsIfFull(d) ==
  [k \in DOMAIN d.inputs |-> [seq |-> d.base - Redundancy + k,
                              input |-> d.inputs[k]]]

(* The commands of a packet, numbered back from base_seq. *)
Numbered(d) ==
  [k \in DOMAIN d.inputs |-> [seq |-> d.base - Len(d.inputs) + k,
                              input |-> d.inputs[k]]]

(* on_player_input, up to the first push. *)
OnPlayerInput(d) ==
  /\ pushing = <<>> /\ Len(inbound) <= MaxInbound
  /\ pushing' = Numbered(d)
  /\ UNCHANGED <<clientVars, up, down, inbound, simVars>>

Push ==
  /\ pushing # <<>>
  /\ inbound' = Append(inbound, Head(pushing))
  /\ pushing' = Tail(pushing)
  /\ UNCHANGED <<clientVars, up, down, simVars>>

-----------------------------------------------------------------------------
(* The simulation thread *)

(* Mutant: an input seen before is taken again. *)
FreshAny(cmd) == cmd.seq >= newest

Fresh(cmd) == cmd.seq > newest

(* Mutant: a full ring is overwritten without moving its head. *)
QueueInputGrows(cmd) == ring' = Append(ring, cmd)

QueueInput(cmd) ==
  ring' = Append(IF Len(ring) = RingSize THEN Tail(ring) ELSE ring, cmd)

(* drain_inbound pops one PlayerInput: ignored if the player is dead or    *)
(* the input is not newer than all before it.                              *)
DrainInput ==
  /\ inbound # <<>>
  /\ inbound' = Tail(inbound)
  /\ IF alive /\ Fresh(Head(inbound))
     THEN newest' = Head(inbound).seq /\ QueueInput(Head(inbound))
     ELSE UNCHANGED <<newest, ring>>
  /\ UNCHANGED <<clientVars, up, down, pushing, alive, pos, ack, deaths,
                 lifeVars>>

(* Mutant: the last input of the ring is held back. *)
PopHoldsOne ==
  IF alive /\ Len(ring) > 1
  THEN /\ ack' = Head(ring).seq
       /\ ring' = Tail(ring)
  ELSE UNCHANGED <<ack, ring>>

(* pop_inputs and move_players: one input per tick; without one the player *)
(* stands still and the ack stays.                                         *)
PopAndMove ==
  IF alive /\ ring # <<>>
  THEN /\ ack' = Head(ring).seq
       /\ ring' = Tail(ring)
  ELSE UNCHANGED <<ack, ring>>

Moved ==
  IF alive /\ ring # <<>> THEN MovementStep(pos, Head(ring).input) ELSE pos

(* The inputs of r received no later than the one numbered n. *)
Leftover(r, n) == {k \in DOMAIN r : r[k].seq <= n}

(* The history variables after a tick. *)
RecordLife(hit) ==
  LET last == IF hit THEN newest ELSE diedAt
  IN  /\ diedAt' = IF Leftover(ring', last) = {} THEN 0 ELSE last
      /\ lived' = IF alive /\ ~hit /\ diedAt' # 0 THEN lived + 1 ELSE 0

(* The rest of tick() once the queue is empty: the player may be shot, a   *)
(* dead player may come back, and a snapshot is published.  Death leaves   *)
(* the ring alone.                                                         *)
Tick(hit, back) ==
  /\ inbound = <<>>
  /\ hit => alive /\ deaths < MaxDeaths
  /\ back => ~alive
  /\ PopAndMove
  /\ alive' = ((alive /\ ~hit) \/ back)
  /\ deaths' = IF hit THEN deaths + 1 ELSE deaths
  /\ pos' = IF back THEN Spawn ELSE Moved
  /\ down' = {[s EXCEPT !.age = @ + 1] : s \in {t \in down : t.age < MaxAge}}
               \cup {[age |-> 0, ack |-> ack', pos |-> OnWire(pos'),
                      alive |-> alive']}
  /\ lastAge' = IF lastAge <= MaxAge THEN lastAge + 1 ELSE lastAge
  /\ RecordLife(hit)
  /\ UNCHANGED <<seq, history, local, selfAlive, issued, up, pushing, inbound,
                 newest>>

-----------------------------------------------------------------------------
Next ==
  \/ \E dir \in Dirs : ClientTick(dir)
  \/ \E s \in down : OnSnapshot(s)
  \/ \E d \in up : OnPlayerInput(d)
  \/ Push
  \/ DrainInput
  \/ \E hit, back \in BOOLEAN : Tick(hit, back)

Spec == Init /\ [][Next]_vars

(* The threads run, and the simulation finds its queue empty again and     *)
(* again: datagrams come at the rate of the ticks, so drain_inbound does   *)
(* not run for ever.  Of the network: however many datagrams are lost,     *)
(* some snapshot newer than the last gets through, and so does a datagram  *)
(* with the last input, which stands here for its endless repetitions.     *)
FairSpec ==
  /\ Spec
  /\ WF_vars(Push)
  /\ WF_vars(DrainInput)
  /\ SF_vars(Tick(FALSE, FALSE))
  /\ SF_vars(Tick(FALSE, TRUE))
  /\ WF_vars(\E dir \in Dirs : ClientTick(dir))
  /\ SF_vars(\E s \in down : ~Stale(s) /\ OnSnapshot(s))
  /\ SF_vars(\E d \in up : d.base = seq /\ OnPlayerInput(d))

-----------------------------------------------------------------------------
(* Properties *)

Cmd == [seq : Int, input : Dirs \cup {0}]
Snapshot == [age : 0 .. MaxAge, ack : 0 .. MaxSeq, pos : 0 .. Width,
             alive : BOOLEAN]

TypeOK ==
  /\ seq \in 0 .. MaxSeq
  /\ history \in Seq([seq : 1 .. MaxSeq, input : Dirs])
  /\ Len(history) <= HistorySize
  /\ local \in 0 .. Width
  /\ lastAge \in 0 .. MaxAge + 1
  /\ selfAlive \in BOOLEAN
  /\ issued \in Seq(Dirs) /\ Len(issued) = seq
  /\ \A d \in up : /\ d.base \in 0 .. MaxSeq
                   /\ d.inputs \in Seq(Dirs \cup {0})
                   /\ Len(d.inputs) \in 1 .. Redundancy
  /\ down \in SUBSET Snapshot
  /\ pushing \in Seq(Cmd) /\ inbound \in Seq(Cmd)
  /\ alive \in BOOLEAN
  /\ pos \in 0 .. Width
  /\ newest \in 0 .. MaxSeq
  /\ ring \in Seq(Cmd) /\ Len(ring) <= RingSize
  /\ ack \in 0 .. MaxSeq
  /\ deaths \in 0 .. MaxDeaths
  /\ diedAt \in 0 .. MaxSeq
  /\ lived \in 0 .. RingSize

(* Whatever the network repeats, delays and reorders, the ring holds       *)
(* inputs in the order they were given, none twice, none already applied   *)
(* and none the client has not issued; so no input is applied twice.       *)
RingOrdered ==
  /\ \A n \in DOMAIN ring : ring[n].seq > ack /\ ring[n].seq <= newest
  /\ \A m, n \in DOMAIN ring : m < n => ring[m].seq < ring[n].seq
  /\ ack <= newest
  /\ newest <= seq

(* A number means one input: what the client packs by position in its      *)
(* history and the server numbers back from base_seq is, in the packet and *)
(* in the ring, the input the client gave that number, across acks that    *)
(* shorten the history, pauses while dead and a history at its capacity.   *)
SeqNamesInput ==
  /\ \A n \in DOMAIN ring : ring[n].input = issued[ring[n].seq]
  /\ \A d \in up : \A k \in DOMAIN d.inputs :
       LET cmd == Numbered(d)[k]
       IN  cmd.seq > 0 => cmd.input = issued[cmd.seq]

(* The history ends with the last input and has nothing missing in         *)
(* between, which is what lets a packet carry one number for several       *)
(* inputs; trimming by acks and dropping the oldest keep it so.            *)
HistoryContiguous ==
  \A n \in DOMAIN history : history[n].seq = seq - Len(history) + n

(* A death leaves the ring as it is, so a new life begins with inputs of   *)
(* the old one.  It does not last: each tick of the new life uses up one   *)
(* of them, and before as many ticks as the ring has entries all that the  *)
(* player does was received in this life.                                  *)
OldLifeDrains ==
  diedAt # 0 => lived + Cardinality(Leftover(ring, diedAt)) < RingSize

(* What is shown is what the server holds: once the player gives no more   *)
(* inputs, the predicted position becomes and stays the authoritative one, *)
(* up to the rounding of the wire, whatever was lost on the way and        *)
(* whether or not the player died.                                         *)
Converges == <>[](local = OnWire(pos))
=============================================================================
