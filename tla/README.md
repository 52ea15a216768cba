# A TLA+ verification of the networked Capture-the-Flag game

This directory models the game in the repository around it (an authoritative
C++ server, a predicting client and bots) in TLA+, checks the models with TLC on
small instances, and proves the most important invariants with TLAPS for every
instance. Paths such as `server/sim.cpp` are relative to the repository's `src/`.

## The system

The server is two threads. The *network thread* (`server/net_server.cpp`) polls a
listening socket, the clients' TCP connections, one UDP socket and an eventfd. It
owns the client registry and the lobby. The *simulation thread*
(`server/sim.cpp`) owns the game and calls `tick()` 30 times a second. They share
nothing but two FIFO queues, each behind a mutex (`server/queues.h`): commands go
in (joined, left, input), events and snapshots come out, and the eventfd tells
the network thread to look. A client joins over TCP, says hello over UDP, sends
its inputs over UDP three at a time, predicts its own movement, and corrects it
with the snapshots it receives. Snapshots are full ones now and then and
differences in between. Everything else the client must not miss comes over TCP
in length-prefixed frames.

### Inventory

| Part | State | Operations | What is hard |
| --- | --- | --- | --- |
| Simulation (`server/sim.cpp`) | players, flags, scores, tick, `match_over_` | `drain_inbound`, `pop_inputs`, `move_players`, `combat`, `flags_phase`, `win_check`, `publish` | a flag's carrier is recorded twice; deaths, departures and captures in one tick; timers; what happens after the end |
| Lobby, registry (`server/lobby.cpp`, `server/client_registry.cpp`) | roster, host, `in_progress_`, entries | add, remove, promote, begin, end, assign teams | two records of one roster; ids are reused; the host leaves |
| Network server (`server/net_server.cpp`, `server/broadcast.cpp`) | connections, buffers, silence clocks | one handler per descriptor, two sweeps | connections end in five ways; late datagrams; slow clients |
| Queues and eventfd (`server/queues.cpp`) | two FIFOs, a counter | push, pop, write, read | a wakeup between two reads |
| TCP framing (`shared/net_util.cpp`) | accumulation and output buffers | `send_all`, `recv_framed` | the stream is cut anywhere; buffers outlive connections |
| Inputs and prediction (`client/prediction.cpp`, `shared/ring_buffer.h`) | sequence numbers, history, ring | tick, reconcile, deduplicate | loss, repetition, reordering, full rings, rounding |
| Snapshots (`shared/protocol.cpp`) | previous publish, client's cache | encode, decode, keyframe | a delta on the wrong baseline; slots changing hands |
| Client network layer (`client/net_client.cpp`) | state, lobby view, cache | handshake, drain, dispatch | stale view of the lobby |
| Interpolation (`client/interpolation.cpp`, `client/render_policy.h`) | ring of snapshots, render clock | push, advance, sample | late keyframes, a ring that overflows, players who come and go |
| Map, movement (`shared/map.cpp`, `shared/movement.cpp`) | a constant grid | `aabb_collides`, `movement_step` | corners, rounding of diagonals |
| Bots (`bot/bot_ai.cpp`, `bot/flow_field.cpp`) | two distance fields | `build`, `steer`, `greedy_buttons`, `tick` | old and rounded positions, walls, handing over between two ways of steering |
| Start and stop, pollers (`server/main.cpp`, `server/poller_*.cpp`) | `running_` twice, interest in POLLOUT | start, stop, join, wait | a stop at any moment; nothing but readiness makes the loop look |

`PROJECT.json` lists the hazards of each at the line where they bite, with the
properties that watch them.

## Modules

| Module | Models | Instances |
| --- | --- | --- |
| `Sim` | `Sim::tick()` and its phases | `MCSim` |
| `SimProofs` | theorems about `Sim`: types, lives, flags and their events, the score | |
| `Session` | connections, registry, lobby, inbound queue, the simulation's roster and clock, the clients' view of the lobby | `MCSession` |
| `SessionProofs` | theorems about `Session` | |
| `Inputs` | one player's inputs from the keyboard to the simulation and back | `MCInputs` |
| `InputsProofs` | theorems about `Inputs` | |
| `DeltaSnapshot` | the snapshot codec and stream | `MCPlayback` |
| `Playback` | `DeltaSnapshot` with what the client draws of it | `MCPlayback` |
| `PlaybackProofs` | the codec's round trip, and theorems about `DeltaSnapshot` and `Playback` | |
| `WakeQueue` | outbound queue and eventfd | `MCPipeline` |
| `Channel` | what a queue or a stream promises: once and in order | |
| `Framing` | TCP frames and `recv_framed` | |
| `FramingProofs` | lemmas: frames come out of the stream as they went in | |
| `TcpOut` | server to client: `pending_out`, partial sends, the client's reassembly | `MCTcpOut` |
| `TcpIn` | client to server: `pre_join_` and `tcp_in_`, over connections that reuse them | `MCLink` |
| `Pipeline` | both server threads from start to stop: `WakeQueue`, the poll loop and `TcpOut` composed | `MCPipeline` |
| `PipelineProofs` | theorems about `WakeQueue` and `Pipeline`: both implement `Channel`, `Pipeline` implements `WakeQueue`, stopping is final | |
| `Link` | a connection with its UDP handshake beside `TcpIn` | `MCLink` |
| `LinkProofs` | theorems about `Link`, and through it about `TcpIn` | |
| `Arena`, `GameMap` | collision and `movement_step`; the map of the game | `MCBot` |
| `FlowField`, `Bot` | a bot's distance fields and steering; its decisions and its round of the flags | `MCBot` |
| `BotProofs` | `movement_step` never enters a wall; the search finds distances | |

### Sim

`pc` is the phase of `tick()`; loops over players whose iterations affect each
other take one step per id (`idx`), so invariants are checked between the
iterations. `Drain` is one command popped (`ApplyJoin`, `ApplyLeave`,
`QueueInput`); `PopAndMove` is `pop_inputs` and `move_players`; `HoldFire`,
`ShotMisses`, `ShotWounds`, `ShotKills` are the iterations of `combat`, with
`handle_death` inside the last; `FlagUpkeep`, `TouchFlags`, `RespawnTimers` are
the three loops of `flags_phase`; `WinCheckAndPublish` ends the tick. Geometry is
constant: positions, a step function and an overlap relation. A shot hits any
living enemy or nothing, which covers every ray `cast_ray` can compute. `events`
holds what the last step pushed.

### Session

A handler of the network thread is one step, except `begin_match_and_notify`,
which takes a step per push because the simulation pops meanwhile. `slot` is the
registry, `players`, `host` and `inProgress` the lobby, `pending` the messages in
`pending_out`, `active` the simulation's roster, `view` a client's last
LOBBY_STATE. A connection is its own session token. The address that
`auth_udp_sender` compares as well is left to `Link`.
The sweeps of `run()` happen after each handler (one ready descriptor per poll).

### Inputs

Datagrams are sets that never shrink, so any of them can be lost, late, doubled or
overtaken. `ClientTick` is `on_local_tick` and `send_current_input`,
`OnPlayerInput` and `Push` the network thread, `DrainInput` and `Tick` the
simulation, `OnSnapshot` the reconciliation. Movement is one axis between two
walls; `OnWire` rounds as `write_vec2` does. `diedAt` and `lived` are history
variables: what had been received at a death, and the ticks since the respawn.

### DeltaSnapshot

`EncodeDelta` and `ApplyDelta` translate the codec field by field, with masks as
sets that are empty or hold the field. `Publish` decides between keyframe and
delta as `Sim::publish` does, `SkipPublish` is a tick between two publishes,
`Deliver` is `dispatch_udp_payload`.

### Playback

Extends `DeltaSnapshot`: a delivered snapshot goes through `push_snapshot` into the
ring, `Advance` is `advance` for a frame of a few lengths, in hundredths of a tick,
so that the rates 1.02 and 0.98 are exact. `Sample` and `Drawn` compute what is
drawn; positions are one axis, and health stands for the discrete fields. `Blank` is
`PlayerState{}`, in the empty slots of a snapshot and as what `sample` returns for a
player that it does not find (`Missing`). Ids begin at 0, as in the code.

### Pipeline

Extends `WakeQueue` and instantiates `TcpOut`, whose `sent` is what `WakeQueue`
has `handled`. The simulation thread is `SimStarts`, `SimTest`, `TickPushes`,
`TickEnds`; the network thread `NetStarts`, `NetTest`, `NetWait`, the three steps
of `handle_wake`, `NetWrites` or, if the client is readable as well, `NetReads`, and
`NetSweeps`; main is `StopNet`, `StopSim`,
`Exit`. The client's `drain_tcp` reassembles at the other end. `running_` is
tested and set in steps of their own, since the threads race on it; `early`
remembers a `stop()` that came before its `run()`.

### Link

Extends `TcpIn` with the registry entry's token and address, the hellos and
snapshots under way, and the client's address, which may change. Hellos stay in the
network until lost, so they are repeated and outlive their connection. The silence
sweep is one of the causes of `CutOff` in `TcpIn`.

### Arena, FlowField, Bot

In the units of the code: 1/256 px, truncating divisions, the shift of `fp_mul`
rounding down. `Build` is the breadth-first search one distance at a time, which is
the order of its queue. `Connected` says of a map that the search from either base
reaches every open tile; `MCBot` has TLC evaluate it for the map of the game. `Bot` is one bot and as much of the match as it meets:
snapshots `latency` ticks old and cut to 1/16 px, movement, picking up, capturing,
and an enemy who stands somewhere with the bot's flag until killed.
`greedy_buttons` compares squared distances exactly, where the code uses floats.

### WakeQueue, TcpOut, TcpIn

`WakeQueue` has the simulation pushing and writing the eventfd and the network
thread polling, reading and popping, each a step. `TcpOut` and `TcpIn` work on
bytes: `Framing` encodes the two length bytes, the type and the body, and parses
whatever is there, garbage included. The refusal of a START_REQUEST, written past
`pending_out`, is an action of `TcpOut`'s `RefusingSpec` only, since the stream does
not survive it (run `tcp_refuse`).

## Runs

All bounds are constants of the modules (`Max...`) set in the `.cfg` files.

| Run | Properties | Instance and why it is enough |
| --- | --- | --- |
| `sim` | `TypeOK`, `LifeConsistency`, `FlagConsistency`, `DroppedFlagIsYoung`, `DecisiveEnd`, `DeadRespawn`, `EventsTellFlags`, `MatchComesToRest` | two players on a line of two cells, rings of 2, so that inputs wait behind others and outlive the match by more than a tick, health 2, cooldown 1, respawn and flag return after 2 ticks, one capture wins, time limit 4: wounds, kills, full rings, both flags away, flags that lie until they return, departures of carriers, and the ticks after the end. The tick counter stops at 9, above `LimitTicks + InputRingSize + FlagAutoReturnTicks`, after which nothing reads it. More players are covered by the proofs |
| `session_roster` | `TypeOK`, `RosterAgreement`, `SimFollowsLobby`, `LastWordIsCurrent` | three connections for two ids (so one is rejected or waits for an id), buffers of one message, so that caps cut clients off and the broadcasts of that fill other buffers |
| `session_live` | `OnlyOwnerIsHeard`, `GoneLeavesGame` | two connections for two ids, which both get id 0 in turn, each with a datagram in flight across owners; a match needs two players |
| `inputs` | `TypeOK`, `RingOrdered`, `SeqNamesInput`, `HistoryContiguous`, `OldLifeDrains`, `Converges` | three inputs, history and ring of two (both overflow), redundancy two (the first packet is short), one death, with inputs left in the ring, a step that is no multiple of the wire's unit |
| `playback` | `TypeOK`, `CacheIsPublished`, `StallBounded`, `DrawnFromPublishes`, `PlaybackForward` | players 0 and 1 who come and go, half the tick rate, four publishes with a keyframe every third: deltas on keyframes and on deltas, slots that change hands, each field of a mask alone and together. A ring of three overflows, and can have a newer snapshot than the two that are blended; the delay is three ticks; frames of one and of four ticks (`Frames`) fall short of and pass the newest snapshot |
| `pipeline` | `NoLostWakeup`, `StopHolds`, `InOrder`, `Delivered`, `ShutsDown` | two events (`MaxEvents`), of different lengths, in one tick or two; a kernel buffer of three bytes, less than a frame, so that every send is partial; the cap on `pending_out` is passed by two frames. A stop at every moment |
| `link` | `DispatchedAsSent`, `AddressIsOwners`, `Heard`, `Reached` | two connections in turn, of up to three frames, cut and ended anywhere; one change of address each (`MaxRebinds`), before or after the first hello arrives |
| `bot` | `NeverInWall`, `FieldIsShortest`, `Downhill`, `ScoresInTime` | the map of the game, all twenty spawn points with snapshots nought to three ticks old, and four starts with an enemy behind a pillar who may be killed at any tick (`Starts`); three captures, as in the game. A capture may take `Patience` = 1800 ticks, one minute at 30 Hz; `Farthest` = 50 is more than any distance on this map, or `FieldIsShortest` would fail |

Deadlock is checked in the runs of `Sim`; elsewhere the bound on inputs, ticks or
connections, the end of a match or the server's exit lets the model stop. Symmetry is used in
`session_roster` only, over the connections, which nothing tells apart.

### Where the code and its documentation differ

Each of these runs checks a sentence of the documentation, a comment or a header,
and TLC finds a behaviour that contradicts it. `PROJECT.json` quotes the lines.

| Run | Property | Says | Does |
| --- | --- | --- | --- |
| `sim_frozen` | `FrozenAfterEnd` | no gameplay state changes after MATCH_END | inputs left in the rings are still applied: players move and shoot, flags and scores change |
| `session_clock` | `EndOnlyInMatch` | the time limit ends a match | it counts from the start of the server |
| `tcp_refuse` | `ChannelSpec` | what `send_all` leaves over is buffered | the refusal of a START_REQUEST bypasses the buffer and can land inside a frame |
| `link_rebind` | `RehelloAccepted` | a client whose address changes says UDP_HELLO again | `auth_udp_sender` refuses a hello from another address than the one on record |

Others were met while modelling and have no run:

- `server/lobby.h:5-6` has MATCH_END return the same roster to the lobby for an
  immediate rematch. Nothing calls `Lobby::end_match`, so `inProgress` stays set: no
  rematch and no new joins. No action of `Session` resets it.
- FLAG_DROPPED carries "flag team, position, tick" (`docs/README.md:284`), and
  `client/render.h:41-43` has no other source for the place. `apply_leave` drops the
  flag of a carrier who disconnects without one, and the one of `handle_death` names
  the victim's team, while the flag that falls is the other's. `EventsTellFlags`
  allows for both.
- `client/render_policy.h:29-30` draws a player whom the ring does not have yet as it
  arrived, "rather than an empty/garbage state". `sample` returns `PlayerState{}` for
  such a player, whose id is 0, so player 0, when it has just joined or is named by an
  old keyframe only, counts as found and is drawn at the origin.
  `DrawnFromPublishes` says so, and claims for everybody else what the comment says.
- Positions are rounded on the wire and not in the prediction, so the misprediction
  counter counts correct predictions.
- A duplicated delta is taken for a loss and empties the client's cache;
  `StallBounded` holds all the same.
- `server/main.cpp:2-3` promises a clean shutdown on SIGINT. A `stop()` that comes
  before its thread has entered `run()` is overwritten by `run()`, and the join
  waits for ever. `StopHolds` and `ShutsDown` are therefore about a `stop()` that
  finds `run()` begun. (`running_` is a plain `bool` shared by two threads.)
- `bot/flow_field.h:7-10` says "no oscillation, no stuck bots". From the spawn
  points this holds in the run, with up to three ticks of latency. It does not hold
  everywhere: with one tick of latency, a Red bot that leaves tile (2,5), hunts an
  enemy at (12,12) and goes on once its flag is home arrives in front of the pillar
  at columns 28 to 31 so that the ways above and below it are equally long. It
  steps up and down at x = 222394/256 px between two rows and never scores.
  `Starts` of the run therefore has hunting bots without latency only, and
  `ScoresInTime` claims nothing for others.
- `bot/bot_ai.h:17` has a bot defend its base while a teammate carries the enemy's
  flag; `BotAI::tick` has no such case.
- `Interpolation` starts the render clock at the first tick less the delay
  (`client/interpolation.h:27-33`). The first `advance()` clamps it to the oldest
  tick of the ring, so the delay is built up at two percent only.
- `latest_snapshot` in `client/main.cpp` takes whatever arrives last. An old keyframe
  brings back an old roster for a moment, drawn from the fallback of
  `resolve_remote_state`; `DrawnFromPublishes` allows for it.

## Fairness

- `Sim`: `tick()` goes on (`run()` calls it for ever, and the drain loop ends as
  commands come at the rate of the ticks).
- `Session`: the network thread finishes the start of a match and sweeps after each
  poll, the simulation drains its queue, and time passes. Nothing is assumed of clients, nor that a match ends.
- `Inputs`: the threads go on; the queue is found empty again and again; of the
  network, that some newer snapshot and some datagram with the last input get
  through, since both are repeated without end.
- `Pipeline`: both threads go on, since `poll()` has a timeout and the sleep between
  ticks an end; the read loop on the eventfd ends, as a tick lasts far longer than a
  read (strong fairness of `ReadNothing`); a client sends little over TCP, a heartbeat
  now and then, so it is not readable in every round in which it is writable (strong
  fairness of `NetWrites`); main goes on once it has seen the signal,
  which itself may never come. The client polls again and again, so it reads what
  stays under way (strong fairness of `ClientRecv`).
- `Link`: both poll loops go on and bytes under way arrive (TCP). The client repeats
  its hello and the simulation publishes without end; of
  datagrams sent again and again some arrive (strong fairness of `OnUdpHello`,
  `SendSnapshot` and `RecvSnapshot`). Nothing is assumed of changes of address, nor of
  the silence sweep: a client whose address on record is out of date is `Misdirected`,
  and `Reached` claims nothing for it (run `link_rebind` shows why).
- `Bot` needs none: `ScoresInTime` bounds the ticks, and is an invariant.

## What is proved

Every safety property that a passing run checks is proved for all values of the
constants, except `ScoresInTime`. The theorems assume nothing but the named
assumptions of the modules, which TLC evaluates in the runs; the only hypotheses
besides are `Connected` and `Walkable` in `BotProofs`, which `MCBot` assumes
(`MapOfTheGame`), so that TLC evaluates them for the map and the units of the game. The
assumptions are what the code guarantees: limits are numbers and not zero where the
code divides by them or indexes with them, messages are a type byte and bytes, the
players that exist and the states a player can have are finitely many.

`SimProofs`, for any number of players up to 255, any map no position of which
touches both bases, and any positive limits: `TypeOK`, `LifeConsistency`,
`FlagConsistency`, `DroppedFlagIsYoung`, and the action properties `DecisiveEnd` and
`EventsTellFlags`, the second from the types alone. The inductive invariant `IndInv`
is the conjunction of the four with `CaptureBudget`. `TypeOK` needs
`LifeConsistency` (a timer that is decremented is not zero), `CaptureBudget` needs
`FlagConsistency` (whoever carries a flag is its carrier, and a flag at base lies
there), and `DecisiveEnd` needs `CaptureBudget`: while a match runs nobody has the
winning score before the touch loop, and once somebody gets it there, every flag is
at its base or was picked up by an id the loop has passed; so nobody else in the
loop can be home with a flag.

`SessionProofs`, for any connections, ids and limits: `TypeOK`, `RosterAgreement`,
`SimFollowsLobby`, `LastWordIsCurrent` and the action property `OnlyOwnerIsHeard`.
The last two invariants speak of the last element of a queue that matters; `Final`
names it, and lemmas say what appending, removing the head and broadcasting do to
it. `IndInv` has them in this form (`Follows`, `AllKnow`), with `RosterAgreement`,
which tells `disconnect` whom to inform, and `BeforeMatch`: the queue is empty and
the simulation has nobody until a match starts, so the joins of the start are all
there is. `OnlyOwnerIsHeard` follows from the types alone.

`InputsProofs`, for any redundancy, ring, history and map of one axis: `TypeOK`,
`RingOrdered`, `SeqNamesInput`, `HistoryContiguous`, `OldLifeDrains`. `IndInv` says
that whatever is in the history, in a datagram, between the threads and in the ring
is the input the client gave that number (`HistoryTrue`, `UpGenuine`,
`QueueGenuine`, `RingGenuine`); that the ring ascends between the acknowledged and
the newest number; and `Life`, which counts what a death left over. `Replay` and
`Unacked` are loops over a sequence: lemmas prove that their equations have a
solution and what it is.

`PipelineProofs`, for any events, socket buffers and caps: no wakeup is lost;
`WakeQueue` implements `Channel` under `sent <- handled \o queue`, `received <-
handled`; `Pipeline` implements `WakeQueue`, step by step and with its variables as
they are, so that the first two hold of the server; `StopHolds` is inductive as it
stands; and `InOrder`, that the whole way to the client implements `Channel`. For the
last, `OutInv` says that what the client has read, what is in the socket and what is
pending, one after the other, continue the stream of the popped events at the place
where the last dispatched frame ends. `FramingProofs` has the lemmas: what
`send_frame_generic` writes is what `recv_framed` finds, wherever the stream is cut.

`LinkProofs`, for any frames, connections and changes of address: `AddressIsOwners`,
with the inductive invariant `LinkInv` (the entry has the token of the present
connection, no entry means no address, a hello's token and address belong to one
connection); `Link` implements `TcpIn`; and `DispatchedAsSent`. `StreamInv`, for the
last, says which of the two buffers the bytes of a connection go to (`Route`) and
that this buffer and the bytes under way continue the stream of its frames (`Flow`).

`PlaybackProofs`, for any players, worlds, intervals, rings, delays and frames:
`TypeOK`, `CacheIsPublished`, `StallBounded`, `PlaybackForward`,
`DrawnFromPublishes`. `DeltaRoundTrip` carries the first ones: a delta applied to
the rounded snapshot it was made against gives the rounded snapshot it was made
from, slot by slot. `Stream` says that publishes are in the order of their ticks, so
that a tick names one of them, and that each datagram is a publish, whole or against
the one before. `Marked` adds that every publish whose number is a multiple of the
interval is a keyframe, and `Stalled` that the stall is not longer than the way from
the last one: a client that has dropped that many publishes meets a keyframe, which
it cannot refuse. `Play` says that nothing in the ring is newer than its last and
the render clock not ahead of the newest, `RingIs` that each entry is a publish, in
order. From these, `Sample` finds the two snapshots around the clock, and a lemma
about the rounded division keeps `Lerp` between them. A player that neither of the two
has is drawn as it arrived, which is a publish as well, or as `Blank` if it is player 0.

`BotProofs`, for any map, box, speed and decisions: `NeverInWall`, since a step
along an axis is only taken to where the box fits and the second starts where the
first ended; and, on any map that is `Connected`, `FieldIsShortest`. `Searched` is the
invariant of the breadth-first search after n layers: a distance above zero is one
more than a neighbour's, and no open tile next to one nearer than n is left out.
`OnOpenTile` says that whoever is not in a wall is on a tile whose centre is free,
truncating divisions included, and the types of a bot's buttons that it stays at a
position. `Downhill` is proved where the map is also `Walkable`: walls along its edge,
tiles of whole wire units, and a speed that does not lead past the centre and out of
the tile. The wire leaves a position on its tile (`WireFact`); further than two tiles
from its goal a bot has a nearer neighbour (`NearerNeighbour`), `steer` has a button
for it or for the way back to the centre (`NotWedged`), and each of its two components
leads to a nearer tile or back to the centre (`SteerShape`). A component that recentres
does not change the tile (`Recenters`, `StaysOnTile`), and where both change it
the tile between is nearer, so that the last, which is open, is not further
(`AxisStep`, `StepAxes`, `NotFurther`). `Fresh` says that without latency a bot sees where it is.

Recursive functions are handled by the least counterexample: natural numbers are well
founded, so a set of them that has 0 and with n also n + 1 has all of them.
`Roster` and `Build` are written without operators of other modules, about which the
prover knows nothing.
A leaf that needs no arithmetic cites `Zenon`: the translation to SMT, for which
`tlapm` allows five seconds, gets slower with every leaf of a module that goes through
it, and long modules are proved from nothing only if few of them do.

Only model-checked:

- Liveness (`DeadRespawn`, `MatchComesToRest`, `GoneLeavesGame`, `Converges`,
  `Delivered`, `ShutsDown`, `Heard`, `Reached`): the prover has no fairness or
  `ENABLED`.
- `ScoresInTime`: a time, which holds of the map and the units of the game and not of
  every map. `Downhill` is the part of the way there that does not depend on them.
- What `TcpOut` does by itself; `Pipeline` composes its steps, and it is there that
  they are proved to keep the order.

## What is not modelled

- Aim and fire: the angles of `client/main.cpp`, `Interpolation` and `BotAI`, and the
  bots' chance. In `Sim` a shot hits any living enemy or none.
- Drawing: tracers, the position of a dropped flag, the HUD and the keyboard.
- The pacing of `Sim::run`: deadlines and resynchronisation. Ticks come at any time,
  which covers every pace.
- The pollers' bookkeeping of descriptors, and opening sockets in
  `NetServer::start()`.
- The fixed-layout codecs of messages other than snapshots: straight-line reads and
  writes. Hosts, ports and the command line.

## Plan

1. Two bots of opposite teams in one arena, each hunting the other with latency.
2. Deadlines and resynchronisation of `Sim::run`.
