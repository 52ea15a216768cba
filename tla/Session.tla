------------------------------- MODULE Session -------------------------------
(***************************************************************************)
(* Who is in the game: the network thread's connections, client registry   *)
(* and lobby (server/net_server.cpp, client_registry.cpp, lobby.cpp), the  *)
(* queue of commands to the simulation thread (server/queues.h), the       *)
(* roster and the clock of the simulation, and what each client believes   *)
(* about the lobby (client/net_client.cpp).                                *)
(*                                                                         *)
(* The network thread runs one handler at a time, so a handler is a step;  *)
(* begin_match_and_notify takes one step per push, since the simulation    *)
(* may pop in between.  The simulation pops one command per step.          *)
(*                                                                         *)
(* A connection stands for one TCP connection and the client behind it; it *)
(* is its own session token, since make_token draws a fresh one per join.  *)
(* An entry's pending_out is a sequence of messages (their bytes are the   *)
(* subject of TCP framing, not of this module).                            *)
(***************************************************************************)
EXTENDS Integers, Sequences, FiniteSets, FiniteSetsExt

CONSTANTS
  Conn,          \* connections, in the order nobody can predict
  MaxPlayers,    \* config::kMaxPlayers
  SilenceLimit,  \* udp_silence_ms_, in units of TimePasses
  PendingCap,    \* kTcpPendingBufferCapBytes, in messages
  LimitTicks,    \* kMatchTimeLimitSec * kTickRateHz
  MaxFlight,     \* bound: datagrams of one client in flight
  Free,          \* tcp_fd == -1
  NoId           \* a client that was not accepted has no player id

ASSUME SessionAssumption ==
  /\ MaxPlayers \in Nat \ {0}
  /\ SilenceLimit \in Nat
  /\ PendingCap \in Nat
  /\ LimitTicks \in Nat
  /\ MaxFlight \in Nat
  /\ Free \notin Conn
  /\ NoId \notin Nat

Id == 0 .. MaxPlayers - 1

VARIABLES
  tcp,          \* server end of a connection: idle, backlog, open, closed
  peer,         \* client end: up, closing (its FIN arrives), crashed
  myId, view, startSent,   \* the client: its id, last LOBBY_STATE, request
  inFlight,     \* datagrams the client sent that are still under way
  slot, quiet, pending,    \* registry entries: tcp_fd, age of the last
                           \* datagram, pending_out
  players, host, inProgress,                \* Lobby
  starting,     \* commands begin_match_and_notify has yet to push
  inbound,      \* InboundQueue
  active, tick, matchOver, announce         \* Sim, and its MATCH_END in the
                                            \* outbound queue

clientVars == <<peer, myId, view, startSent, inFlight>>
registryVars == <<slot, quiet, pending>>
lobbyVars == <<players, host, inProgress>>
simVars == <<active, tick, matchOver, announce>>
vars == <<tcp, clientVars, registryVars, lobbyVars, starting, inbound, simVars>>

LobbyState(ps, h) == [type |-> "LobbyState", players |-> ps, host |-> h]
GameStart == [type |-> "GameStart"]
MatchEnd == [type |-> "MatchEnd"]
NoView == [players |-> {}, host |-> NoId, started |-> FALSE]

Init ==
  /\ tcp = [c \in Conn |-> "idle"]
  /\ peer = [c \in Conn |-> "up"]
  /\ myId = [c \in Conn |-> NoId]
  /\ view = [c \in Conn |-> NoView]
  /\ startSent = [c \in Conn |-> FALSE]
  /\ inFlight = [c \in Conn |-> 0]
  /\ slot = [i \in Id |-> Free]
  /\ quiet = [i \in Id |-> 0]
  /\ pending = [i \in Id |-> <<>>]
  /\ players = {} /\ host = 0 /\ inProgress = FALSE
  /\ starting = <<>>
  /\ inbound = <<>>
  /\ active = {} /\ tick = 0 /\ matchOver = FALSE /\ announce = FALSE

-----------------------------------------------------------------------------
(* The client *)

Connect(c) ==
  /\ tcp[c] = "idle"
  /\ tcp' = [tcp EXCEPT ![c] = "backlog"]
  /\ UNCHANGED <<clientVars, registryVars, lobbyVars, starting, inbound, simVars>>

(* The window is closed, or the client times out waiting for JOIN_ACCEPT;  *)
(* or its machine goes away without a word.  Its view goes with it.        *)
ClientLeaves(c, how) ==
  /\ tcp[c] \in {"backlog", "open"} /\ peer[c] = "up"
  /\ peer' = [peer EXCEPT ![c] = how]
  /\ view' = [view EXCEPT ![c] = NoView]
  /\ UNCHANGED <<tcp, myId, startSent, inFlight, registryVars, lobbyVars,
                 starting, inbound, simVars>>

(* The host's ENTER key: is_host() and not yet game_started(). *)
SendStartRequest(c) ==
  /\ peer[c] = "up" /\ myId[c] # NoId /\ ~startSent[c]
  /\ view[c].host = myId[c] /\ ~view[c].started
  /\ startSent' = [startSent EXCEPT ![c] = TRUE]
  /\ UNCHANGED <<tcp, peer, myId, view, inFlight, registryVars, lobbyVars,
                 starting, inbound, simVars>>

(* UDP_HELLO or PLAYER_INPUT: one of them goes out on every client tick.   *)
(* A datagram that is lost stays in flight for ever.                       *)
SendDatagram(c) ==
  /\ peer[c] = "up" /\ myId[c] # NoId /\ inFlight[c] < MaxFlight
  /\ inFlight' = [inFlight EXCEPT ![c] = @ + 1]
  /\ UNCHANGED <<tcp, peer, myId, view, startSent, registryVars, lobbyVars,
                 starting, inbound, simVars>>

-----------------------------------------------------------------------------
(* The network thread is between two handlers; run() has swept the pending *)
(* buffers after the last one (bound: one ready descriptor per poll).      *)
Over(i) == slot[i] # Free /\ Len(pending[i]) > PendingCap

Idle == starting = <<>> /\ \A i \in Id : ~Over(i)

(* find_by_fd: the registry entries of a connection. *)
EntriesOf(c) == {i \in Id : slot[i] = c}

(* broadcast_tcp_event: append to the pending_out of every live entry. *)
Broadcast(pend, slots, msg) ==
  [i \in Id |-> IF slots[i] # Free THEN Append(pend[i], msg) ELSE pend[i]]

AcceptNewClients ==
  /\ Idle
  /\ \E c \in Conn : tcp[c] = "backlog"
  /\ tcp' = [c \in Conn |-> IF tcp[c] = "backlog" THEN "open" ELSE tcp[c]]
  /\ UNCHANGED <<clientVars, registryVars, lobbyVars, starting, inbound, simVars>>

(* ClientRegistry::add hands out the lowest free id. *)
FreeIds == {i \in Id : slot[i] = Free}

(* Lobby::add_player. *)
HostAfterAdd(i) == IF players = {} THEN i ELSE host

CanJoin == FreeIds # {} /\ ~inProgress

(* on_join_lobby: accept, with JOIN_ACCEPT straight to the socket and a    *)
(* LOBBY_STATE to everybody; or roll back and send JOIN_REJECT, which only *)
(* the client sees.                                                        *)
OnJoinLobby(c) ==
  /\ Idle /\ tcp[c] = "open" /\ peer[c] # "crashed"
  /\ myId[c] = NoId /\ EntriesOf(c) = {}
  /\ CanJoin
  /\ LET i == Min(FreeIds)
         slots == [slot EXCEPT ![i] = c]
     IN  /\ slot' = slots
         /\ quiet' = [quiet EXCEPT ![i] = 0]
         /\ players' = players \cup {i}
         /\ host' = HostAfterAdd(i)
         /\ pending' = Broadcast([pending EXCEPT ![i] = <<>>], slots,
                                 LobbyState(players', host'))
         /\ myId' = [myId EXCEPT ![c] = i]
  /\ UNCHANGED <<tcp, peer, view, startSent, inFlight, inProgress, starting,
                 inbound, simVars>>

JoinRejected(c) ==
  /\ Idle /\ tcp[c] = "open" /\ peer[c] = "up"
  /\ myId[c] = NoId /\ EntriesOf(c) = {}
  /\ ~CanJoin
  /\ peer' = [peer EXCEPT ![c] = "closing"]
  /\ UNCHANGED <<tcp, myId, view, startSent, inFlight, registryVars, lobbyVars,
                 starting, inbound, simVars>>

(* Mutant: nobody is host once the host has left. *)
HostAfterRemoveNobody(i) == IF i = host THEN NoId ELSE host

(* Mutant: whoever was host stays host. *)
HostAfterRemoveKeeps(i) == host

(* Lobby::remove_player, in the lobby and during a match. *)
HostAfterRemove(i) ==
  LET rest == players \ {i}
  IN  IF i # host THEN host
      ELSE IF rest # {} THEN Min(rest)
      ELSE IF inProgress THEN 0 ELSE host

(* Mutant: the departure is not broadcast. *)
DisconnectSilently(i) ==
  /\ tcp' = [tcp EXCEPT ![slot[i]] = "closed"]
  /\ slot' = [slot EXCEPT ![i] = Free]
  /\ players' = players \ {i}
  /\ host' = HostAfterRemove(i)
  /\ inbound' = IF inProgress
                THEN Append(inbound, [type |-> "PlayerLeft", id |-> i])
                ELSE inbound
  /\ pending' = [pending EXCEPT ![i] = <<>>]
  /\ quiet' = [quiet EXCEPT ![i] = 0]
  /\ UNCHANGED <<inProgress, starting, simVars, myId, view, startSent, inFlight>>

(* Mutant: the simulation is not told. *)
DisconnectUnnoticed(i) ==
  LET slots == [slot EXCEPT ![i] = Free]
  IN  /\ tcp' = [tcp EXCEPT ![slot[i]] = "closed"]
      /\ slot' = slots
      /\ players' = players \ {i}
      /\ host' = HostAfterRemove(i)
      /\ pending' = Broadcast([pending EXCEPT ![i] = <<>>], slots,
                              LobbyState(players', host'))
      /\ quiet' = [quiet EXCEPT ![i] = 0]
      /\ UNCHANGED <<inbound, inProgress, starting, simVars, myId, view,
                     startSent, inFlight>>

(* disconnect: the entry is a tombstone until add() resets it, so what it  *)
(* still holds is forgotten here.                                          *)
Disconnect(i) ==
  LET slots == [slot EXCEPT ![i] = Free]
  IN  /\ tcp' = [tcp EXCEPT ![slot[i]] = "closed"]
      /\ slot' = slots
      /\ players' = players \ {i}
      /\ host' = HostAfterRemove(i)
      /\ inbound' = IF inProgress
                    THEN Append(inbound, [type |-> "PlayerLeft", id |-> i])
                    ELSE inbound
      /\ pending' = Broadcast([pending EXCEPT ![i] = <<>>], slots,
                              LobbyState(players', host'))
      /\ quiet' = [quiet EXCEPT ![i] = 0]
      /\ UNCHANGED <<inProgress, starting, simVars, myId, view, startSent,
                     inFlight>>

(* handle_tcp_readable: recv returns 0.  Frames the client sent before it  *)
(* closed were dispatched before that, or are lost with the connection.    *)
RecvClosed(c) ==
  /\ Idle /\ tcp[c] = "open" /\ peer[c] = "closing"
  /\ UNCHANGED peer
  /\ IF EntriesOf(c) # {}
     THEN \E i \in EntriesOf(c) : Disconnect(i)
     ELSE /\ tcp' = [tcp EXCEPT ![c] = "closed"]
          /\ UNCHANGED <<myId, view, startSent, inFlight, registryVars,
                         lobbyVars, starting, inbound, simVars>>

(* flush_pending: hand a message to the socket, where it is lost if nobody *)
(* reads it, or find the connection broken.                                *)
FlushPending(i) ==
  /\ Idle /\ slot[i] # Free /\ pending[i] # <<>>
  /\ LET c == slot[i]
         msg == Head(pending[i])
     IN  view' = [view EXCEPT ![c] =
           IF peer[c] # "up" THEN @
           ELSE IF msg.type = "LobbyState"
           THEN [@ EXCEPT !.players = msg.players, !.host = msg.host]
           ELSE IF msg.type = "GameStart" THEN [@ EXCEPT !.started = TRUE]
           ELSE @]
  /\ pending' = [pending EXCEPT ![i] = Tail(@)]
  /\ UNCHANGED <<tcp, peer, myId, startSent, inFlight, slot, quiet, lobbyVars,
                 starting, inbound, simVars>>

FlushFails(i) ==
  /\ Idle /\ slot[i] # Free /\ pending[i] # <<>> /\ peer[slot[i]] # "up"
  /\ UNCHANGED peer
  /\ Disconnect(i)

(* enforce_pending_cap, for one entry above the cap. *)
EnforcePendingCap(i) ==
  /\ starting = <<>> /\ Over(i)
  /\ UNCHANGED peer
  /\ Disconnect(i)

(* Mutant: silence only counts during a match. *)
CheckSilenceInMatch(i) ==
  /\ Idle /\ slot[i] # Free /\ quiet[i] > SilenceLimit /\ inProgress
  /\ UNCHANGED peer
  /\ Disconnect(i)

(* check_silence_timeouts, for one silent entry. *)
CheckSilenceTimeouts(i) ==
  /\ Idle /\ slot[i] # Free /\ quiet[i] > SilenceLimit
  /\ UNCHANGED peer
  /\ Disconnect(i)

TimePasses ==
  /\ \E i \in Id : slot[i] # Free /\ quiet[i] <= SilenceLimit
  /\ quiet' = [i \in Id |-> IF slot[i] # Free /\ quiet[i] <= SilenceLimit
                            THEN quiet[i] + 1 ELSE quiet[i]]
  /\ UNCHANGED <<tcp, clientVars, slot, pending, lobbyVars, starting, inbound,
                 simVars>>

(* Mutant: the id alone names the sender. *)
AuthById(c, i) == myId[c] = i /\ slot[i] # Free

(* auth_udp_sender: the entry of the id in the datagram, if the token is   *)
(* the one that entry was given.                                           *)
AuthUdpSender(c, i) == myId[c] = i /\ slot[i] = c

(* on_udp_packet: a datagram of connection c, perhaps long gone.  The      *)
(* inputs it carries are the subject of module Inputs.                     *)
OnUdpPacket(c) ==
  /\ Idle /\ inFlight[c] > 0
  /\ inFlight' = [inFlight EXCEPT ![c] = @ - 1]
  /\ quiet' = [i \in Id |-> IF AuthUdpSender(c, i) THEN 0 ELSE quiet[i]]
  /\ UNCHANGED <<tcp, peer, myId, view, startSent, slot, pending, lobbyVars,
                 starting, inbound, simVars>>

-----------------------------------------------------------------------------
(* Starting a match *)

JoinCommand(i, t) == [type |-> "PlayerJoined", id |-> i, team |-> t]

(* assign_teams: shuffle the roster and deal it out, Red first.  add_side  *)
(* then queues the Red players before the Blue ones.                       *)
Shuffles ==
  {s \in [1 .. Cardinality(players) -> players] :
     \A m, n \in DOMAIN s : s[m] = s[n] => m = n}

JoinCommands(s) ==
  [n \in 1 .. (Len(s) + 1) \div 2 |-> JoinCommand(s[2 * n - 1], "Red")]
    \o [n \in 1 .. Len(s) \div 2 |-> JoinCommand(s[2 * n], "Blue")]

(* on_start_request, up to the first push; anyone but the host gets a      *)
(* JOIN_REJECT that its client ignores.                                    *)
OnStartRequest(c) ==
  /\ Idle /\ tcp[c] = "open" /\ peer[c] # "crashed" /\ startSent[c]
  /\ startSent' = [startSent EXCEPT ![c] = FALSE]
  /\ IF /\ \E i \in EntriesOf(c) : i = host
        /\ ~inProgress /\ Cardinality(players) >= 2
     THEN /\ inProgress' = TRUE
          /\ \E s \in Shuffles : starting' = JoinCommands(s)
     ELSE UNCHANGED <<inProgress, starting>>
  /\ UNCHANGED <<tcp, peer, myId, view, inFlight, registryVars, players, host,
                 inbound, simVars>>

(* The rest of begin_match_and_notify: push by push, then GAME_START. *)
PushJoin ==
  /\ starting # <<>>
  /\ inbound' = Append(inbound, Head(starting))
  /\ starting' = Tail(starting)
  /\ pending' = IF Len(starting) = 1 THEN Broadcast(pending, slot, GameStart)
                                     ELSE pending
  /\ UNCHANGED <<tcp, clientVars, slot, quiet, lobbyVars, simVars>>

(* handle_wake: MATCH_END goes out to everyone; the lobby is not told. *)
HandleWake ==
  /\ Idle /\ announce
  /\ announce' = FALSE
  /\ pending' = Broadcast(pending, slot, MatchEnd)
  /\ UNCHANGED <<tcp, clientVars, slot, quiet, lobbyVars, starting, inbound,
                 active, tick, matchOver>>

-----------------------------------------------------------------------------
(* The simulation thread: drain_inbound, with apply_join and apply_leave;  *)
(* then the rest of tick(), of which only the end of the match matters.    *)

SimPop ==
  /\ inbound # <<>>
  /\ inbound' = Tail(inbound)
  /\ LET cmd == Head(inbound)
     IN  active' = IF matchOver THEN active
                   ELSE IF cmd.type = "PlayerJoined" THEN active \cup {cmd.id}
                   ELSE active \ {cmd.id}
  /\ UNCHANGED <<tcp, clientVars, registryVars, lobbyVars, starting, tick,
                 matchOver, announce>>

(* win_check: a score needs a player, the time limit needs nobody.  Ticks  *)
(* after the match change nothing here.                                    *)
SimTick(scored) ==
  /\ inbound = <<>> /\ ~matchOver
  /\ scored => active # {}
  /\ matchOver' = (scored \/ tick >= LimitTicks)
  /\ announce' = matchOver'
  /\ tick' = IF tick < LimitTicks THEN tick + 1 ELSE tick
  /\ UNCHANGED <<tcp, clientVars, registryVars, lobbyVars, starting, inbound,
                 active>>

-----------------------------------------------------------------------------
Client(c) ==
  \/ Connect(c)
  \/ ClientLeaves(c, "closing")
  \/ ClientLeaves(c, "crashed")
  \/ SendStartRequest(c)
  \/ SendDatagram(c)

Handler ==
  \/ AcceptNewClients
  \/ PushJoin
  \/ HandleWake
  \/ \E c \in Conn : \/ OnJoinLobby(c)
                     \/ JoinRejected(c)
                     \/ RecvClosed(c)
                     \/ OnUdpPacket(c)
                     \/ OnStartRequest(c)
  \/ \E i \in Id : \/ FlushPending(i)
                   \/ FlushFails(i)
                   \/ EnforcePendingCap(i)
                   \/ CheckSilenceTimeouts(i)

Simulation == SimPop \/ SimTick(TRUE) \/ SimTick(FALSE)

Next == (\E c \in Conn : Client(c)) \/ Handler \/ TimePasses \/ Simulation

Spec == Init /\ [][Next]_vars

(* The network thread finishes the start of a match and sweeps after each  *)
(* poll, the clock runs, and the simulation drains its queue; nothing is   *)
(* assumed of the clients, nor that a match is ever over.                  *)
Sweep ==
  \E i \in Id : EnforcePendingCap(i) \/ CheckSilenceTimeouts(i)

FairSpec ==
  /\ Spec
  /\ WF_vars(PushJoin \/ Sweep)
  /\ WF_vars(TimePasses)
  /\ WF_vars(SimPop)

-----------------------------------------------------------------------------
(* Properties *)

Command ==
  [type : {"PlayerJoined"}, id : Id, team : {"Red", "Blue"}]
    \cup [type : {"PlayerLeft"}, id : Id]

Message ==
  [type : {"LobbyState"}, players : SUBSET Id, host : Id]
    \cup [type : {"GameStart", "MatchEnd"}]

TypeOK ==
  /\ tcp \in [Conn -> {"idle", "backlog", "open", "closed"}]
  /\ peer \in [Conn -> {"up", "closing", "crashed"}]
  /\ myId \in [Conn -> Id \cup {NoId}]
  /\ view \in [Conn -> [players : SUBSET Id, host : Id \cup {NoId},
                        started : BOOLEAN]]
  /\ startSent \in [Conn -> BOOLEAN]
  /\ inFlight \in [Conn -> 0 .. MaxFlight]
  /\ slot \in [Id -> Conn \cup {Free}]
  /\ quiet \in [Id -> 0 .. SilenceLimit + 1]
  /\ pending \in [Id -> Seq(Message)]
  /\ players \in SUBSET Id
  /\ host \in Id
  /\ inProgress \in BOOLEAN
  /\ starting \in Seq(Command)
  /\ inbound \in Seq(Command)
  /\ active \in SUBSET Id
  /\ tick \in 0 .. LimitTicks
  /\ matchOver \in BOOLEAN
  /\ announce \in BOOLEAN

(* The registry and the lobby, two records of the same roster that         *)
(* on_join_lobby and disconnect update one after the other, agree between  *)
(* handlers: the same ids, one per connection, each with an open           *)
(* connection whose client was told that id; and a roster that is not      *)
(* empty has its host among its members, so somebody can start the match.  *)
RosterAgreement ==
  /\ players = {i \in Id : slot[i] # Free}
  /\ \A i, j \in players : slot[i] = slot[j] => i = j
  /\ \A i \in players : tcp[slot[i]] = "open" /\ myId[slot[i]] = i
  /\ players # {} => host \in players

(* Indices of the commands about id i in a queue. *)
About(q, i) == {n \in DOMAIN q : q[n].id = i}

(* The simulation follows the lobby: while a match runs, whatever is       *)
(* queued between the threads, popping all of it leaves the simulation     *)
(* with exactly the players of the lobby, none missing and no ghost; so    *)
(* the last command about an id, or without one its place in the           *)
(* simulation, tells whether it is in the lobby.                           *)
SimFollowsLobby ==
  inProgress /\ ~matchOver =>
    LET queue == inbound \o starting
    IN  \A i \in Id :
          IF About(queue, i) = {} THEN i \in active <=> i \in players
          ELSE queue[Max(About(queue, i))].type = "PlayerJoined"
                 <=> i \in players

(* The last LOBBY_STATE under way to a client, or that it has seen, is the *)
(* present roster and host: every change is broadcast after it is made, to *)
(* everyone it concerns, and JOIN_ACCEPT never overtakes it for good.      *)
LastWordIsCurrent ==
  \A i \in {j \in players : peer[slot[j]] = "up"} :
    LET lobby == {n \in DOMAIN pending[i] : pending[i][n].type = "LobbyState"}
        last == IF lobby = {} THEN view[slot[i]] ELSE pending[i][Max(lobby)]
    IN  last.players = players /\ last.host = host

(* The silence clock of a connection is only ever reset by a datagram of   *)
(* that very connection: datagrams of a former owner of the same player    *)
(* id, delayed in the network, do not keep a dead player alive.            *)
OnlyOwnerIsHeard ==
  [][\A i \in Id : (slot[i] # Free /\ slot'[i] = slot[i] /\ quiet'[i] < quiet[i])
                     => inFlight'[slot[i]] < inFlight[slot[i]]]_vars

(* Whoever crashed or left is out of the game after a while: first out of  *)
(* the registry, whatever datagrams are still under way, since the silence *)
(* detector covers the connections that never report an end; and then out  *)
(* of the running match, through the queue and whatever was queued before. *)
GoneLeavesGame ==
  \A i \in Id : (slot[i] # Free /\ peer[slot[i]] # "up")
                 ~> (slot[i] = Free /\ (i \notin active \/ matchOver))

(* What docs/README.md says of the time limit: it ends a match.  The       *)
(* simulation counts from the start of the server instead.                 *)
EndOnlyInMatch == matchOver => inProgress
=============================================================================
