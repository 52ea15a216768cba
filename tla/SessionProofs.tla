---------------------------- MODULE SessionProofs ----------------------------
(***************************************************************************)
(* Theorems about Session, for any set of connections, any number of       *)
(* player ids and any limits.                                              *)
(***************************************************************************)
EXTENDS Session, SequenceTheorems, FiniteSetTheorems, TLAPS

(* A set of naturals that is not empty has a least element, and Min is it: *)
(* the lowest free id, the lowest id left.                                 *)
LEMMA MinFact ==
  ASSUME NEW S \in SUBSET Nat, S # {}
  PROVE  Min(S) \in S /\ \A x \in S : Min(S) <= x
<1>1. PICK x \in S : \A y \in S : ~(<<y, x>> \in OpToRel(<, Nat))
  BY NatLessThanWellFounded, WFMin, Zenon
<1>2. \A y \in S : ~(y < x)
  BY <1>1, Zenon DEF OpToRel
<1>3. \E z \in S : \A y \in S : z <= y
  BY <1>2
<1>. QED  BY <1>3, Zenon DEF Min

(* A bounded set of naturals that is not empty has a greatest element, and *)
(* Max is it: the last command about a player, the last LOBBY_STATE.       *)
LEMMA MaxFact ==
  ASSUME NEW n \in Nat, NEW S \in SUBSET (0 .. n), S # {}
  PROVE  Max(S) \in S /\ \A x \in S : x <= Max(S)
<1>. DEFINE T == {n - x : x \in S}
<1>1. T \in SUBSET Nat /\ T # {}
  <2>1. \A x \in S : n - x \in Nat
    OBVIOUS
  <2>. QED  BY <2>1, Zenon
<1>2. Min(T) \in T /\ \A x \in T : Min(T) <= x
  BY <1>1, MinFact, Zenon
<1>3. PICK m \in S : Min(T) = n - m
  BY <1>2, Zenon
<1>4. \A x \in S : n - m <= n - x
  BY <1>2, <1>3, Zenon
<1>5. \E z \in S : \A x \in S : z >= x
  BY <1>3, <1>4
<1>. QED  BY <1>5, Zenon DEF Max

(* An element that none exceeds is the greatest.                           *)
LEMMA MaxIs ==
  ASSUME NEW n \in Nat, NEW S \in SUBSET (0 .. n), NEW m \in S,
         \A x \in S : x <= m
  PROVE  Max(S) = m
<1>. DEFINE z == Max(S)
<1>1. z \in S /\ m <= z
  BY MaxFact, Zenon
<1>. HIDE DEF z
<1>2. z <= m /\ z \in Int /\ m \in Int
  BY <1>1
<1>3. z = m
  BY <1>1, <1>2
<1>. QED  BY <1>3, Zenon DEF z

(* SessionAssumption, and what it says of the player ids. *)
LEMMA IdFact == Id \subseteq Nat /\ 0 \in Id /\ Id \subseteq Int
BY SessionAssumption DEF Id

-----------------------------------------------------------------------------
(* Types, component by component. *)

ClientType ==
  /\ tcp \in [Conn -> {"idle", "backlog", "open", "closed"}]
  /\ peer \in [Conn -> {"up", "closing", "crashed"}]
  /\ myId \in [Conn -> Id \cup {NoId}]
  /\ view \in [Conn -> [players : SUBSET Id, host : Id \cup {NoId},
                        started : BOOLEAN]]
  /\ startSent \in [Conn -> BOOLEAN]
  /\ inFlight \in [Conn -> 0 .. MaxFlight]

ServerType ==
  /\ slot \in [Id -> Conn \cup {Free}]
  /\ quiet \in [Id -> 0 .. SilenceLimit + 1]
  /\ pending \in [Id -> Seq(Message)]
  /\ players \in SUBSET Id
  /\ host \in Id

QueueType == starting \in Seq(Command) /\ inbound \in Seq(Command)

SimType == active \in SUBSET Id /\ tick \in 0 .. LimitTicks

FlagType ==
  inProgress \in BOOLEAN /\ matchOver \in BOOLEAN /\ announce \in BOOLEAN

(* TypeOK is the types of the parts together.                              *)
LEMMA TypeParts ==
  TypeOK <=> ClientType /\ ServerType /\ QueueType /\ SimType /\ FlagType
BY Zenon DEF TypeOK, ClientType, ServerType, QueueType, SimType, FlagType

(* What the registry starts with has the right types.                      *)
LEMMA InitTypes == Init => TypeOK
<1>. SUFFICES ASSUME Init PROVE TypeOK
  BY Zenon
<1>1. ClientType
  BY SessionAssumption DEF Init, ClientType, NoView
<1>2. ServerType
  BY SessionAssumption, IdFact DEF Init, ServerType
<1>3. QueueType
  BY DEF Init, QueueType
<1>4. SimType
  BY SessionAssumption DEF Init, SimType
<1>5. FlagType
  BY Zenon DEF Init, FlagType
<1>. QED  BY <1>1, <1>2, <1>3, <1>4, <1>5, TypeParts, Zenon

(* What is appended to a pending_out is a message.                         *)
LEMMA BroadcastType ==
  ASSUME NEW pend \in [Id -> Seq(Message)], NEW slots, NEW msg \in Message
  PROVE  /\ Broadcast(pend, slots, msg) \in [Id -> Seq(Message)]
         /\ \A i \in Id : Broadcast(pend, slots, msg)[i] =
              IF slots[i] # Free THEN Append(pend[i], msg) ELSE pend[i]
BY DEF Broadcast

(* The events of broadcast_tcp_event are messages.                         *)
LEMMA MessageFact ==
  /\ \A ps \in SUBSET Id, h \in Id : LobbyState(ps, h) \in Message
  /\ GameStart \in Message /\ MatchEnd \in Message
  /\ \A m \in Message : m.type = "LobbyState" =>
       m.players \in SUBSET Id /\ m.host \in Id
BY Zenon DEF LobbyState, GameStart, MatchEnd, Message

(* What the queue between the threads carries has an id and a type.        *)
LEMMA CommandFact ==
  /\ \A i \in Id, t \in {"Red", "Blue"} : JoinCommand(i, t) \in Command
  /\ \A i \in Id : [type |-> "PlayerLeft", id |-> i] \in Command
  /\ \A c \in Command : c.id \in Id /\ c.type \in {"PlayerJoined", "PlayerLeft"}
BY Zenon DEF JoinCommand, Command

(* The host after a departure is a player id.                              *)
LEMMA HostType ==
  ASSUME ServerType, NEW i \in Id
  PROVE  HostAfterRemove(i) \in Id /\ HostAfterAdd(i) \in Id
<1>1. ASSUME players \ {i} # {}
      PROVE  Min(players \ {i}) \in players \ {i}
  BY <1>1, MinFact, IdFact, Zenon DEF ServerType
<1>. QED  BY <1>1, IdFact, Zenon DEF ServerType, HostAfterRemove, HostAfterAdd

(* A shuffle is a sequence of all of the lobby's players.                  *)
LEMMA ShuffleFact ==
  ASSUME ServerType, NEW s \in Shuffles
  PROVE  /\ Len(s) = Cardinality(players) /\ Len(s) \in Nat
         /\ \A k \in 1 .. Len(s) : s[k] \in players
         /\ \A i \in players : \E k \in 1 .. Len(s) : s[k] = i
<1>1. IsFiniteSet(Id)
  BY SessionAssumption, FS_Interval DEF Id
<1>2. IsFiniteSet(players) /\ Cardinality(players) \in Nat
  BY <1>1, FS_Subset, FS_CardinalityType, Zenon DEF ServerType
<1>. DEFINE N == Cardinality(players)
<1>3. s \in [1 .. N -> players] /\ \A m, n \in 1 .. N : s[m] = s[n] => m = n
  BY Zenon DEF Shuffles
<1>4. Len(s) = N
  BY <1>2, <1>3
<1>5. s \in Injection(1 .. N, players)
  BY <1>3, Zenon DEF Injection, IsInjective
<1>6. Cardinality(1 .. N) = N
  BY <1>2, FS_Interval
<1>7. s \in Surjection(1 .. N, players)
  BY <1>2, <1>5, <1>6, FS_Injection, Zenon
<1>. QED  BY <1>2, <1>3, <1>4, <1>7, Zenon DEF Surjection

(* assign_teams and add_side: one PlayerJoined for each player, and        *)
(* nothing else.                                                           *)
LEMMA JoinCommandsFact ==
  ASSUME ServerType, NEW s \in Shuffles
  PROVE  /\ JoinCommands(s) \in Seq(Command)
         /\ \A k \in DOMAIN JoinCommands(s) :
              /\ JoinCommands(s)[k].type = "PlayerJoined"
              /\ JoinCommands(s)[k].id \in players
         /\ \A i \in players :
              \E k \in DOMAIN JoinCommands(s) : JoinCommands(s)[k].id = i
<1>. DEFINE L == Len(s)
            R == [n \in 1 .. (L + 1) \div 2 |-> JoinCommand(s[2 * n - 1], "Red")]
            B == [n \in 1 .. L \div 2 |-> JoinCommand(s[2 * n], "Blue")]
            J == [type : {"PlayerJoined"}, id : players, team : {"Red", "Blue"}]
<1>0. /\ L \in Nat /\ \A k \in 1 .. L : s[k] \in players
      /\ \A i \in players : \E k \in 1 .. L : s[k] = i
  BY ShuffleFact, Zenon
<1>1. (L + 1) \div 2 \in Nat /\ L \div 2 \in Nat
  BY <1>0
<1>2. \A n \in 1 .. (L + 1) \div 2 : 2 * n - 1 \in 1 .. L
  BY <1>0
<1>3. \A n \in 1 .. L \div 2 : 2 * n \in 1 .. L
  BY <1>0
<1>4. R \in Seq(J) /\ Len(R) = (L + 1) \div 2
  BY <1>0, <1>1, <1>2 DEF JoinCommand
<1>5. B \in Seq(J) /\ Len(B) = L \div 2
  BY <1>0, <1>1, <1>3 DEF JoinCommand
<1>6. JoinCommands(s) = R \o B
  BY Zenon DEF JoinCommands
<1>7. J \subseteq Command
  BY Zenon DEF ServerType, Command
<1>. HIDE DEF J
<1>8. R \o B \in Seq(J) /\ Len(R \o B) = Len(R) + Len(B)
      /\ DOMAIN (R \o B) = 1 .. Len(R \o B)
  BY <1>4, <1>5, ConcatProperties, LenProperties, Zenon
<1>9. ASSUME NEW i \in players
      PROVE  \E k \in DOMAIN (R \o B) : (R \o B)[k].id = i
  <2>1. PICK k \in 1 .. L : s[k] = i
    BY <1>0, Zenon
  <2>2. CASE k % 2 = 1
    <3>. DEFINE n == (k + 1) \div 2
    <3>1. n \in 1 .. (L + 1) \div 2 /\ 2 * n - 1 = k
      BY <1>0, <2>2
    <3>2. R[n].id = i
      BY <2>1, <3>1, Zenon DEF JoinCommand
    <3>3. (R \o B)[n] = R[n] /\ n \in 1 .. Len(R \o B)
      BY <1>1, <1>4, <1>5, <1>8, <3>1, ConcatProperties
    <3>. QED  BY <1>8, <3>2, <3>3, Zenon
  <2>3. CASE k % 2 = 0
    <3>. DEFINE n == k \div 2
    <3>1. n \in 1 .. L \div 2 /\ 2 * n = k
      BY <1>0, <2>3
    <3>2. B[n].id = i
      BY <2>1, <3>1, Zenon DEF JoinCommand
    <3>. DEFINE m == Len(R) + n
    <3>3. (R \o B)[m] = B[n] /\ m \in 1 .. Len(R \o B)
      BY <1>1, <1>4, <1>5, <1>8, <3>1, ConcatProperties
    <3>. QED  BY <1>8, <3>2, <3>3, Zenon
  <2>4. k % 2 = 1 \/ k % 2 = 0
    BY <1>0
  <2>. QED  BY <2>2, <2>3, <2>4, Zenon
<1>10. \A k \in DOMAIN (R \o B) : (R \o B)[k] \in J
  BY <1>8, ElementOfSeq, Zenon
<1>11. R \o B \in Seq(Command)
  BY <1>7, <1>8, SeqMonotonic, Zenon
<1>. QED  BY <1>6, <1>9, <1>10, <1>11, Zenon DEF J

(* The flags of the lobby and of the simulation are Booleans.              *)
LEMMA FlagTypeStep ==
  ASSUME FlagType, [Next]_vars
  PROVE  FlagType'
<1>. USE DEF FlagType
<1>1. CASE \E c \in Conn : Client(c)
  BY <1>1, Zenon DEF Client, Connect, ClientLeaves, SendStartRequest,
     SendDatagram, lobbyVars, simVars
<1>2. CASE Handler
  <2>1. CASE AcceptNewClients \/ PushJoin \/ HandleWake
    BY <2>1, Zenon DEF AcceptNewClients, PushJoin, HandleWake, lobbyVars,
       simVars
  <2>2. ASSUME NEW c \in Conn,
               OnJoinLobby(c) \/ JoinRejected(c) \/ OnUdpPacket(c)
        PROVE  FlagType'
    BY <2>2, Zenon DEF OnJoinLobby, JoinRejected, OnUdpPacket, lobbyVars,
       simVars
  <2>3. ASSUME NEW c \in Conn, RecvClosed(c)  PROVE FlagType'
    BY <2>3, Zenon DEF RecvClosed, Disconnect, lobbyVars, simVars
  <2>4. ASSUME NEW c \in Conn, OnStartRequest(c)  PROVE FlagType'
    BY <2>4, Zenon DEF OnStartRequest, simVars
  <2>5. ASSUME NEW i \in Id,
               \/ FlushPending(i) \/ FlushFails(i)
               \/ EnforcePendingCap(i) \/ CheckSilenceTimeouts(i)
        PROVE  FlagType'
    BY <2>5, Zenon DEF FlushPending, FlushFails, EnforcePendingCap,
       CheckSilenceTimeouts, Disconnect, lobbyVars, simVars
  <2>. QED  BY <1>2, <2>1, <2>2, <2>3, <2>4, <2>5, Zenon DEF Handler
<1>3. CASE TimePasses
  BY <1>3, Zenon DEF TimePasses, lobbyVars, simVars
<1>4. CASE Simulation
  BY <1>4, Zenon DEF Simulation, SimPop, SimTick, lobbyVars
<1>5. CASE UNCHANGED vars
  BY <1>5, Zenon DEF vars, lobbyVars, simVars
<1>. QED  BY <1>1, <1>2, <1>3, <1>4, <1>5, Zenon DEF Next

(* The other types of the whole state. *)
Types == ClientType /\ ServerType /\ QueueType /\ SimType

(* disconnect, whoever calls it.                                           *)
LEMMA DisconnectTypes ==
  ASSUME Types, NEW i \in Id, slot[i] # Free, Disconnect(i), UNCHANGED peer
  PROVE  Types'
<1>. DEFINE slots == [slot EXCEPT ![i] = Free]
<1>1. slot[i] \in Conn
  BY Zenon DEF Types, ServerType
<1>2. players' \in SUBSET Id /\ host' \in Id
  BY HostType, Zenon DEF Types, ServerType, Disconnect
<1>3. ClientType'
  BY <1>1, Zenon DEF Types, ClientType, Disconnect
<1>4. pending' \in [Id -> Seq(Message)]
  <2>1. LobbyState(players', host') \in Message
    BY <1>2, MessageFact, Zenon
  <2>2. [pending EXCEPT ![i] = <<>>] \in [Id -> Seq(Message)]
    BY DEF Types, ServerType
  <2>. QED  BY <2>1, <2>2, BroadcastType, Zenon DEF Disconnect
<1>5. ServerType'
  <2>1. slot' \in [Id -> Conn \cup {Free}]
    BY Zenon DEF Types, ServerType, Disconnect
  <2>2. quiet' \in [Id -> 0 .. SilenceLimit + 1]
    <3>1. 0 \in 0 .. SilenceLimit + 1
      BY SessionAssumption
    <3>. QED  BY <3>1, Zenon DEF Types, ServerType, Disconnect
  <2>. QED  BY <1>2, <1>4, <2>1, <2>2, Zenon DEF ServerType
<1>6. QueueType' /\ SimType'
  BY CommandFact DEF Types, QueueType, SimType, Disconnect, simVars
<1>. QED  BY <1>3, <1>5, <1>6, Zenon DEF Types

(* on_join_lobby, accepted.                                                *)
LEMMA JoinTypes ==
  ASSUME Types, NEW c \in Conn, OnJoinLobby(c)
  PROVE  /\ Types'
         /\ Min(FreeIds) \in Id /\ slot[Min(FreeIds)] = Free
<1>. DEFINE i == Min(FreeIds)
            slots == [slot EXCEPT ![i] = c]
<1>1. i \in Id /\ slot[i] = Free
  <2>1. FreeIds \in SUBSET Nat /\ FreeIds # {}
    BY IdFact, Zenon DEF FreeIds, OnJoinLobby, CanJoin
  <2>. QED  BY <2>1, MinFact, Zenon DEF FreeIds
<1>. HIDE DEF i
<1>2. /\ slot' = slots
      /\ quiet' = [quiet EXCEPT ![i] = 0]
      /\ players' = players \cup {i}
      /\ host' = HostAfterAdd(i)
      /\ pending' = Broadcast([pending EXCEPT ![i] = <<>>], slots,
                                 LobbyState(players', host'))
      /\ myId' = [myId EXCEPT ![c] = i]
      /\ UNCHANGED <<tcp, peer, view, startSent, inFlight, starting,
                     inbound, active, tick>>
  BY Zenon DEF OnJoinLobby, simVars, i
<1>3. players' \in SUBSET Id /\ host' \in Id
  BY <1>1, <1>2, HostType, Zenon DEF Types, ServerType
<1>4. pending' \in [Id -> Seq(Message)]
  <2>1. LobbyState(players', host') \in Message
    BY <1>3, MessageFact, Zenon
  <2>2. [pending EXCEPT ![i] = <<>>] \in [Id -> Seq(Message)]
    BY <1>1 DEF Types, ServerType
  <2>. QED  BY <1>2, <2>1, <2>2, BroadcastType, Zenon
<1>5. ServerType'
  <2>1. slot' \in [Id -> Conn \cup {Free}]
    BY <1>1, <1>2, Zenon DEF Types, ServerType
  <2>2. quiet' \in [Id -> 0 .. SilenceLimit + 1]
    <3>1. 0 \in 0 .. SilenceLimit + 1
      BY SessionAssumption
    <3>. QED  BY <1>1, <1>2, <3>1, Zenon DEF Types, ServerType
  <2>. QED  BY <1>3, <1>4, <2>1, <2>2, Zenon DEF ServerType
<1>6. ClientType'
  BY <1>1, <1>2, Zenon DEF Types, ClientType
<1>7. QueueType' /\ SimType'
  BY <1>2, Zenon DEF Types, QueueType, SimType
<1>. QED  BY <1>1, <1>5, <1>6, <1>7, Zenon DEF Types, i

(* flush_pending hands one message to the client.                          *)
LEMMA FlushTypes ==
  ASSUME Types, NEW i \in Id, FlushPending(i)
  PROVE  Types'
<1>. DEFINE c == slot[i]
            msg == Head(pending[i])
            V == [players : SUBSET Id, host : Id \cup {NoId}, started : BOOLEAN]
<1>1. c \in Conn /\ pending[i] \in Seq(Message) /\ pending[i] # <<>>
  BY Zenon DEF FlushPending, Types, ServerType
<1>2. msg \in Message /\ Tail(pending[i]) \in Seq(Message)
  BY <1>1, HeadTailProperties, Zenon
<1>3. view[c] \in V /\ view \in [Conn -> V]
  BY <1>1, Zenon DEF Types, ClientType
<1>4. /\ msg.type = "LobbyState" =>
           [view[c] EXCEPT !.players = msg.players, !.host = msg.host] \in V
      /\ [view[c] EXCEPT !.started = TRUE] \in V
  BY <1>2, <1>3, MessageFact, Zenon
<1>5. view' \in [Conn -> V]
  BY <1>3, <1>4, Zenon DEF FlushPending
<1>6. pending' \in [Id -> Seq(Message)]
  BY <1>2, Zenon DEF FlushPending, Types, ServerType
<1>. QED
  BY <1>5, <1>6, Zenon
     DEF FlushPending, Types, ClientType, ServerType, QueueType,
     SimType, lobbyVars, simVars

(* Every step keeps the types of the whole state.                          *)
LEMMA TypesStep ==
  ASSUME Types, [Next]_vars
  PROVE  Types'
<1>. USE DEF Types
<1>1. ASSUME NEW c \in Conn, Client(c)  PROVE Types'
  <2>1. ClientType'
    <3>1. CASE Connect(c)
      BY <3>1, Zenon DEF Connect, ClientType, clientVars
    <3>2. CASE ClientLeaves(c, "closing") \/ ClientLeaves(c, "crashed")
      <4>1. NoView \in [players : SUBSET Id, host : Id \cup {NoId},
                        started : BOOLEAN]
        BY Zenon DEF NoView
      <4>. QED  BY <3>2, <4>1 DEF ClientLeaves, ClientType
    <3>3. CASE SendStartRequest(c)
      BY <3>3, Zenon DEF SendStartRequest, ClientType
    <3>4. CASE SendDatagram(c)
      BY <3>4, SessionAssumption DEF SendDatagram, ClientType
    <3>. QED  BY <1>1, <3>1, <3>2, <3>3, <3>4, Zenon DEF Client
  <2>. QED
    BY <1>1, <2>1, Zenon DEF Client, Connect, ClientLeaves, SendStartRequest,
       SendDatagram, ServerType, QueueType, SimType, registryVars, lobbyVars,
       simVars
<1>2. CASE AcceptNewClients
  BY <1>2, Zenon
     DEF AcceptNewClients, ClientType, ServerType, QueueType, SimType,
     clientVars, registryVars, lobbyVars, simVars
<1>3. CASE PushJoin
  <2>1. Head(starting) \in Command /\ Tail(starting) \in Seq(Command)
    BY <1>3, HeadTailProperties, Zenon DEF PushJoin, QueueType
  <2>2. QueueType'
    BY <1>3, <2>1 DEF PushJoin, QueueType
  <2>3. pending' \in [Id -> Seq(Message)]
    BY <1>3, BroadcastType, MessageFact, Zenon DEF PushJoin, ServerType
  <2>. QED
    BY <1>3, <2>2, <2>3, Zenon DEF PushJoin, ClientType, ServerType, SimType,
       clientVars, lobbyVars, simVars
<1>4. CASE HandleWake
  <2>1. pending' \in [Id -> Seq(Message)]
    BY <1>4, BroadcastType, MessageFact, Zenon DEF HandleWake, ServerType
  <2>. QED
    BY <1>4, <2>1, Zenon
       DEF HandleWake, ClientType, ServerType, QueueType, SimType,
       clientVars, lobbyVars
<1>5. ASSUME NEW c \in Conn, OnJoinLobby(c)  PROVE Types'
  BY <1>5, JoinTypes, Zenon
<1>6. ASSUME NEW c \in Conn, JoinRejected(c)  PROVE Types'
  BY <1>6, Zenon DEF JoinRejected, ClientType, ServerType, QueueType, SimType,
     registryVars, lobbyVars, simVars
<1>7. ASSUME NEW c \in Conn, RecvClosed(c)  PROVE Types'
  <2>1. CASE EntriesOf(c) # {}
    <3>1. PICK i \in EntriesOf(c) : Disconnect(i)
      BY <1>7, <2>1, Zenon DEF RecvClosed
    <3>2. i \in Id /\ slot[i] # Free /\ UNCHANGED peer
      BY <1>7, SessionAssumption, Zenon DEF EntriesOf, RecvClosed
    <3>. QED  BY <3>1, <3>2, DisconnectTypes, Zenon
  <2>2. CASE EntriesOf(c) = {}
    BY <1>7, <2>2, Zenon
       DEF RecvClosed, ClientType, ServerType, QueueType, SimType,
       registryVars, lobbyVars, simVars
  <2>. QED  BY <2>1, <2>2, Zenon
<1>8. ASSUME NEW c \in Conn, OnUdpPacket(c)  PROVE Types'
  <2>1. 0 \in 0 .. SilenceLimit + 1
    BY SessionAssumption
  <2>2. quiet' \in [Id -> 0 .. SilenceLimit + 1]
    BY <1>8, <2>1, Zenon DEF OnUdpPacket, ServerType
  <2>3. inFlight' \in [Conn -> 0 .. MaxFlight]
    BY <1>8, SessionAssumption DEF OnUdpPacket, ClientType
  <2>. QED
    BY <1>8, <2>2, <2>3, Zenon
       DEF OnUdpPacket, ClientType, ServerType, QueueType,
       SimType, lobbyVars, simVars
<1>9. ASSUME NEW c \in Conn, OnStartRequest(c)  PROVE Types'
  <2>1. starting' \in Seq(Command)
    BY <1>9, JoinCommandsFact, Zenon DEF OnStartRequest, QueueType
  <2>. QED
    BY <1>9, <2>1, Zenon DEF OnStartRequest, ClientType, ServerType, QueueType,
       SimType, registryVars, simVars
<1>10. ASSUME NEW i \in Id, FlushPending(i)  PROVE Types'
  BY <1>10, FlushTypes, Zenon
<1>11. ASSUME NEW i \in Id,
              FlushFails(i) \/ EnforcePendingCap(i) \/ CheckSilenceTimeouts(i)
       PROVE  Types'
  BY <1>11, DisconnectTypes, Zenon
     DEF FlushFails, EnforcePendingCap, CheckSilenceTimeouts, Over
<1>12. CASE TimePasses
  <2>1. quiet' \in [Id -> 0 .. SilenceLimit + 1]
    BY <1>12, SessionAssumption DEF TimePasses, ServerType
  <2>. QED
    BY <1>12, <2>1, Zenon
       DEF TimePasses, ClientType, ServerType, QueueType, SimType,
       clientVars, lobbyVars, simVars
<1>13. CASE SimPop
  <2>1. Head(inbound) \in Command /\ Tail(inbound) \in Seq(Command)
    BY <1>13, HeadTailProperties, Zenon DEF SimPop, QueueType
  <2>2. Head(inbound).id \in Id
    BY <2>1, CommandFact, Zenon
  <2>. QED
    BY <1>13, <2>1, <2>2, Zenon DEF SimPop, ClientType, ServerType, QueueType,
       SimType, clientVars, registryVars, lobbyVars
<1>14. ASSUME NEW scored \in BOOLEAN, SimTick(scored)  PROVE Types'
  <2>1. tick' \in 0 .. LimitTicks
    BY <1>14, SessionAssumption DEF SimTick, SimType
  <2>. QED
    BY <1>14, <2>1, Zenon
       DEF SimTick, ClientType, ServerType, QueueType, SimType,
       clientVars, registryVars, lobbyVars
<1>15. CASE UNCHANGED vars
  BY <1>15, Zenon DEF vars, ClientType, ServerType, QueueType, SimType,
     clientVars, registryVars, lobbyVars, simVars
<1>. QED
  BY <1>1, <1>2, <1>3, <1>4, <1>5, <1>6, <1>7, <1>8, <1>9, <1>10, <1>11,
     <1>12, <1>13, <1>14, <1>15, Zenon DEF Next, Handler, Simulation

(* The registry, the lobby, the queue, the simulation and the clients keep *)
(* their types: ids in range, every command in the queue one the           *)
(* simulation knows.                                                       *)
THEOREM TypeCorrect == Spec => []TypeOK
<1>1. Init => TypeOK
  BY InitTypes, Zenon
<1>2. TypeOK /\ [Next]_vars => TypeOK'
  <2>. SUFFICES ASSUME TypeOK, [Next]_vars  PROVE TypeOK'
    BY Zenon
  <2>1. Types /\ FlagType
    BY TypeParts, Zenon DEF Types
  <2>2. Types' /\ FlagType'
    BY <2>1, TypesStep, FlagTypeStep, Zenon
  <2>. QED
    BY <2>2, Zenon DEF Types, TypeOK, ClientType, ServerType, QueueType,
       SimType, FlagType
<1>. QED  BY <1>1, <1>2, PTL DEF Spec

-----------------------------------------------------------------------------
(* The roster *)

(* Whoever leaves, the host is among those who stay.                       *)
LEMMA HostStays ==
  ASSUME ServerType, RosterAgreement, NEW i \in players, players \ {i} # {}
  PROVE  HostAfterRemove(i) \in players \ {i}
<1>1. Min(players \ {i}) \in players \ {i}
  BY MinFact, IdFact, Zenon DEF ServerType
<1>. QED  BY <1>1, Zenon DEF HostAfterRemove, RosterAgreement

(* disconnect takes one id out of both records and closes one connection.  *)
LEMMA DisconnectRoster ==
  ASSUME Types, RosterAgreement, NEW i \in Id, slot[i] # Free, Disconnect(i)
  PROVE  RosterAgreement'
<1>1. i \in players /\ slot[i] \in Conn
  BY DEF RosterAgreement, Types, ServerType
<1>2. players' = players \ {i} /\ slot' = [slot EXCEPT ![i] = Free]
      /\ tcp' = [tcp EXCEPT ![slot[i]] = "closed"] /\ myId' = myId
      /\ host' = HostAfterRemove(i)
  BY Zenon DEF Disconnect
<1>3. players' = {j \in Id : slot'[j] # Free}
  BY <1>2, Zenon DEF RosterAgreement, Types, ServerType
<1>4. \A j \in players' : slot'[j] = slot[j] /\ slot[j] # slot[i] /\ slot[j] \in Conn
  BY <1>1, <1>2 DEF RosterAgreement, Types, ServerType
<1>5. \A j \in players' : tcp'[slot'[j]] = "open" /\ myId'[slot'[j]] = j
  BY <1>2, <1>4 DEF RosterAgreement, Types, ClientType
<1>6. \A j, k \in players' : slot'[j] = slot'[k] => j = k
  BY <1>2, <1>4 DEF RosterAgreement
<1>7. players' # {} => host' \in players'
  BY <1>1, <1>2, HostStays, Zenon DEF Types
<1>. QED  BY <1>3, <1>5, <1>6, <1>7, Zenon DEF RosterAgreement

(* on_join_lobby adds one id to both records, for a connection that had    *)
(* none.                                                                   *)
LEMMA JoinRoster ==
  ASSUME Types, RosterAgreement, NEW c \in Conn, OnJoinLobby(c)
  PROVE  RosterAgreement'
<1>. DEFINE i == Min(FreeIds)
<1>1. i \in Id /\ slot[i] = Free
  BY JoinTypes, Zenon
<1>2. /\ slot' = [slot EXCEPT ![i] = c]
      /\ players' = players \cup {i}
      /\ host' = HostAfterAdd(i)
      /\ myId' = [myId EXCEPT ![c] = i]
      /\ UNCHANGED tcp
      /\ tcp[c] = "open" /\ EntriesOf(c) = {}
  BY Zenon DEF OnJoinLobby
<1>. HIDE DEF i
<1>3. \A j \in Id : slot[j] # c
  BY <1>2, Zenon DEF EntriesOf
<1>4. i \notin players /\ c # Free
  BY <1>1, SessionAssumption, Zenon DEF RosterAgreement
<1>5. slot'[i] = c /\ \A j \in players : slot'[j] = slot[j]
  BY <1>1, <1>2, <1>4, Zenon DEF Types, ServerType
<1>6. players' = {j \in Id : slot'[j] # Free}
  BY <1>1, <1>2, <1>4 DEF RosterAgreement, Types, ServerType
<1>7. \A j, k \in players' : slot'[j] = slot'[k] => j = k
  BY <1>2, <1>3, <1>5 DEF RosterAgreement
<1>8. \A j \in players' : tcp'[slot'[j]] = "open" /\ myId'[slot'[j]] = j
  BY <1>2, <1>3, <1>5 DEF RosterAgreement, Types, ClientType, ServerType
<1>9. players' # {} => host' \in players'
  BY <1>2, Zenon DEF HostAfterAdd, RosterAgreement
<1>. QED  BY <1>6, <1>7, <1>8, <1>9, Zenon DEF RosterAgreement

(* A step is a join, a departure, or leaves the two records, the host and  *)
(* what they point to alone.                                               *)
Joins == \E c \in Conn : OnJoinLobby(c)

Departs ==
  \E i \in Id : slot[i] # Free /\ starting = <<>> /\ Disconnect(i) /\ UNCHANGED peer

Stays ==
  /\ UNCHANGED <<slot, players, host, myId>>
  /\ \A c \in Conn : tcp[c] = "open" => tcp'[c] = "open" \/ EntriesOf(c) = {}
  /\ \A c \in Conn : peer'[c] = "up" => peer[c] = "up"

(* Every step is one of these.                                             *)
LEMMA RosterSteps ==
  ASSUME Types, [Next]_vars
  PROVE  Joins \/ Departs \/ Stays
<1>. USE DEF Stays, clientVars, registryVars, lobbyVars, simVars
<1>1. ASSUME NEW c \in Conn, Client(c)  PROVE Stays
  BY <1>1, Zenon
     DEF Client, Connect, ClientLeaves, SendStartRequest, SendDatagram,
     Types, ClientType
<1>2. CASE AcceptNewClients \/ PushJoin \/ HandleWake
  BY <1>2, Zenon DEF AcceptNewClients, PushJoin, HandleWake
<1>3. ASSUME NEW c \in Conn, RecvClosed(c)  PROVE Departs \/ Stays
  <2>1. CASE EntriesOf(c) # {}
    <3>1. PICK i \in EntriesOf(c) : Disconnect(i)
      BY <1>3, <2>1, Zenon DEF RecvClosed
    <3>2. i \in Id /\ slot[i] # Free /\ UNCHANGED peer /\ starting = <<>>
      BY <1>3, SessionAssumption, Zenon DEF EntriesOf, RecvClosed, Idle
    <3>. QED  BY <3>1, <3>2, Zenon DEF Departs
  <2>2. CASE EntriesOf(c) = {}
    BY <1>3, <2>2, Zenon DEF RecvClosed, Types, ClientType
  <2>. QED  BY <2>1, <2>2, Zenon
<1>4. ASSUME NEW c \in Conn,
             JoinRejected(c) \/ OnUdpPacket(c) \/ OnStartRequest(c)
      PROVE  Stays
  BY <1>4, Zenon
     DEF JoinRejected, OnUdpPacket, OnStartRequest, Types, ClientType
<1>5. ASSUME NEW i \in Id,
              FlushFails(i) \/ EnforcePendingCap(i) \/ CheckSilenceTimeouts(i)
      PROVE  Departs
  BY <1>5, Zenon DEF FlushFails, EnforcePendingCap, CheckSilenceTimeouts, Over,
     Idle, Departs
<1>6. ASSUME NEW i \in Id, FlushPending(i)  PROVE Stays
  BY <1>6, Zenon DEF FlushPending
<1>7. CASE TimePasses \/ Simulation \/ UNCHANGED vars
  BY <1>7, Zenon DEF TimePasses, Simulation, SimPop, SimTick, vars
<1>. QED
  BY <1>1, <1>2, <1>3, <1>4, <1>5, <1>6, <1>7, Zenon DEF Next, Handler, Joins

(* Every step keeps the two records together.                              *)
LEMMA RosterStep ==
  ASSUME Types, RosterAgreement, [Next]_vars
  PROVE  RosterAgreement'
<1>1. CASE Joins
  BY <1>1, JoinRoster, Zenon DEF Joins
<1>2. CASE Departs
  BY <1>2, DisconnectRoster, Zenon DEF Departs
<1>3. CASE Stays
  <2>1. \A j \in players : slot[j] \in Conn /\ EntriesOf(slot[j]) # {}
    BY DEF RosterAgreement, Types, ServerType, EntriesOf
  <2>. QED  BY <1>3, <2>1 DEF Stays, RosterAgreement
<1>. QED  BY <1>1, <1>2, <1>3, RosterSteps, Zenon

-----------------------------------------------------------------------------
(* The last word of a queue on a matter *)

(* Where a sequence has elements of G. *)
Where(q, G) == {n \in DOMAIN q : q[n] \in G}

(* The last element of q in G, and without one what was before. *)
Final(q, G, before) ==
  IF Where(q, G) = {} THEN before ELSE q[Max(Where(q, G))]

(* An element appended has the last word, on what concerns it.             *)
LEMMA FinalAppend ==
  ASSUME NEW S, NEW q \in Seq(S), NEW e \in S, NEW G, NEW d
  PROVE  Final(Append(q, e), G, d) = IF e \in G THEN e ELSE Final(q, G, d)
<1>. DEFINE r == Append(q, e)
            L == Len(q)
<1>1. /\ L \in Nat /\ L + 1 \in Nat /\ DOMAIN q = 1 .. L
      /\ r \in Seq(S) /\ DOMAIN r = 1 .. L + 1
      /\ r[L + 1] = e /\ \A n \in 1 .. L : r[n] = q[n]
  BY AppendProperties, LenProperties
<1>. HIDE DEF r, L
<1>2. CASE e \in G
  <2>1. L + 1 \in Where(r, G) /\ Where(r, G) \in SUBSET (0 .. L + 1)
    BY <1>1, <1>2 DEF Where
  <2>2. \A n \in Where(r, G) : n <= L + 1
    BY <1>1, <2>1
  <2>3. Max(Where(r, G)) = L + 1
    BY <1>1, <2>1, <2>2, MaxIs, Zenon
  <2>. QED  BY <1>1, <1>2, <2>1, <2>3, Zenon DEF Final, r
<1>3. CASE e \notin G
  <2>1. Where(r, G) = Where(q, G)
    BY <1>1, <1>3 DEF Where
  <2>2. CASE Where(q, G) = {}
    BY <1>3, <2>1, <2>2, Zenon DEF Final, r
  <2>3. CASE Where(q, G) # {}
    <3>1. Where(q, G) \in SUBSET (0 .. L) /\ Where(q, G) \in SUBSET (1 .. L)
      BY <1>1 DEF Where
    <3>2. Max(Where(q, G)) \in 1 .. L
      BY <1>1, <2>3, <3>1, MaxFact, Zenon
    <3>. QED  BY <1>1, <1>3, <2>1, <2>3, <3>2, Zenon DEF Final, r
  <2>. QED  BY <2>2, <2>3, Zenon
<1>. QED  BY <1>2, <1>3, Zenon

(* What is popped becomes what was before.                                 *)
LEMMA FinalPop ==
  ASSUME NEW S, NEW q \in Seq(S), q # <<>>, NEW G, NEW d
  PROVE  Final(q, G, d) =
           Final(Tail(q), G, IF Head(q) \in G THEN Head(q) ELSE d)
<1>. DEFINE r == Tail(q)
            e == Head(q)
            L == Len(r)
<1>1. /\ L \in Nat /\ L + 1 \in Nat
      /\ r \in Seq(S) /\ DOMAIN r = 1 .. L
      /\ DOMAIN q = 1 .. L + 1 /\ q[1] = e
      /\ \A n \in 1 .. L : r[n] = q[n + 1]
  BY HeadTailProperties, LenProperties
<1>. HIDE DEF r, L, e
<1>2. Where(q, G) \in SUBSET (0 .. L + 1) /\ Where(r, G) \in SUBSET (0 .. L)
  BY <1>1 DEF Where
<1>3. \A n \in 1 .. L : n \in Where(r, G) <=> n + 1 \in Where(q, G)
  BY <1>1 DEF Where
<1>4. ASSUME NEW n \in Where(q, G), n # 1
      PROVE  n - 1 \in Where(r, G)
  <2>1. n \in 1 .. L + 1
    BY <1>1, <1>4, Zenon DEF Where
  <2>2. n - 1 \in 1 .. L /\ (n - 1) + 1 = n
    BY <1>1, <1>4, <2>1
  <2>. QED  BY <1>3, <1>4, <2>2, Zenon
<1>5. CASE Where(r, G) = {}
  <2>1. \A n \in Where(q, G) : n = 1
    BY <1>4, <1>5, Zenon
  <2>2. CASE e \in G
    <3>1. 1 \in Where(q, G)
      BY <1>1, <2>2 DEF Where
    <3>2. \A n \in Where(q, G) : n <= 1
      BY <2>1
    <3>3. Max(Where(q, G)) = 1
      BY <1>1, <1>2, <3>1, <3>2, MaxIs, Zenon
    <3>. QED  BY <1>1, <1>5, <2>2, <3>1, <3>3, Zenon DEF Final, r, e
  <2>3. CASE e \notin G
    <3>1. Where(q, G) = {}
      BY <1>1, <2>1, <2>3, Zenon DEF Where
    <3>. QED  BY <1>5, <2>3, <3>1, Zenon DEF Final, r, e
  <2>. QED  BY <2>2, <2>3, Zenon
<1>6. CASE Where(r, G) # {}
  <2>. DEFINE m == Max(Where(r, G))
  <2>1. m \in Where(r, G) /\ \A n \in Where(r, G) : n <= m
    BY <1>1, <1>2, <1>6, MaxFact, Zenon
  <2>. HIDE DEF m
  <2>2. m \in 1 .. L /\ m + 1 \in Where(q, G)
    BY <1>1, <1>3, <2>1, Zenon DEF Where
  <2>3. \A n \in Where(q, G) : n <= m + 1
    <3>1. \A n \in Where(q, G) : n \in Int
      BY <1>2
    <3>. QED  BY <1>4, <2>1, <2>2, <3>1
  <2>4. Max(Where(q, G)) = m + 1
    BY <1>1, <1>2, <2>2, <2>3, MaxIs, Zenon
  <2>. QED  BY <1>1, <1>6, <2>2, <2>4, Zenon DEF Final, r, e, m
<1>. QED  BY <1>5, <1>6, Zenon

-----------------------------------------------------------------------------
(* The simulation follows the lobby *)

(* Whether id i is in the simulation once the queue q is empty, if act is  *)
(* in it now.                                                              *)
InGame(q, act, i) ==
  IF About(q, i) = {} THEN i \in act
  ELSE q[Max(About(q, i))].type = "PlayerJoined"

(* The commands about an id; its place in the simulation as a command.     *)
Commands(i) == {cmd \in Command : cmd.id = i}

Place(act, i) ==
  [type |-> IF i \in act THEN "PlayerJoined" ELSE "PlayerLeft", id |-> i]

(* The last command about an id decides.                                   *)
LEMMA InGameFinal ==
  ASSUME NEW q \in Seq(Command), NEW act, NEW i
  PROVE  InGame(q, act, i) <=>
           Final(q, Commands(i), Place(act, i)).type = "PlayerJoined"
<1>1. About(q, i) = Where(q, Commands(i))
  BY DEF About, Where, Commands
<1>2. Place(act, i).type = "PlayerJoined" <=> i \in act
  BY Zenon DEF Place
<1>. QED  BY <1>1, <1>2, Zenon DEF InGame, Final

(* One more command decides about its own id, and about no other.          *)
LEMMA InGameAppend ==
  ASSUME NEW q \in Seq(Command), NEW cmd \in Command, NEW act, NEW i \in Id
  PROVE  InGame(Append(q, cmd), act, i) <=>
           IF cmd.id = i THEN cmd.type = "PlayerJoined" ELSE InGame(q, act, i)
<1>1. Append(q, cmd) \in Seq(Command)
  BY AppendProperties, Zenon
<1>2. cmd \in Commands(i) <=> cmd.id = i
  BY Zenon DEF Commands
<1>3. Final(Append(q, cmd), Commands(i), Place(act, i)) =
        IF cmd.id = i THEN cmd ELSE Final(q, Commands(i), Place(act, i))
  BY <1>2, FinalAppend
<1>4. /\ InGame(Append(q, cmd), act, i) <=>
           Final(Append(q, cmd), Commands(i), Place(act, i)).type = "PlayerJoined"
      /\ InGame(q, act, i) <=>
           Final(q, Commands(i), Place(act, i)).type = "PlayerJoined"
  BY <1>1, InGameFinal, Zenon
<1>. QED  BY <1>3, <1>4, Zenon

(* Popping a command and applying it changes nothing about what the whole  *)
(* queue comes to.                                                         *)
LEMMA InGamePop ==
  ASSUME NEW q \in Seq(Command), q # <<>>, NEW act, NEW i \in Id
  PROVE  InGame(q, act, i) <=>
           InGame(Tail(q),
                  IF Head(q).type = "PlayerJoined" THEN act \cup {Head(q).id}
                                                   ELSE act \ {Head(q).id}, i)
<1>. DEFINE cmd == Head(q)
            then == IF cmd.type = "PlayerJoined" THEN act \cup {cmd.id}
                                                 ELSE act \ {cmd.id}
            G == Commands(i)
            d == IF cmd \in G THEN cmd ELSE Place(act, i)
<1>1. cmd \in Command /\ Tail(q) \in Seq(Command)
  BY HeadTailProperties, Zenon
<1>2. Final(q, G, Place(act, i)) = Final(Tail(q), G, d)
  BY FinalPop
<1>3. d.type = "PlayerJoined" <=> Place(then, i).type = "PlayerJoined"
  <2>1. cmd \in G <=> cmd.id = i
    BY <1>1, Zenon DEF Commands
  <2>. QED  BY <2>1, Zenon DEF Place
<1>. HIDE DEF d, then, G
<1>4. Final(Tail(q), G, d).type = "PlayerJoined" <=>
        Final(Tail(q), G, Place(then, i)).type = "PlayerJoined"
  BY <1>3, Zenon DEF Final
<1>5. InGame(q, act, i) <=> InGame(Tail(q), then, i)
  BY <1>1, <1>2, <1>4, InGameFinal, Zenon DEF G
<1>. QED  BY <1>5, Zenon DEF then

(* Until a match is started nothing is queued and nobody is in the         *)
(* simulation.                                                             *)
BeforeMatch == ~inProgress => inbound = <<>> /\ starting = <<>> /\ active = {}

(* SimFollowsLobby in terms of InGame. *)
Follows ==
  inProgress /\ ~matchOver =>
    \A i \in Id : InGame(inbound \o starting, active, i) <=> i \in players

(* The two say the same.                                                   *)
LEMMA FollowsFact == SimFollowsLobby <=> Follows
BY Zenon DEF SimFollowsLobby, Follows, InGame

(* Every step leaves the time before a match as it is.                     *)
LEMMA BeforeMatchStep ==
  ASSUME BeforeMatch, [Next]_vars
  PROVE  BeforeMatch'
<1>. USE DEF BeforeMatch, clientVars, registryVars, lobbyVars, simVars
<1>1. ASSUME NEW c \in Conn, Client(c)  PROVE BeforeMatch'
  BY <1>1, Zenon
     DEF Client, Connect, ClientLeaves, SendStartRequest, SendDatagram
<1>2. CASE AcceptNewClients \/ PushJoin \/ HandleWake
  BY <1>2, Zenon DEF AcceptNewClients, PushJoin, HandleWake
<1>3. ASSUME NEW c \in Conn,
             OnJoinLobby(c) \/ JoinRejected(c) \/ OnUdpPacket(c)
             \/ OnStartRequest(c)
      PROVE  BeforeMatch'
  BY <1>3, Zenon DEF OnJoinLobby, JoinRejected, OnUdpPacket, OnStartRequest
<1>4. ASSUME NEW c \in Conn, RecvClosed(c)  PROVE BeforeMatch'
  BY <1>4, Zenon DEF RecvClosed, Disconnect
<1>5. ASSUME NEW i \in Id,
              \/ FlushPending(i) \/ FlushFails(i)
              \/ EnforcePendingCap(i) \/ CheckSilenceTimeouts(i)
      PROVE  BeforeMatch'
  BY <1>5, Zenon DEF FlushPending, FlushFails, EnforcePendingCap,
     CheckSilenceTimeouts, Disconnect
<1>6. CASE TimePasses \/ Simulation \/ UNCHANGED vars
  BY <1>6, Zenon DEF TimePasses, Simulation, SimPop, SimTick, vars
<1>. QED  BY <1>1, <1>2, <1>3, <1>4, <1>5, <1>6 DEF Next, Handler

(* A start: every player of the lobby is about to join, and nobody else.   *)
LEMMA StartFollows ==
  ASSUME Types, BeforeMatch, ~inProgress,
         NEW s \in Shuffles, starting' = JoinCommands(s),
         UNCHANGED <<inbound, active, players>>
  PROVE  Follows'
<1>. DEFINE q == JoinCommands(s)
<1>1. inbound' = <<>> /\ active' = {} /\ q \in Seq(Command)
  BY JoinCommandsFact, Zenon DEF BeforeMatch, Types
<1>2. (inbound \o starting)' = q
  BY <1>1, ConcatEmptySeq, Zenon
<1>. SUFFICES ASSUME NEW i \in Id
              PROVE  InGame(q, active', i) <=> i \in players'
  BY <1>2, Zenon DEF Follows
<1>3. /\ \A k \in DOMAIN q : q[k].type = "PlayerJoined" /\ q[k].id \in players
      /\ \A j \in players : \E k \in DOMAIN q : q[k].id = j
  BY JoinCommandsFact, Zenon DEF Types
<1>4. Len(q) \in Nat /\ DOMAIN q = 1 .. Len(q)
  BY <1>1, LenProperties, Zenon
<1>. HIDE DEF q
<1>5. CASE i \in players
  <2>1. About(q, i) # {} /\ About(q, i) \in SUBSET (0 .. Len(q))
    BY <1>3, <1>4, <1>5 DEF About
  <2>2. Max(About(q, i)) \in About(q, i)
    BY <1>4, <2>1, MaxFact, Zenon
  <2>3. Max(About(q, i)) \in DOMAIN q
    BY <2>2, Zenon DEF About
  <2>. QED  BY <1>3, <1>5, <2>1, <2>3, Zenon DEF InGame
<1>6. CASE i \notin players
  <2>1. About(q, i) = {}
    BY <1>3, <1>6, Zenon DEF About
  <2>. QED  BY <1>1, <1>6, <2>1, Zenon DEF InGame
<1>. QED  BY <1>5, <1>6, Zenon

(* The steps that matter to the simulation: a start, a push, a departure,  *)
(* a pop; or the queues and the roster stay.                               *)
LEMMA FollowsStep ==
  ASSUME Types, BeforeMatch, Follows, [Next]_vars
  PROVE  Follows'
<1>. USE DEF clientVars, registryVars, lobbyVars, simVars
<1>q. /\ inbound \in Seq(Command) /\ starting \in Seq(Command)
      /\ inbound \o starting \in Seq(Command)
  BY ConcatProperties, Zenon DEF Types, QueueType
<1>0. ASSUME UNCHANGED <<inbound, starting, active, players, inProgress>>,
             matchOver => matchOver'
      PROVE  Follows'
  BY <1>0, Zenon DEF Follows
<1>1. ASSUME NEW c \in Conn, Client(c)  PROVE Follows'
  BY <1>0, <1>1, Zenon DEF Client, Connect, ClientLeaves, SendStartRequest,
     SendDatagram
<1>2. CASE AcceptNewClients \/ HandleWake \/ TimePasses \/ UNCHANGED vars
  <2>1. CASE AcceptNewClients
    BY <1>0, <2>1, Zenon DEF AcceptNewClients
  <2>2. CASE HandleWake
    BY <1>0, <2>2, Zenon DEF HandleWake
  <2>3. CASE TimePasses
    BY <1>0, <2>3, Zenon DEF TimePasses
  <2>4. CASE UNCHANGED vars
    BY <1>0, <2>4, Zenon DEF vars
  <2>. QED  BY <1>2, <2>1, <2>2, <2>3, <2>4, Zenon
<1>3. CASE PushJoin
  <2>1. Append(inbound, Head(starting)) \o Tail(starting) = inbound \o starting
    <3>1. starting # <<>>
      BY <1>3, Zenon DEF PushJoin
    <3>. QED  BY <1>q, <3>1
  <2>. QED  BY <1>3, <2>1, Zenon DEF PushJoin, Follows
<1>4. CASE Joins
  <2>1. ~inProgress' 
    BY <1>4 DEF Joins, OnJoinLobby, CanJoin
  <2>. QED  BY <2>1, Zenon DEF Follows
<1>5. CASE Departs
  <2>1. PICK i \in Id : starting = <<>> /\ Disconnect(i)
    BY <1>5, Zenon DEF Departs
  <2>. DEFINE cmd == [type |-> "PlayerLeft", id |-> i]
  <2>. SUFFICES ASSUME inProgress', ~matchOver', NEW j \in Id
                PROVE  InGame((inbound \o starting)', active', j) <=> j \in players'
    BY Zenon DEF Follows
  <2>2. /\ inbound' = Append(inbound, cmd) /\ starting' = <<>>
        /\ inProgress /\ ~matchOver
        /\ players' = players \ {i} /\ active' = active
    BY <2>1, Zenon DEF Disconnect
  <2>3. cmd \in Command /\ cmd.id = i /\ cmd.type # "PlayerJoined"
    BY CommandFact, Zenon
  <2>4. /\ inbound \o starting = inbound
        /\ (inbound \o starting)' = Append(inbound, cmd)
    <3>1. Append(inbound, cmd) \in Seq(Command)
      BY <1>q, <2>3, AppendProperties, Zenon
    <3>. QED  BY <1>q, <2>1, <2>2, <3>1, ConcatEmptySeq, Zenon
  <2>. HIDE DEF cmd
  <2>5. InGame(inbound, active, j) <=> j \in players
    BY <2>2, <2>4, Zenon DEF Follows
  <2>6. InGame(Append(inbound, cmd), active, j) <=>
          IF cmd.id = j THEN cmd.type = "PlayerJoined"
                        ELSE InGame(inbound, active, j)
    BY <1>q, <2>3, InGameAppend, Zenon
  <2>. QED  BY <2>2, <2>3, <2>4, <2>5, <2>6, Zenon
<1>6. ASSUME NEW c \in Conn, RecvClosed(c)  PROVE Follows'
  <2>1. CASE EntriesOf(c) # {}
    <3>1. PICK i \in EntriesOf(c) : Disconnect(i)
      BY <1>6, <2>1, Zenon DEF RecvClosed
    <3>2. i \in Id /\ slot[i] # Free /\ UNCHANGED peer /\ starting = <<>>
      BY <1>6, SessionAssumption, Zenon DEF EntriesOf, RecvClosed, Idle
    <3>. QED  BY <1>5, <3>1, <3>2, Zenon DEF Departs
  <2>2. CASE EntriesOf(c) = {}
    BY <1>0, <1>6, <2>2, Zenon DEF RecvClosed
  <2>. QED  BY <2>1, <2>2, Zenon
<1>7. ASSUME NEW c \in Conn, JoinRejected(c) \/ OnUdpPacket(c)
      PROVE  Follows'
  BY <1>0, <1>7, Zenon DEF JoinRejected, OnUdpPacket
<1>8. ASSUME NEW c \in Conn, OnStartRequest(c)  PROVE Follows'
  <2>1. CASE UNCHANGED <<inProgress, starting>>
    BY <1>0, <1>8, <2>1, Zenon DEF OnStartRequest
  <2>2. CASE ~inProgress /\ \E s \in Shuffles : starting' = JoinCommands(s)
    BY <1>8, <2>2, StartFollows, Zenon DEF OnStartRequest
  <2>. QED  BY <1>8, <2>1, <2>2, Zenon DEF OnStartRequest
<1>9. ASSUME NEW i \in Id,
             FlushFails(i) \/ EnforcePendingCap(i) \/ CheckSilenceTimeouts(i)
      PROVE  Follows'
  BY <1>5, <1>9, Zenon
     DEF FlushFails, EnforcePendingCap, CheckSilenceTimeouts, Over,
     Idle, Departs
<1>10. ASSUME NEW i \in Id, FlushPending(i)  PROVE Follows'
  BY <1>0, <1>10, Zenon DEF FlushPending
<1>11. CASE SimPop
  <2>. SUFFICES ASSUME inProgress', ~matchOver', NEW i \in Id
                PROVE  InGame((inbound \o starting)', active', i) <=> i \in players'
    BY Zenon DEF Follows
  <2>1. /\ inProgress /\ ~matchOver /\ players' = players
        /\ inbound # <<>> /\ inbound' = Tail(inbound) /\ starting' = starting
        /\ active' = IF Head(inbound).type = "PlayerJoined"
                     THEN active \cup {Head(inbound).id}
                     ELSE active \ {Head(inbound).id}
    BY <1>11, Zenon DEF SimPop
  <2>. DEFINE q == inbound \o starting
  <2>2. q # <<>> /\ Head(q) = Head(inbound) /\ Tail(q) = Tail(inbound) \o starting
    BY <1>q, <2>1
  <2>. HIDE DEF q
  <2>3. InGame(q, active, i) <=> InGame(Tail(q), active', i)
    BY <1>q, <2>1, <2>2, InGamePop, Zenon DEF q
  <2>. QED  BY <2>1, <2>2, <2>3, Zenon DEF Follows, q
<1>12. ASSUME NEW scored \in BOOLEAN, SimTick(scored)  PROVE Follows'
  BY <1>0, <1>12, Zenon DEF SimTick
<1>. QED
  BY <1>1, <1>2, <1>3, <1>4, <1>6, <1>7, <1>8, <1>9, <1>10, <1>11, <1>12, Zenon
     DEF Next, Handler, Simulation, Joins

-----------------------------------------------------------------------------
(* What the clients know of the lobby *)

LobbyStates == {m \in Message : m.type = "LobbyState"}

Current(word) == word.players = players /\ word.host = host

(* LastWordIsCurrent in terms of Final. *)
Knows(i) == Current(Final(pending[i], LobbyStates, view[slot[i]]))

(* The two say the same.                                                   *)
LEMMA KnowsFact ==
  ASSUME ServerType
  PROVE  LastWordIsCurrent <=>
           \A i \in players : peer[slot[i]] = "up" => Knows(i)
<1>1. ASSUME NEW i \in players
      PROVE  {n \in DOMAIN pending[i] : pending[i][n].type = "LobbyState"}
               = Where(pending[i], LobbyStates)
  BY DEF ServerType, Where, LobbyStates
<1>. QED  BY <1>1, ZenonT(30) DEF LastWordIsCurrent, Knows, Current, Final

(* A broadcast of the new lobby tells everyone.                            *)
LEMMA ToldByBroadcast ==
  ASSUME ServerType', NEW pend \in [Id -> Seq(Message)],
         pending' = Broadcast(pend, slot', LobbyState(players', host')),
         NEW i \in Id, slot'[i] # Free
  PROVE  Knows(i)'
<1>. DEFINE m == LobbyState(players', host')
<1>1. m \in Message /\ m.type = "LobbyState"
  BY MessageFact, Zenon DEF LobbyState, ServerType
<1>2. m.players = players' /\ m.host = host'
  BY Zenon DEF LobbyState
<1>. HIDE DEF m
<1>3. pending'[i] = Append(pend[i], m)
  BY <1>1, BroadcastType, ZenonT(30) DEF m
<1>4. Final(pending'[i], LobbyStates, view'[slot'[i]]) = m
  BY <1>1, <1>3, FinalAppend DEF LobbyStates
<1>. QED  BY <1>2, <1>4, Zenon DEF Knows, Current

(* Any other broadcast tells nobody anything new about the lobby.          *)
LEMMA OtherBroadcast ==
  ASSUME ServerType, NEW m \in {GameStart, MatchEnd},
         pending' = Broadcast(pending, slot, m), NEW i \in Id, NEW v
  PROVE  Final(pending'[i], LobbyStates, v) = Final(pending[i], LobbyStates, v)
<1>1. m \in Message /\ m \notin LobbyStates
  BY MessageFact DEF GameStart, MatchEnd, LobbyStates
<1>2. pending'[i] = IF slot[i] # Free THEN Append(pending[i], m) ELSE pending[i]
  BY Zenon DEF Broadcast
<1>3. Final(Append(pending[i], m), LobbyStates, v)
        = Final(pending[i], LobbyStates, v)
  BY <1>1, FinalAppend DEF ServerType
<1>. QED  BY <1>2, <1>3, Zenon

(* flush_pending moves the next word from the buffer to the client.        *)
LEMMA FlushKnows ==
  ASSUME Types, RosterAgreement, NEW i \in Id, FlushPending(i),
         NEW j \in players, peer[slot[j]] = "up", Knows(j)
  PROVE  Knows(j)'
<1>. DEFINE c == slot[i]
            msg == Head(pending[i])
            v == IF msg \in LobbyStates THEN msg ELSE view[c]
<1>1. /\ pending[i] \in Seq(Message) /\ pending[i] # <<>> /\ c \in Conn
      /\ i \in players /\ msg \in Message
  BY HeadTailProperties DEF FlushPending, Types, ServerType, RosterAgreement
<1>2. /\ UNCHANGED <<players, host, slot>>
      /\ pending' = [pending EXCEPT ![i] = Tail(pending[i])]
  BY Zenon DEF FlushPending, lobbyVars
<1>3. CASE j # i
  <2>1. slot[j] # c /\ slot[j] \in Conn
    BY <1>1, <1>3 DEF RosterAgreement, Types, ServerType
  <2>2. view'[slot[j]] = view[slot[j]] /\ pending'[j] = pending[j]
    BY <1>2, <1>3, <2>1, Zenon DEF FlushPending, Types, ClientType, ServerType
  <2>. QED  BY <1>2, <2>2, Zenon DEF Knows, Current
<1>4. CASE j = i
  <2>1. Current(Final(Tail(pending[i]), LobbyStates, v))
    <3>1. Final(pending[i], LobbyStates, view[c])
            = Final(Tail(pending[i]), LobbyStates, v)
      BY <1>1, FinalPop
    <3>. QED  BY <1>4, <3>1, Zenon DEF Knows
  <2>2. view'[c].players = v.players /\ view'[c].host = v.host
    <3>1. view[c] \in [players : SUBSET Id, host : Id \cup {NoId},
                       started : BOOLEAN]
      BY <1>1, Zenon DEF Types, ClientType
    <3>2. view'[c] = IF msg.type = "LobbyState"
           THEN [view[c] EXCEPT !.players = msg.players, !.host = msg.host]
           ELSE IF msg.type = "GameStart" THEN [view[c] EXCEPT !.started = TRUE]
           ELSE view[c]
      BY <1>1, <1>4, Zenon DEF FlushPending, Types, ClientType
    <3>3. msg \in LobbyStates <=> msg.type = "LobbyState"
      BY <1>1, Zenon DEF LobbyStates
    <3>. QED  BY <3>1, <3>2, <3>3, Zenon
  <2>3. pending'[i] = Tail(pending[i])
    BY <1>2, Zenon DEF Types, ServerType
  <2>. HIDE DEF v
  <2>4. Current(Final(Tail(pending[i]), LobbyStates, view'[c]))
    BY <2>1, <2>2, Zenon DEF Final, Current
  <2>. QED  BY <1>2, <1>4, <2>3, <2>4, Zenon DEF Knows, Current
<1>. QED  BY <1>3, <1>4, Zenon

(* Everybody who listens knows, or will once its buffer is flushed. *)
AllKnow == \A i \in players : peer[slot[i]] = "up" => Knows(i)

(* Every step keeps it: each change of the roster is broadcast after it is *)
(* made, and nothing else speaks of the lobby.                             *)
LEMMA KnowsStep ==
  ASSUME Types, RosterAgreement, AllKnow, [Next]_vars, Types', RosterAgreement'
  PROVE  AllKnow'
<1>. USE DEF clientVars, registryVars, lobbyVars, simVars
<1>0. ASSUME UNCHANGED <<players, host, slot>>,
             \A c \in Conn : peer'[c] = "up" =>
                               peer[c] = "up" /\ view'[c] = view[c],
             \A i \in Id : \A v : Final(pending'[i], LobbyStates, v)
                                   = Final(pending[i], LobbyStates, v)
      PROVE  AllKnow'
  <2>. SUFFICES ASSUME NEW i \in players, peer'[slot[i]] = "up"
                PROVE  Knows(i)'
    BY <1>0, Zenon DEF AllKnow
  <2>1. i \in Id /\ slot[i] \in Conn
    BY DEF RosterAgreement, Types, ServerType
  <2>2. Knows(i) /\ view'[slot[i]] = view[slot[i]]
    BY <1>0, <2>1, Zenon DEF AllKnow
  <2>. QED  BY <1>0, <2>1, <2>2, Zenon DEF Knows, Current
<1>1. ASSUME NEW c \in Conn, Client(c)  PROVE AllKnow'
  <2>1. CASE \E how \in {"closing", "crashed"} : ClientLeaves(c, how)
    <3>1. \A d \in Conn : peer'[d] = "up" =>
                            peer[d] = "up" /\ view'[d] = view[d]
      BY <2>1 DEF ClientLeaves, Types, ClientType
    <3>2. UNCHANGED <<players, host, slot, pending>>
      BY <2>1, Zenon DEF ClientLeaves
    <3>. QED  BY <1>0, <3>1, <3>2, Zenon
  <2>2. CASE Connect(c) \/ SendStartRequest(c) \/ SendDatagram(c)
    BY <1>0, <2>2, Zenon DEF Connect, SendStartRequest, SendDatagram
  <2>. QED  BY <1>1, <2>1, <2>2, Zenon DEF Client
<1>2. CASE AcceptNewClients \/ TimePasses \/ Simulation \/ UNCHANGED vars
  BY <1>0, <1>2, Zenon
     DEF AcceptNewClients, TimePasses, Simulation, SimPop, SimTick,
     vars
<1>3. CASE PushJoin \/ HandleWake
  <2>1. UNCHANGED <<players, host, slot, peer, view>>
    BY <1>3, Zenon DEF PushJoin, HandleWake
  <2>2. \/ pending' = pending
        \/ pending' = Broadcast(pending, slot, GameStart)
        \/ pending' = Broadcast(pending, slot, MatchEnd)
    BY <1>3, Zenon DEF PushJoin, HandleWake
  <2>3. \A i \in Id : \A v : Final(pending'[i], LobbyStates, v)
                                = Final(pending[i], LobbyStates, v)
    <3>1. ASSUME NEW m \in {GameStart, MatchEnd}, NEW i \in Id, NEW v,
                 pending' = Broadcast(pending, slot, m)
          PROVE  Final(pending'[i], LobbyStates, v)
                   = Final(pending[i], LobbyStates, v)
      BY <3>1, OtherBroadcast, Zenon DEF Types
    <3>. QED  BY <2>2, <3>1, Zenon
  <2>. QED  BY <1>0, <2>1, <2>3, Zenon
<1>4. CASE Joins \/ Departs
  <2>1. PICK i \in Id :
          pending' = Broadcast([pending EXCEPT ![i] = <<>>], slot',
                               LobbyState(players', host'))
    <3>1. CASE Joins
      BY <3>1, JoinTypes, Zenon DEF Joins, OnJoinLobby
    <3>2. CASE Departs
      BY <3>2, Zenon DEF Departs, Disconnect
    <3>. QED  BY <1>4, <3>1, <3>2, Zenon
  <2>2. [pending EXCEPT ![i] = <<>>] \in [Id -> Seq(Message)]
    BY DEF Types, ServerType
  <2>3. \A j \in players' : j \in Id /\ slot'[j] # Free
    BY Zenon DEF RosterAgreement
  <2>. QED  BY <2>1, <2>2, <2>3, ToldByBroadcast, Zenon DEF AllKnow, Types
<1>5. ASSUME NEW c \in Conn,
             JoinRejected(c) \/ OnUdpPacket(c) \/ OnStartRequest(c)
      PROVE  AllKnow'
  BY <1>0, <1>5, Zenon
     DEF JoinRejected, OnUdpPacket, OnStartRequest, Types, ClientType
<1>6. ASSUME NEW c \in Conn, RecvClosed(c)  PROVE AllKnow'
  <2>1. CASE EntriesOf(c) # {}
    <3>1. PICK i \in EntriesOf(c) : Disconnect(i)
      BY <1>6, <2>1, Zenon DEF RecvClosed
    <3>2. i \in Id /\ slot[i] # Free /\ UNCHANGED peer /\ starting = <<>>
      BY <1>6, SessionAssumption, Zenon DEF EntriesOf, RecvClosed, Idle
    <3>. QED  BY <1>4, <3>1, <3>2, Zenon DEF Departs
  <2>2. CASE EntriesOf(c) = {}
    BY <1>0, <1>6, <2>2, Zenon DEF RecvClosed
  <2>. QED  BY <2>1, <2>2, Zenon
<1>7. ASSUME NEW i \in Id,
             FlushFails(i) \/ EnforcePendingCap(i) \/ CheckSilenceTimeouts(i)
      PROVE  AllKnow'
  BY <1>4, <1>7, Zenon
     DEF FlushFails, EnforcePendingCap, CheckSilenceTimeouts, Over,
     Idle, Departs
<1>8. ASSUME NEW i \in Id, FlushPending(i)  PROVE AllKnow'
  <2>1. UNCHANGED <<players, peer, slot>>
    BY <1>8, Zenon DEF FlushPending
  <2>. QED  BY <1>8, <2>1, FlushKnows, Zenon DEF AllKnow
<1>. QED
  BY <1>1, <1>2, <1>3, <1>4, <1>5, <1>6, <1>7, <1>8 DEF Next, Handler, Joins

-----------------------------------------------------------------------------
(* The inductive invariant: the four properties together, with what is     *)
(* known before a match, each in the form that the steps are proved for.   *)
IndInv ==
  /\ Types
  /\ RosterAgreement
  /\ BeforeMatch
  /\ Follows
  /\ AllKnow

(* IndInv holds at the start and every step of the server, the clients and *)
(* the clock keeps it.                                                     *)
THEOREM Invariance == Spec => []IndInv
<1>1. Init => IndInv
  <2>. SUFFICES ASSUME Init PROVE IndInv
    OBVIOUS
  <2>1. Types
    BY InitTypes, TypeParts, Zenon DEF Types
  <2>2. RosterAgreement /\ AllKnow /\ BeforeMatch /\ Follows
    BY Zenon DEF Init, RosterAgreement, AllKnow, BeforeMatch, Follows
  <2>. QED  BY <2>1, <2>2, Zenon DEF IndInv
<1>2. IndInv /\ [Next]_vars => IndInv'
  BY TypesStep, RosterStep, BeforeMatchStep, FollowsStep, KnowsStep, Zenon
     DEF IndInv
<1>. QED  BY <1>1, <1>2, PTL DEF Spec

(* on_join_lobby and disconnect keep the registry and the lobby together,  *)
(* whatever else happens between them.                                     *)
THEOREM RosterSafe == Spec => []RosterAgreement
BY Invariance, PTL DEF IndInv

(* However the network thread's pushes and the simulation's pops           *)
(* interleave, the simulation ends up with the lobby's players.            *)
THEOREM SimSafe == Spec => []SimFollowsLobby
<1>1. IndInv => SimFollowsLobby
  BY FollowsFact, Zenon DEF IndInv
<1>. QED  BY <1>1, Invariance, PTL

(* Every client that listens has been told, or is about to be told, the    *)
(* present roster and host last.                                           *)
THEOREM WordSafe == Spec => []LastWordIsCurrent
<1>1. IndInv => LastWordIsCurrent
  BY KnowsFact, Zenon DEF IndInv, Types, AllKnow
<1>. QED  BY <1>1, Invariance, PTL

(* auth_udp_sender: a datagram of a former owner of the id never resets    *)
(* the silence clock of the present one.                                   *)
THEOREM OwnerHeard == Spec => OnlyOwnerIsHeard
<1>. DEFINE Heard(i) == (slot[i] # Free /\ slot'[i] = slot[i] /\ quiet'[i] < quiet[i])
                          => inFlight'[slot[i]] < inFlight[slot[i]]
<1>1. Types /\ [Next]_vars => [\A i \in Id : Heard(i)]_vars
  <2>. SUFFICES ASSUME Types, Next, NEW i \in Id, slot[i] # Free,
                       slot'[i] = slot[i], quiet'[i] < quiet[i]
                PROVE  inFlight'[slot[i]] < inFlight[slot[i]]
    BY Zenon
  <2>. USE DEF clientVars, registryVars, lobbyVars, simVars
  <2>0. quiet[i] \in 0 .. SilenceLimit + 1 /\ quiet'[i] # quiet[i]
    BY SessionAssumption DEF Types, ServerType
  <2>1. ASSUME NEW c \in Conn, OnUdpPacket(c)
        PROVE  inFlight'[slot[i]] < inFlight[slot[i]]
    <3>1. slot[i] = c
      BY <2>0, <2>1, Zenon DEF OnUdpPacket, AuthUdpSender
    <3>2. inFlight[c] \in Nat /\ inFlight'[c] = inFlight[c] - 1
      BY <2>1, SessionAssumption DEF OnUdpPacket, Types, ClientType
    <3>. QED  BY <3>1, <3>2
  <2>2. CASE TimePasses
    BY <2>0, <2>2, SessionAssumption DEF TimePasses
  <2>3. ASSUME NEW c \in Conn, OnJoinLobby(c)  PROVE FALSE
    <3>1. i # Min(FreeIds)
      BY <2>3, JoinTypes, Zenon
    <3>. QED  BY <2>0, <2>3, <3>1, Zenon DEF OnJoinLobby, Types, ServerType
  <2>4. ASSUME NEW j \in Id, slot[j] # Free, Disconnect(j)  PROVE FALSE
    <3>1. i # j
      BY <2>4, Zenon DEF Disconnect, Types, ServerType
    <3>. QED  BY <2>0, <2>4, <3>1, Zenon DEF Disconnect, Types, ServerType
  <2>5. ASSUME NEW c \in Conn, RecvClosed(c)  PROVE FALSE
    BY <2>0, <2>4, <2>5, SessionAssumption, Zenon DEF RecvClosed, EntriesOf
  <2>6. ASSUME NEW j \in Id,
               FlushFails(j) \/ EnforcePendingCap(j) \/ CheckSilenceTimeouts(j)
        PROVE  FALSE
    BY <2>4, <2>6, Zenon
       DEF FlushFails, EnforcePendingCap, CheckSilenceTimeouts, Over
  <2>7. ASSUME UNCHANGED quiet  PROVE FALSE
    BY <2>0, <2>7, Zenon
  <2>8. ASSUME NEW c \in Conn, Client(c)  PROVE FALSE
    BY <2>7, <2>8, Zenon DEF Client, Connect, ClientLeaves, SendStartRequest,
       SendDatagram
  <2>9. CASE AcceptNewClients \/ PushJoin \/ HandleWake \/ Simulation
    BY <2>7, <2>9, Zenon DEF AcceptNewClients, PushJoin, HandleWake, Simulation,
       SimPop, SimTick
  <2>10. ASSUME NEW c \in Conn, JoinRejected(c) \/ OnStartRequest(c)
         PROVE  FALSE
    BY <2>7, <2>10, Zenon DEF JoinRejected, OnStartRequest
  <2>11. ASSUME NEW j \in Id, FlushPending(j)  PROVE FALSE
    BY <2>7, <2>11, Zenon DEF FlushPending
  <2>. QED
    BY <2>1, <2>2, <2>3, <2>5, <2>6, <2>8, <2>9, <2>10, <2>11
       DEF Next, Handler
<1>2. IndInv => Types
  BY Zenon DEF IndInv
<1>. QED  BY <1>1, <1>2, Invariance, PTL DEF Spec, OnlyOwnerIsHeard
=============================================================================
