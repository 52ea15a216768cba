----------------------------- MODULE LinkProofs -----------------------------
(***************************************************************************)
(* Snapshots go to the present holder of a player id only, the two read    *)
(* loops of the server use a connection as TcpIn says, and each message    *)
(* they dispatch is one that its connection sent, in that order: for any   *)
(* number of connections, rebinds and datagrams and any frames.            *)
(***************************************************************************)
EXTENDS Link, FramingProofs

(* Why AddressIsOwners holds: an entry has the token of the present        *)
(* connection, one that is gone has neither token nor address, and a       *)
(* UDP_HELLO carries the token of the connection it was sent from.         *)
LinkInv ==
  /\ entry = "registered" => token = conns
  /\ entry # "registered" => addr = NoAddress
  /\ \A d \in up : d[2][1] = d[1]
  /\ AddressIsOwners

(* A connection begins only when the one before has no entry any more, and *)
(* is not registered with its first step.                                  *)
LEMMA ConnectsFresh ==
  ASSUME Next
  PROVE  conns' = conns \/ (entry = "none" /\ entry' = "unregistered")
BY Zenon DEF Next, Connect, Accepted, SendFrame, ClientGone, Recv, RecvClosed,
       DispatchFrame, DispatchNothing, CutOff, Disconnect, clientVars

(* A TCP step leaves the entry alone, resets it for the present connection *)
(* or clears it: add(), remove().                                          *)
LEMMA TcpKeepsInv ==
  ASSUME LinkInv, TcpStep  PROVE LinkInv'
<1>1. conns' = conns \/ (entry = "none" /\ entry' = "unregistered")
  BY ConnectsFresh, Zenon DEF TcpStep
<1>2. Entry /\ up' = up
  BY Zenon DEF TcpStep, Along
<1>. QED  BY <1>1, <1>2, Zenon DEF LinkInv, AddressIsOwners, Entry

(* on_udp_hello: whatever datagram comes, however late, the address it     *)
(* leaves belongs to the connection whose token it carries.                *)
LEMMA HelloKeepsInv ==
  ASSUME LinkInv, NEW d \in up, OnUdpHello(d[1], d[2])  PROVE LinkInv'
<1>1. addr' = d[2] /\ token = d[1] /\ entry = "registered"
  BY Zenon DEF OnUdpHello, AuthUdpSender
<1>2. conns' = conns /\ entry' = entry /\ up' = up /\ token' = token
  BY Zenon DEF OnUdpHello, vars, clientVars
<1>. QED  BY <1>1, <1>2, Zenon DEF LinkInv, AddressIsOwners

(* The server never sends a snapshot to an earlier holder of the id.       *)
THEOREM SnapshotsToOwner == LinkSpec => []AddressIsOwners
<1>1. LinkInit => LinkInv
  BY Zenon DEF LinkInit, Init, LinkInv, AddressIsOwners
<1>2. LinkInv /\ [LinkNext]_linkVars => LinkInv'
  <2>. SUFFICES ASSUME LinkInv, [LinkNext]_linkVars  PROVE LinkInv'
    BY Zenon
  <2>1. CASE TcpStep
    BY <2>1, TcpKeepsInv, Zenon
  <2>2. CASE \E d \in up : OnUdpHello(d[1], d[2])
    BY <2>2, HelloKeepsInv, Zenon
  <2>3. CASE SendUdpHello
    BY <2>3 DEF SendUdpHello, Address, LinkInv, AddressIsOwners, vars,
                clientVars
  <2>4. CASE \E d \in up : LoseHello(d)
    BY <2>4, Zenon DEF LoseHello, LinkInv, AddressIsOwners, vars, clientVars
  <2>5. CASE Rebind \/ SendSnapshot \/ RecvSnapshot \/ UNCHANGED linkVars
    BY <2>5, Zenon
       DEF Rebind, SendSnapshot, RecvSnapshot, LinkInv, AddressIsOwners,
                linkVars, udpVars, vars, clientVars
  <2>. QED  BY <2>1, <2>2, <2>3, <2>4, <2>5, Zenon DEF LinkNext
<1>3. LinkInv => AddressIsOwners
  BY Zenon DEF LinkInv
<1>. QED  BY <1>1, <1>2, <1>3, PTL DEF LinkSpec

-----------------------------------------------------------------------------
(* The TCP stream *)

(* The link is the stream of TcpIn with another beside it: nothing of UDP  *)
(* touches the stream.                                                     *)
THEOREM RefinesTcpIn == LinkSpec => Spec
<1>1. LinkInit => Init
  BY Zenon DEF LinkInit
<1>2. [LinkNext]_linkVars => [Next]_vars
  BY Zenon DEF LinkNext, linkVars, TcpStep, SendUdpHello, Rebind, OnUdpHello,
         SendSnapshot, RecvSnapshot, LoseHello
<1>. QED  BY <1>1, <1>2, PTL DEF LinkSpec, Spec

Msg == Request \cup {JoinLobby}

StreamType ==
  /\ wire \in Seq(Nat) /\ preJoin \in Seq(Nat) /\ tcpIn \in Seq(Nat)
  /\ asked \in Seq(Msg) /\ done \in Seq(Msg)

(* Only one of the two buffers is in use, and the one that is left when    *)
(* the connection is registered is empty by then.                          *)
Route ==
  /\ entry \in {"none", "unregistered", "registered"}
  /\ pc \in {"poll", "dispatch"}
  /\ entry # "unregistered" => preJoin = <<>>
  /\ entry # "registered" => tcpIn = <<>>
  /\ entry = "none" => pc = "poll"
  /\ pc = "dispatch" /\ entry = "unregistered" => accum = "preJoin"
  /\ client = "waiting" \/ entry = "unregistered" => asked = <<JoinLobby>>
  /\ client = "joined" => entry # "unregistered"

InUse == IF entry = "registered" THEN tcpIn ELSE preJoin

(* What has been dispatched is what has been asked, so far.                *)
SoFar ==
  /\ Len(done) <= Len(asked)
  /\ \A i \in 1 .. Len(done) : done[i] = asked[i]

(* The bytes buffered and under way continue the stream of the frames      *)
(* asked where the last frame dispatched ends; and unless the client is    *)
(* gone, to the end.                                                       *)
Flow ==
  entry # "none" =>
    \E b, c : /\ Cuts(b, asked, c)
              /\ Holds(InUse \o wire, b, c[Len(done)])
              /\ client # "gone" =>
                   c[Len(done)] + Len(InUse \o wire) = Len(b)

StreamInv == StreamType /\ Route /\ SoFar /\ Flow

(* The frames of a client are messages.                                    *)
LEMMA MsgFact ==
  /\ Msg \subseteq Message /\ JoinLobby \in Msg
  /\ \A s \in Seq(Msg) : s \in Seq(Message)
<1>1. \A m \in Msg : m \in Message
  <2>. SUFFICES ASSUME NEW m \in Msg  PROVE m \in Message
    BY Zenon
  <2>1. m \in [type : 0 .. 255, body : Seq(0 .. 255)]
    BY TcpInAssumption DEF Msg
  <2>2. 0 .. 255 \subseteq Nat
    OBVIOUS
  <2>3. m.body \in Seq(Nat) /\ m.type \in Nat
    BY <2>1, <2>2, SeqMonotonic, Zenon
  <2>. QED  BY <2>1, <2>3, Zenon DEF Message
<1>2. \A s \in Seq(Msg) : s \in Seq(Message)
  BY <1>1
<1>. QED  BY <1>1, <1>2, Zenon DEF Msg

(* A buffer without bytes has no frame.                                    *)
LEMMA EmptyHasNone == ~HasFrame(<<>>)
BY DEF HasFrame, Header

(* The end of a connection leaves both buffers empty.                      *)
LEMMA DisconnectStep ==
  ASSUME StreamInv, Disconnect
  PROVE  StreamInv'
<1>0. /\ entry' = "none" /\ pc' = "poll" /\ preJoin' = <<>> /\ wire' = <<>>
      /\ tcpIn' = IF entry = "registered" THEN <<>> ELSE tcpIn
      /\ UNCHANGED <<client, asked, done>>
  BY Zenon DEF Disconnect, clientVars
<1>1. tcpIn' = <<>>
  BY <1>0, Zenon DEF StreamInv, Route
<1>2. StreamType'
  BY <1>0, <1>1 DEF StreamInv, StreamType
<1>3. Route'
  BY <1>0, <1>1, Zenon DEF StreamInv, Route
<1>4. SoFar' /\ Flow'
  BY <1>0, Zenon DEF StreamInv, SoFar, Flow
<1>. QED  BY <1>2, <1>3, <1>4, Zenon DEF StreamInv

(* connect_and_join begins a stream with JOIN_LOBBY in empty buffers.      *)
LEMMA ConnectStep ==
  ASSUME StreamInv, Connect
  PROVE  StreamInv'
<1>0. /\ entry = "none" /\ client' = "waiting" /\ asked' = <<JoinLobby>>
      /\ done' = <<>> /\ wire' = Frame(JoinLobby) /\ entry' = "unregistered"
      /\ UNCHANGED <<pc, accum, preJoin, tcpIn>>
  BY Zenon DEF Connect, bufferVars
<1>1. pc' = "poll" /\ preJoin' = <<>> /\ tcpIn' = <<>>
  BY <1>0, Zenon DEF StreamInv, Route
<1>. DEFINE f == Frame(JoinLobby)
<1>2. JoinLobby \in Msg /\ JoinLobby \in Message
  BY MsgFact, Zenon
<1>3. f \in Seq(Nat)
  BY <1>2, FrameFact, Zenon
<1>4. <<>> \o f = f /\ Append(<<>>, JoinLobby) = <<JoinLobby>>
  BY <1>2, <1>3
<1>5. StreamType'
  BY <1>0, <1>1, <1>2, <1>3 DEF StreamInv, StreamType
<1>6. Route'
  BY <1>0, <1>1, Zenon DEF StreamInv, Route
<1>7. SoFar'
  BY <1>0 DEF SoFar
<1>8. Flow'
  <2>1. Cuts(<<>>, <<>>, [i \in 0 .. 0 |-> 0]) /\ <<>> \in Seq(Message)
    BY CutsEmpty
  <2>2. PICK d : /\ Cuts(<<>> \o f, Append(<<>>, JoinLobby), d)
                 /\ \A i \in 0 .. Len(<<>>) : d[i] = [k \in 0 .. 0 |-> 0][i]
    BY <1>2, <2>1, CutsAppend
  <2>3. Cuts(f, asked', d) /\ d[0] = 0
    BY <1>0, <1>4, <2>2
  <2>4. InUse' \o wire' = f /\ Len(done') = 0
    BY <1>0, <1>1, <1>4, Zenon DEF InUse
  <2>. HIDE DEF f
  <2>5. Holds(f, f, 0) /\ 0 + Len(f) = Len(f)
    BY <1>3, LenProperties DEF Holds
  <2>6. /\ Cuts(f, asked', d)
        /\ Holds(InUse' \o wire', f, d[Len(done')])
        /\ d[Len(done')] + Len(InUse' \o wire') = Len(f)
    BY <2>3, <2>4, <2>5, Zenon
  <2>. QED  BY <2>6, Zenon DEF Flow
<1>. QED  BY <1>5, <1>6, <1>7, <1>8, Zenon DEF StreamInv

(* send_tcp_frame writes behind all that is under way.                     *)
LEMMA SendFrameStep ==
  ASSUME StreamInv, NEW m \in Request, SendFrame(m)
  PROVE  StreamInv'
<1>0. /\ client = "joined" /\ asked' = Append(asked, m)
      /\ wire' = wire \o Frame(m)
      /\ UNCHANGED <<client, entry, pc, accum, preJoin, tcpIn, done>>
  BY Zenon DEF SendFrame, bufferVars
<1>. DEFINE f == Frame(m)
            q == InUse \o wire
            n == Len(done)
<1>1. m \in Msg /\ m \in Message
  BY MsgFact, Zenon DEF Msg
<1>2. f \in Seq(Nat)
  BY <1>1, FrameFact, Zenon
<1>3. /\ wire \in Seq(Nat) /\ InUse \in Seq(Nat) /\ asked \in Seq(Msg)
      /\ asked \in Seq(Message) /\ done \in Seq(Msg)
      /\ n \in Nat /\ Len(asked) \in Nat
  BY MsgFact, LenProperties, Zenon DEF StreamInv, StreamType, InUse
<1>4. /\ asked' \in Seq(Msg) /\ Len(asked') = Len(asked) + 1
      /\ \A i \in 1 .. Len(asked) : asked'[i] = asked[i]
  BY <1>0, <1>1, <1>3, AppendProperties
<1>5. StreamType'
  <2>1. wire' \in Seq(Nat)
    BY <1>0, <1>2, <1>3, ConcatProperties, Zenon
  <2>. QED  BY <1>0, <1>4, <2>1, Zenon DEF StreamInv, StreamType
<1>6. Route'
  BY <1>0, Zenon DEF StreamInv, Route
<1>7. SoFar'
  <2>1. n <= Len(asked) /\ \A i \in 1 .. n : done[i] = asked[i]
    BY Zenon DEF StreamInv, SoFar
  <2>. HIDE DEF n
  <2>2. n <= Len(asked') /\ \A i \in 1 .. n : i \in 1 .. Len(asked)
    BY <1>3, <1>4, <2>1
  <2>3. \A i \in 1 .. n : done[i] = asked'[i]
    BY <1>4, <2>1, <2>2, Zenon
  <2>. QED  BY <1>0, <2>2, <2>3, Zenon DEF SoFar, n
<1>8. Flow'
  <2>1. CASE entry = "none"
    BY <1>0, <2>1, Zenon DEF Flow
  <2>2. CASE entry # "none"
    <3>1. PICK b, c : /\ Cuts(b, asked, c) /\ Holds(q, b, c[n])
                      /\ c[n] + Len(q) = Len(b)
      BY <1>0, <2>2, Zenon DEF StreamInv, Flow
    <3>2. PICK d : /\ Cuts(b \o f, Append(asked, m), d)
                   /\ \A i \in 0 .. Len(asked) : d[i] = c[i]
      BY <1>1, <1>3, <3>1, CutsAppend
    <3>3. n \in 0 .. Len(asked)
      BY <1>3 DEF StreamInv, SoFar
    <3>4. d[n] = c[n] /\ c[n] \in Nat /\ b \in Seq(Nat)
      BY <3>1, <3>2, <3>3 DEF Cuts
    <3>5. q \in Seq(Nat)
      BY <1>3, ConcatProperties, Zenon
    <3>6. Holds(q \o f, b \o f, c[n]) /\ c[n] + Len(q \o f) = Len(b \o f)
      BY <1>2, <3>1, <3>4, <3>5, HoldsAppend, Zenon
    <3>7. InUse' \o wire' = q \o f
      BY <1>0, <1>2, <1>3, Associative, Zenon DEF InUse
    <3>. HIDE DEF q, f
    <3>8. /\ Cuts(b \o f, asked', d)
          /\ Holds(InUse' \o wire', b \o f, d[Len(done')])
          /\ d[Len(done')] + Len(InUse' \o wire') = Len(b \o f)
      BY <1>0, <3>2, <3>4, <3>6, <3>7, Zenon
    <3>. QED  BY <3>8, Zenon DEF Flow
  <2>. QED  BY <2>1, <2>2, Zenon
<1>. QED  BY <1>5, <1>6, <1>7, <1>8, Zenon DEF StreamInv

(* A client that vanishes leaves the stream without its end.               *)
LEMMA ClientGoneStep ==
  ASSUME StreamInv, NEW k \in 0 .. Len(wire), ClientGone(k)
  PROVE  StreamInv'
<1>0. /\ client' = "gone" /\ wire' = SubSeq(wire, 1, Len(wire) - k)
      /\ UNCHANGED <<asked, entry, pc, accum, preJoin, tcpIn, done>>
  BY Zenon DEF ClientGone, bufferVars
<1>. DEFINE z == Len(wire) - k
            n == Len(done)
<1>1. /\ wire \in Seq(Nat) /\ InUse \in Seq(Nat) /\ asked \in Seq(Message)
      /\ z \in 0 .. Len(wire) /\ n \in 0 .. Len(asked)
  BY MsgFact, LenProperties DEF StreamInv, StreamType, InUse, SoFar
<1>2. wire' \in Seq(Nat)
  BY <1>0, <1>1, ReadOn, Zenon
<1>3. StreamType'
  BY <1>0, <1>2, Zenon DEF StreamInv, StreamType
<1>4. Route'
  BY <1>0, Zenon DEF StreamInv, Route
<1>5. SoFar'
  BY <1>0, Zenon DEF StreamInv, SoFar
<1>6. Flow'
  <2>1. CASE entry = "none"
    BY <1>0, <2>1, Zenon DEF Flow
  <2>2. CASE entry # "none"
    <3>1. PICK b, c : Cuts(b, asked, c) /\ Holds(InUse \o wire, b, c[n])
      BY <2>2, Zenon DEF StreamInv, Flow
    <3>2. c[n] \in Nat /\ b \in Seq(Nat)
      BY <1>1, <3>1 DEF Cuts
    <3>. HIDE DEF z, n
    <3>3. Holds(InUse \o SubSeq(wire, 1, z), b, c[n])
      BY <1>1, <3>1, <3>2, HoldsCut, Zenon
    <3>4. InUse' = InUse
      BY <1>0, Zenon DEF InUse
    <3>5. Cuts(b, asked', c) /\ Holds(InUse' \o wire', b, c[Len(done')])
      BY <1>0, <3>1, <3>3, <3>4, Zenon DEF z, n
    <3>. QED  BY <1>0, <3>5, Zenon DEF Flow
  <2>. QED  BY <2>1, <2>2, Zenon
<1>. QED  BY <1>3, <1>4, <1>5, <1>6, Zenon DEF StreamInv

(* recv moves bytes to the buffer that accum_for chose: the one in use.    *)
LEMMA RecvStep ==
  ASSUME StreamInv, NEW k \in 1 .. Len(wire), Recv(k)
  PROVE  StreamInv'
<1>. DEFINE bytes == InUse \o SubSeq(wire, 1, k)
<1>0. /\ entry # "none" /\ pc = "poll"
      /\ accum' = IF entry = "registered" THEN "tcpIn" ELSE "preJoin"
      /\ IF Len(bytes) > AccumCap THEN Disconnect
         ELSE /\ IF entry = "registered"
                 THEN tcpIn' = bytes /\ UNCHANGED preJoin
                 ELSE preJoin' = bytes /\ UNCHANGED tcpIn
              /\ wire' = SubSeq(wire, k + 1, Len(wire))
              /\ pc' = "dispatch"
              /\ UNCHANGED <<clientVars, entry, done>>
  BY Zenon DEF Recv, InUse
<1>1. CASE Len(bytes) > AccumCap
  BY <1>0, <1>1, DisconnectStep, Zenon
<1>2. CASE ~(Len(bytes) > AccumCap)
  <2>1. /\ IF entry = "registered" THEN tcpIn' = bytes /\ preJoin' = preJoin
                                   ELSE preJoin' = bytes /\ tcpIn' = tcpIn
        /\ wire' = SubSeq(wire, k + 1, Len(wire)) /\ pc' = "dispatch"
        /\ UNCHANGED <<client, asked, entry, done>>
    BY <1>0, <1>2, Zenon DEF clientVars
  <2>2. wire \in Seq(Nat) /\ InUse \in Seq(Nat) /\ k \in 0 .. Len(wire)
    BY LenProperties DEF StreamInv, StreamType, InUse
  <2>3. /\ wire' \in Seq(Nat) /\ bytes \in Seq(Nat)
        /\ bytes \o wire' = InUse \o wire
    BY <2>1, <2>2, ReadOn, Zenon
  <2>. HIDE DEF bytes
  <2>4. StreamType'
    BY <2>1, <2>3, Zenon DEF StreamInv, StreamType
  <2>5. Route'
    BY <1>0, <2>1, Zenon DEF StreamInv, Route
  <2>6. SoFar'
    BY <2>1, Zenon DEF StreamInv, SoFar
  <2>7. InUse' \o wire' = InUse \o wire
    BY <2>1, <2>3, Zenon DEF InUse
  <2>8. Flow'
    <3>. HIDE DEF InUse
    <3>. QED  BY <1>0, <2>1, <2>7, Zenon DEF StreamInv, Flow
  <2>. QED  BY <2>4, <2>5, <2>6, <2>8, Zenon DEF StreamInv
<1>. QED  BY <1>1, <1>2, Zenon

(* A complete frame is the next one the client sent, and what is left in   *)
(* the buffer goes on behind it.                                           *)
LEMMA DispatchFrameStep ==
  ASSUME StreamInv, DispatchFrame
  PROVE  StreamInv'
<1>. DEFINE p == Buffered
            m == FirstFrame(p)
            n == Len(done)
<1>0. /\ pc = "dispatch" /\ HasFrame(p)
      /\ entry' \in IF m = JoinLobby THEN {"registered", entry} ELSE {entry}
      /\ done' = IF m.type \in {r.type : r \in Request \cup {JoinLobby}}
                 THEN Append(done, m) ELSE done
      /\ IF accum = "preJoin"
         THEN preJoin' = AfterFrame(p) /\ UNCHANGED tcpIn
         ELSE tcpIn' = AfterFrame(p) /\ UNCHANGED preJoin
      /\ UNCHANGED <<client, asked, wire, pc, accum>>
  BY Zenon DEF DispatchFrame, SetBuffered, clientVars
<1>1. entry # "none" /\ p # <<>>
  BY <1>0, EmptyHasNone, Zenon DEF StreamInv, Route
<1>2. p = InUse /\ (accum = "preJoin" <=> entry = "unregistered")
  BY <1>0, <1>1, Zenon DEF StreamInv, Route, Buffered, InUse
<1>3. /\ wire \in Seq(Nat) /\ p \in Seq(Nat) /\ asked \in Seq(Message)
      /\ asked \in Seq(Msg) /\ done \in Seq(Msg) /\ n \in 0 .. Len(asked)
      /\ n \in Nat
  BY <1>2, MsgFact, LenProperties DEF StreamInv, StreamType, InUse, SoFar
<1>4. PICK b, c : /\ Cuts(b, asked, c) /\ Holds(p \o wire, b, c[n])
                  /\ client # "gone" => c[n] + Len(p \o wire) = Len(b)
  BY <1>1, <1>2, Zenon DEF StreamInv, Flow
<1>5. c[n] \in Nat /\ b \in Seq(Nat) /\ c[Len(asked)] = Len(b)
  BY <1>3, <1>4 DEF Cuts
<1>6. Holds(p, b, c[n])
  BY <1>3, <1>4, <1>5, HoldsPrefix, Zenon
<1>. DEFINE h == Header + PayloadLen(p)
<1>7. /\ n < Len(asked) /\ m = asked[n + 1] /\ h \in 3 .. Len(p)
      /\ c[n + 1] = c[n] + h
  BY <1>0, <1>3, <1>4, <1>6, NextFrame
<1>8. n + 1 \in 1 .. Len(asked) /\ m \in Msg
  <2>1. n + 1 \in 1 .. Len(asked)
    BY <1>3, <1>7
  <2>. QED  BY <1>3, <1>7, <2>1, ElementOfSeq, Zenon
<1>9. done' = Append(done, m)
  BY <1>0, <1>8, Zenon DEF Msg
<1>. DEFINE a == AfterFrame(p)
<1>10. a = Erased(p, h) /\ h \in 0 .. Len(p)
  BY <1>7 DEF AfterFrame, Erased
<1>. HIDE DEF p, m, n, h, a
<1>11. /\ a \in Seq(Nat) /\ Holds(a \o wire, b, c[n + 1])
       /\ c[n + 1] + Len(a \o wire) = c[n] + Len(p \o wire)
  <2>1. PICK k \in Nat : k = c[n]
    BY <1>5, Zenon
  <2>2. /\ Erased(p, h) \in Seq(Nat) /\ Holds(Erased(p, h) \o wire, b, k + h)
        /\ k + h + Len(Erased(p, h) \o wire) = k + Len(p \o wire)
    <3>1. p \in Seq(Nat) /\ wire \in Seq(Nat) /\ b \in Seq(Nat)
      BY <1>3, <1>5, Zenon
    <3>2. Holds(p \o wire, b, k) /\ h \in 0 .. Len(p)
      BY <1>4, <1>10, <2>1, Zenon
    <3>. QED  BY <3>1, <3>2, HoldsAfter
  <2>. QED  BY <1>7, <1>10, <2>1, <2>2, Zenon
<1>12. /\ done' \in Seq(Msg) /\ Len(done') = n + 1 /\ done'[n + 1] = m
       /\ \A i \in 1 .. n : done'[i] = done[i]
  BY <1>3, <1>8, <1>9, AppendProperties DEF n
<1>13. StreamType'
  BY <1>0, <1>11, <1>12, Zenon DEF StreamInv, StreamType, a
<1>14. SoFar'
  <2>1. \A i \in 1 .. n : done[i] = asked[i]
    BY Zenon DEF StreamInv, SoFar, n
  <2>2. \A i \in 1 .. n + 1 : i = n + 1 \/ i \in 1 .. n
    BY <1>3
  <2>3. \A i \in 1 .. n + 1 : done'[i] = asked[i]
    BY <1>7, <1>12, <2>1, <2>2, Zenon
  <2>4. n + 1 <= Len(asked)
    BY <1>8
  <2>. QED  BY <1>0, <1>12, <2>3, <2>4, Zenon DEF SoFar
<1>15. CASE entry = "unregistered"
  <2>1. /\ asked = <<JoinLobby>> /\ accum = "preJoin" /\ tcpIn = <<>>
        /\ client # "joined"
    BY <1>2, <1>15, Zenon DEF StreamInv, Route
  <2>2. n + 1 = Len(asked)
    BY <1>3, <1>7, <2>1
  <2>3. a = <<>> /\ wire = <<>>
    <3>1. c[n + 1] = Len(b)
      BY <1>5, <2>2, Zenon
    <3>2. c[n + 1] + Len(a \o wire) <= Len(b)
      BY <1>11, Zenon DEF Holds
    <3>3. Len(a \o wire) = Len(a) + Len(wire) /\ Len(a) \in Nat
          /\ Len(wire) \in Nat /\ Len(b) \in Nat
      BY <1>3, <1>5, <1>11, ConcatProperties, LenProperties, Zenon
    <3>4. Len(a) = 0 /\ Len(wire) = 0
      BY <3>1, <3>2, <3>3
    <3>. QED  BY <1>3, <1>11, <3>4, EmptySeq, Zenon
  <2>4. preJoin' = <<>> /\ tcpIn' = <<>> /\ entry' \in {entry, "registered"}
    BY <1>0, <2>1, <2>3, Zenon DEF a
  <2>5. Route'
    BY <1>0, <2>1, <2>4, Zenon DEF StreamInv, Route
  <2>6. InUse' = a
    BY <2>3, <2>4, Zenon DEF InUse
  <2>7. Cuts(b, asked', c) /\ Holds(InUse' \o wire', b, c[Len(done')])
        /\ (client' # "gone" => c[Len(done')] + Len(InUse' \o wire') = Len(b))
    BY <1>0, <1>4, <1>11, <1>12, <2>6, Zenon
  <2>. QED  BY <1>13, <1>14, <2>5, <2>7, Zenon DEF StreamInv, Flow
<1>16. CASE entry = "registered"
  <2>1. accum # "preJoin" /\ entry' = "registered" /\ preJoin = <<>>
    BY <1>0, <1>2, <1>16, Zenon DEF StreamInv, Route
  <2>2. tcpIn' = a /\ preJoin' = <<>>
    BY <1>0, <2>1, Zenon DEF a
  <2>3. Route'
    BY <1>0, <1>16, <2>1, <2>2, Zenon DEF StreamInv, Route
  <2>4. InUse' = a
    BY <2>1, <2>2, Zenon DEF InUse
  <2>5. Cuts(b, asked', c) /\ Holds(InUse' \o wire', b, c[Len(done')])
        /\ (client' # "gone" => c[Len(done')] + Len(InUse' \o wire') = Len(b))
    BY <1>0, <1>4, <1>11, <1>12, <2>4
  <2>. QED  BY <1>13, <1>14, <2>3, <2>5 DEF StreamInv, Flow
<1>. QED  BY <1>1, <1>15, <1>16, Zenon DEF StreamInv, Route

(* A step that moves no bytes.                                             *)
LEMMA QuietStep ==
  ASSUME StreamInv,
         client' = client \/ (MayGoOn /\ client' = "joined"),
         pc' = pc \/ pc' = "poll",
         UNCHANGED <<asked, wire, entry, accum, bufferVars, done>>
  PROVE  StreamInv'
<1>1. StreamType' /\ SoFar'
  BY Zenon DEF StreamInv, StreamType, SoFar, bufferVars
<1>2. Route'
  BY Zenon DEF StreamInv, Route, bufferVars, MayGoOn
<1>3. InUse' = InUse
  BY Zenon DEF InUse, bufferVars
<1>4. client' # "gone" => client # "gone"
  BY Zenon DEF MayGoOn
<1>5. Flow'
  BY <1>3, <1>4, Zenon DEF StreamInv, Flow
<1>. QED  BY <1>1, <1>2, <1>5, Zenon DEF StreamInv

(* What the client sent arrives frame by frame, on every connection and    *)
(* however recv() and the client's end cut the stream.                     *)
THEOREM StreamSafe == LinkSpec => []DispatchedAsSent
<1>1. Init => StreamInv
  BY DEF Init, StreamInv, StreamType, Route, SoFar, Flow
<1>2. StreamInv /\ [Next]_vars => StreamInv'
  <2>. SUFFICES ASSUME StreamInv, [Next]_vars  PROVE StreamInv'
    OBVIOUS
  <2>1. CASE Connect
    BY <2>1, ConnectStep
  <2>2. ASSUME NEW m \in Request, SendFrame(m)  PROVE StreamInv'
    BY <2>2, SendFrameStep, Zenon
  <2>3. ASSUME NEW k \in 0 .. Len(wire), ClientGone(k)  PROVE StreamInv'
    BY <2>3, ClientGoneStep, Zenon
  <2>4. ASSUME NEW k \in 1 .. Len(wire), Recv(k)  PROVE StreamInv'
    BY <2>4, RecvStep, Zenon
  <2>5. CASE RecvClosed \/ CutOff
    BY <2>5, DisconnectStep, Zenon DEF RecvClosed, CutOff
  <2>6. CASE DispatchFrame
    BY <2>6, DispatchFrameStep
  <2>9. CASE DispatchNothing
    <3>1. Disconnect \/ (pc' = "poll" /\ UNCHANGED <<clientVars, wire, entry,
                                                     accum, bufferVars, done>>)
      BY <2>9, Zenon DEF DispatchNothing
    <3>2. CASE Disconnect
      BY <3>2, DisconnectStep
    <3>3. CASE pc' = "poll" /\ UNCHANGED <<clientVars, wire, entry, accum,
                                           bufferVars, done>>
      BY <3>3, QuietStep, Zenon DEF clientVars
    <3>. QED  BY <3>1, <3>2, <3>3, Zenon
  <2>10. CASE Accepted
    BY <2>10, QuietStep, Zenon DEF Accepted
  <2>11. CASE UNCHANGED vars
    BY <2>11, QuietStep, Zenon DEF vars, clientVars
  <2>. QED  BY <2>1, <2>2, <2>3, <2>4, <2>5, <2>6, <2>9, <2>10,
               <2>11, Zenon DEF Next
<1>3. StreamInv => DispatchedAsSent
  <2>. SUFFICES ASSUME StreamInv  PROVE DispatchedAsSent
    BY Zenon
  <2>. DEFINE n == Len(done)
              s == SubSeq(asked, 1, n)
  <2>1. /\ done \in Seq(Msg) /\ asked \in Seq(Msg) /\ n \in Nat
        /\ Len(asked) \in Nat /\ n <= Len(asked)
        /\ \A i \in 1 .. n : done[i] = asked[i]
    BY LenProperties, Zenon DEF StreamInv, StreamType, SoFar
  <2>2. s = done
    BY <2>1
  <2>. QED  BY <2>1, <2>2, Zenon DEF DispatchedAsSent
<1>4. Spec => []DispatchedAsSent
  BY <1>1, <1>2, <1>3, PTL DEF Spec
<1>. QED  BY <1>4, RefinesTcpIn, PTL
=============================================================================
