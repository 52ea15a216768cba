-------------------------------- MODULE TcpIn --------------------------------
(***************************************************************************)
(* The TCP stream from clients to the server (handle_tcp_readable,         *)
(* server/net_server.cpp): the bytes of a connection gather in pre_join_   *)
(* until its JOIN_LOBBY is dispatched, and in the tcp_in_ of its player id *)
(* afterwards.  Connections follow one another on the same descriptor and  *)
(* get the same player id, as ClientRegistry::add hands out the lowest     *)
(* free one; a client may vanish in the middle of a frame.                 *)
(***************************************************************************)
EXTENDS Framing

CONSTANTS
  JoinLobby,    \* the frames of a client: first this one,
  Request,      \* then these, once it is accepted
  AccumCap,     \* kAccumCap
  MaxFrames,    \* bound: frames of a connection
  MaxConns      \* bound: connections, one after another

ASSUME TcpInAssumption ==
  /\ \A m \in Request \cup {JoinLobby} :
       m \in [type : 0 .. 255, body : Seq(0 .. 255)]
  /\ JoinLobby \notin Request
  /\ {AccumCap, MaxFrames, MaxConns} \subseteq Nat

VARIABLES
  conns,      \* connections so far; the last one is the present one
  client,     \* off, waiting (for JOIN_ACCEPT), joined, gone
  asked,      \* history variable: frames sent on the present connection
  wire,       \* its bytes under way
  entry,      \* the server's end: none, unregistered, registered
  pc, accum,  \* handle_tcp_readable: its place and the buffer it works on
  preJoin, tcpIn,   \* pre_join_[fd] and tcp_in_[id]
  done        \* history variable: frames dispatched for this connection

clientVars == <<conns, client, asked>>
bufferVars == <<preJoin, tcpIn>>
vars == <<clientVars, wire, entry, pc, accum, bufferVars, done>>

Init ==
  /\ conns = 0 /\ client = "off" /\ asked = <<>> /\ wire = <<>>
  /\ entry = "none" /\ pc = "poll" /\ accum = "preJoin"
  /\ preJoin = <<>> /\ tcpIn = <<>> /\ done = <<>>

-----------------------------------------------------------------------------
(* The client: connect_and_join sends JOIN_LOBBY and waits.  The socket    *)
(* blocks, so send_all sends whole frames unless the client vanishes.      *)

Connect ==
  /\ entry = "none" /\ conns < MaxConns
  /\ conns' = conns + 1
  /\ client' = "waiting"
  /\ asked' = <<JoinLobby>> /\ done' = <<>>
  /\ wire' = Frame(JoinLobby)
  /\ entry' = "unregistered"
  /\ UNCHANGED <<pc, accum, bufferVars>>

(* Mutant: a client sends on without waiting for the answer. *)
MayGoOnAtOnce == client = "waiting"

(* wait_for_tcp_frame returns JOIN_ACCEPT. *)
MayGoOn == client = "waiting" /\ entry = "registered"

Accepted ==
  /\ MayGoOn
  /\ client' = "joined"
  /\ UNCHANGED <<conns, asked, wire, entry, pc, accum, bufferVars, done>>

(* send_tcp_frame: START_REQUEST or HEARTBEAT. *)
SendFrame(m) ==
  /\ client = "joined" /\ Len(asked) < MaxFrames
  /\ asked' = Append(asked, m)
  /\ wire' = wire \o Frame(m)
  /\ UNCHANGED <<conns, client, entry, pc, accum, bufferVars, done>>

(* The client closes or dies; the last k bytes never leave it. *)
ClientGone(k) ==
  /\ client \in {"waiting", "joined"} /\ k \in 0 .. Len(wire)
  /\ client' = "gone"
  /\ wire' = SubSeq(wire, 1, Len(wire) - k)
  /\ UNCHANGED <<conns, asked, entry, pc, accum, bufferVars, done>>

-----------------------------------------------------------------------------
(* The server *)

Buffered == IF accum = "preJoin" THEN preJoin ELSE tcpIn

SetBuffered(bytes) ==
  IF accum = "preJoin" THEN preJoin' = bytes /\ UNCHANGED tcpIn
                       ELSE tcpIn' = bytes /\ UNCHANGED preJoin

(* Mutant: the buffer of the player id is left as it is. *)
DisconnectKeepsBytes ==
  /\ entry' = "none" /\ pc' = "poll"
  /\ preJoin' = <<>>
  /\ wire' = <<>>
  /\ UNCHANGED <<clientVars, tcpIn, done>>

(* disconnect, or close_unregistered for a connection without an entry;    *)
(* what is still under way is lost with the connection.                    *)
Disconnect ==
  /\ entry' = "none" /\ pc' = "poll"
  /\ preJoin' = <<>>
  /\ tcpIn' = IF entry = "registered" THEN <<>> ELSE tcpIn
  /\ wire' = <<>>
  /\ UNCHANGED <<clientVars, done>>

(* recv returns k bytes, for the buffer accum_for chose. *)
Recv(k) ==
  /\ entry # "none" /\ pc = "poll" /\ k \in 1 .. Len(wire)
  /\ accum' = IF entry = "registered" THEN "tcpIn" ELSE "preJoin"
  /\ LET bytes == (IF entry = "registered" THEN tcpIn ELSE preJoin)
                    \o SubSeq(wire, 1, k)
     IN  IF Len(bytes) > AccumCap THEN Disconnect
         ELSE /\ IF entry = "registered"
                 THEN tcpIn' = bytes /\ UNCHANGED preJoin
                 ELSE preJoin' = bytes /\ UNCHANGED tcpIn
              /\ wire' = SubSeq(wire, k + 1, Len(wire))
              /\ pc' = "dispatch"
              /\ UNCHANGED <<clientVars, entry, done>>

(* recv returns 0. *)
RecvClosed ==
  /\ entry # "none" /\ pc = "poll" /\ wire = <<>> /\ client = "gone"
  /\ Disconnect
  /\ UNCHANGED accum

(* A frame is complete: JOIN_LOBBY registers the connection or is turned   *)
(* down, unknown types are skipped.                                        *)
DispatchFrame ==
  /\ pc = "dispatch" /\ ~Oversize(Buffered) /\ HasFrame(Buffered)
  /\ LET m == FirstFrame(Buffered)
     IN  /\ entry' \in IF m = JoinLobby THEN {"registered", entry} ELSE {entry}
         /\ done' = IF m.type \in {r.type : r \in Request \cup {JoinLobby}}
                    THEN Append(done, m) ELSE done
  /\ SetBuffered(AfterFrame(Buffered))
  /\ UNCHANGED <<clientVars, wire, pc, accum>>

DispatchNothing ==
  /\ pc = "dispatch"
  /\ Oversize(Buffered) \/ ~HasFrame(Buffered)
  /\ IF Oversize(Buffered)
     THEN Disconnect
     ELSE pc' = "poll" /\ UNCHANGED <<clientVars, wire, entry, bufferVars, done>>
  /\ UNCHANGED accum

(* The silence detector and the cap on pending_out disconnect as well. *)
CutOff ==
  /\ entry = "registered" /\ pc = "poll"
  /\ Disconnect
  /\ UNCHANGED accum

Next ==
  \/ Connect
  \/ Accepted
  \/ \E m \in Request : SendFrame(m)
  \/ \E k \in 0 .. Len(wire) : ClientGone(k)
  \/ \E k \in 1 .. Len(wire) : Recv(k)
  \/ RecvClosed
  \/ DispatchFrame
  \/ DispatchNothing
  \/ CutOff

Spec == Init /\ [][Next]_vars

-----------------------------------------------------------------------------
(* Properties *)

(* Between handlers, what has been dispatched for a connection is what its *)
(* client has sent, frame by frame and in order, wherever the stream was   *)
(* cut; nothing of an earlier connection on the same descriptor, or with   *)
(* the same player id, gets into it.                                       *)
DispatchedAsSent ==
  Len(done) <= Len(asked) /\ SubSeq(asked, 1, Len(done)) = done

(* A client that stays is heard: again and again the server has dispatched *)
(* every frame the client has sent so far, unless the connection ends; no  *)
(* bytes are stranded in the buffer it is not looking at.                  *)
Heard == []<>(done = asked \/ entry = "none")
=============================================================================
