-------------------------------- MODULE TcpOut --------------------------------
(***************************************************************************)
(* The TCP stream from the server to one client that has joined:           *)
(* broadcasts go through the entry's pending_out and flush_pending         *)
(* (server/broadcast.cpp, server/net_server.cpp), the refusal of a         *)
(* START_REQUEST straight to the socket with send_all                      *)
(* (shared/net_util.cpp); the client reads bytes and dispatches frames     *)
(* (NetClient::drain_tcp).                                                 *)
(***************************************************************************)
EXTENDS Framing, FiniteSetsExt

CONSTANTS
  Event,        \* the broadcasts, as records of type and body
  Refusal,      \* the JOIN_REJECT a refused START_REQUEST is answered with
  SockBuf,      \* bytes the kernel holds for this connection
  PendingCap,   \* kTcpPendingBufferCapBytes
  MaxEvents,    \* bound: broadcasts of a run
  MaxRefusals   \* bound: refused START_REQUESTs of a run

VARIABLES
  sent,        \* history variable: the broadcasts so far
  refusals,    \* refusals so far
  pendingOut,  \* ClientEntry::pending_out
  socket,      \* bytes accepted by send() that the client has not received
  open,        \* the server's end
  rx, pc, up,  \* the client: tcp_rx_buf_, its place in drain_tcp, connected
  got          \* history variable: the frames dispatched as game events

serverVars == <<sent, refusals, pendingOut, open>>
clientVars == <<rx, pc, up, got>>
vars == <<serverVars, socket, clientVars>>

Init ==
  /\ sent = <<>> /\ refusals = 0 /\ pendingOut = <<>> /\ open = TRUE
  /\ socket = <<>>
  /\ rx = <<>> /\ pc = "recv" /\ up = TRUE /\ got = <<>>

Room == SockBuf - Len(socket)

(* send() on a non-blocking socket: what fits. *)
Accepted(bytes) == SubSeq(bytes, 1, Min({Room, Len(bytes)}))
Rest(bytes) == SubSeq(bytes, Min({Room, Len(bytes)}) + 1, Len(bytes))

(* Mutant: what has been sent stays in the buffer. *)
KeepAll(bytes) == bytes

(* What flush_pending leaves in pending_out. *)
Keep(bytes) == Rest(bytes)

UnderCap == Len(pendingOut) <= PendingCap

(* broadcast_tcp_event. *)
Broadcast(e) ==
  /\ open /\ Len(sent) < MaxEvents
  /\ pendingOut' = pendingOut \o Frame(e)
  /\ sent' = Append(sent, e)
  /\ UNCHANGED <<refusals, open, socket, clientVars>>

(* on_start_request: the host's second START_REQUEST, say.                 *)
(* send_frame_generic ignores how much send_all has sent.                  *)
Refuse ==
  /\ open /\ refusals < MaxRefusals
  /\ refusals' = refusals + 1
  /\ socket' = socket \o Accepted(Frame(Refusal))
  /\ UNCHANGED <<sent, pendingOut, open, clientVars>>

(* The poller reports POLLOUT. *)
Writable == Room > 0

FlushPending ==
  /\ open /\ pendingOut # <<>> /\ Writable
  /\ socket' = socket \o Accepted(pendingOut)
  /\ pendingOut' = Keep(pendingOut)
  /\ UNCHANGED <<sent, refusals, open, clientVars>>

(* enforce_pending_cap, some time after the cap was passed: disconnect. *)
EnforcePendingCap ==
  /\ open /\ ~UnderCap
  /\ open' = FALSE
  /\ pendingOut' = <<>>
  /\ UNCHANGED <<sent, refusals, socket, clientVars>>

-----------------------------------------------------------------------------
(* The client: drain_tcp reads until nothing is left, then dispatches      *)
(* frame by frame until none is complete.                                  *)

Recv(k) ==
  /\ up /\ pc = "recv"
  /\ k \in 1 .. Len(socket)
  /\ rx' = rx \o SubSeq(socket, 1, k)
  /\ socket' = SubSeq(socket, k + 1, Len(socket))
  /\ UNCHANGED <<serverVars, pc, up, got>>

RecvNothing ==
  /\ up /\ pc = "recv"
  /\ open \/ socket # <<>>
  /\ pc' = "dispatch"
  /\ UNCHANGED <<serverVars, socket, rx, up, got>>

(* recv returns 0: disconnect, without a look at what has been read. *)
RecvClosed ==
  /\ up /\ pc = "recv" /\ ~open /\ socket = <<>>
  /\ up' = FALSE
  /\ UNCHANGED <<serverVars, socket, rx, pc, got>>

(* dispatch_tcp_frame: JOIN_REJECT and unknown types are skipped. *)
DispatchFrame ==
  /\ up /\ pc = "dispatch" /\ ~Oversize(rx) /\ HasFrame(rx)
  /\ rx' = AfterFrame(rx)
  /\ got' = IF FirstFrame(rx).type \in {e.type : e \in Event}
            THEN Append(got, FirstFrame(rx)) ELSE got
  /\ UNCHANGED <<serverVars, socket, pc, up>>

(* No complete frame: back to poll(); or a length above the cap, and the   *)
(* client disconnects.                                                     *)
DispatchNothing ==
  /\ up /\ pc = "dispatch"
  /\ Oversize(rx) \/ ~HasFrame(rx)
  /\ pc' = "recv"
  /\ up' = ~Oversize(rx)
  /\ UNCHANGED <<serverVars, socket, rx, got>>

Next ==
  \/ \E e \in Event : Broadcast(e)
  \/ FlushPending
  \/ EnforcePendingCap
  \/ \E k \in 1 .. SockBuf : Recv(k)
  \/ RecvNothing
  \/ RecvClosed
  \/ DispatchFrame
  \/ DispatchNothing

Spec == Init /\ [][Next]_vars

(* Both poll loops go on, and recv() returns what has arrived.  The client *)
(* reads again and again, so bytes that stay under way are read.           *)
Fairness ==
  /\ WF_vars(FlushPending)
  /\ WF_vars(EnforcePendingCap)
  /\ SF_vars(\E k \in 1 .. SockBuf : Recv(k))
  /\ WF_vars(RecvNothing)
  /\ WF_vars(DispatchFrame)
  /\ WF_vars(DispatchNothing)

(* The same with a host who presses ENTER again before GAME_START shows:   *)
(* kept apart because the stream does not survive it.                      *)
RefusingSpec == Init /\ [][Next \/ Refuse]_vars /\ Fairness

-----------------------------------------------------------------------------
(* Properties *)

(* However send() and recv() cut the stream, the client dispatches the     *)
(* broadcasts as they were sent, each once and in order: pending_out,      *)
(* flush_pending and the reassembly of frames implement the channel.       *)
Ch == INSTANCE Channel WITH received <- got

ChannelSpec == Ch!Spec
=============================================================================
