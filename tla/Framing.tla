------------------------------- MODULE Framing -------------------------------
(***************************************************************************)
(* The frames of the TCP stream: [u16 length][u8 type][payload].  Written  *)
(* by frame_payload and send_frame_generic (server/net_server.cpp) and     *)
(* NetClient::send_tcp_frame, read back by recv_framed                     *)
(* (shared/net_util.cpp) from whatever bytes have arrived so far.          *)
(***************************************************************************)
EXTENDS Integers, Sequences

CONSTANT FrameCap   \* kTcpFrameCapBytes

Header == 3         \* kTcpFrameHeaderBytes

Frame(m) == <<Len(m.body) \div 256, Len(m.body) % 256, m.type>> \o m.body

PayloadLen(buf) == buf[1] * 256 + buf[2]

(* recv_framed, its three answers: oversize, a complete frame, or neither  *)
(* yet.                                                                    *)
Oversize(buf) == Len(buf) >= Header /\ PayloadLen(buf) > FrameCap

HasFrame(buf) == Len(buf) >= Header /\ Len(buf) >= Header + PayloadLen(buf)

FirstFrame(buf) ==
  [type |-> buf[3], body |-> SubSeq(buf, Header + 1, Header + PayloadLen(buf))]

AfterFrame(buf) == SubSeq(buf, Header + PayloadLen(buf) + 1, Len(buf))
=============================================================================
