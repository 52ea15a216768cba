-------------------------------- MODULE Link --------------------------------
(***************************************************************************)
(* A connection with both its sides: TcpIn, and the UDP handshake that     *)
(* runs beside it.  A client that was accepted says UDP_HELLO until a      *)
(* snapshot comes (client/net_client.cpp); the server keeps the address of *)
(* the first hello with the right token in the registry entry and sends    *)
(* snapshots there (server/net_server.cpp, broadcast.cpp).  Datagrams are  *)
(* lost, repeated and delayed past the end of their connection, and a      *)
(* client's address may change under way.                                  *)
(*                                                                         *)
(* A token is the number of the connection it was made for, an address     *)
(* that number and how often the client's address has changed.             *)
(***************************************************************************)
EXTENDS TcpIn

CONSTANTS
  MaxRebinds,   \* bound: changes of a client's address
  NoAddress     \* has_udp_addr is false

ASSUME LinkAssumption ==
  /\ MaxRebinds \in Nat
  /\ NoAddress \notin Nat \X Nat

VARIABLES
  rebinds,      \* changes of the present client's address
  first,        \* first_snapshot_received_
  up, down,     \* UDP_HELLOs and snapshots in the network
  token, addr   \* the registry entry's session_token and udp_addr

udpVars == <<rebinds, first, up, down, token, addr>>
linkVars == <<vars, udpVars>>

LinkInit ==
  /\ Init
  /\ rebinds = 0 /\ first = FALSE /\ up = {} /\ down = {}
  /\ token = 0 /\ addr = NoAddress

(* The address the present client sends from and is reached at. *)
Address == <<conns, rebinds>>

-----------------------------------------------------------------------------
(* The registry entry along with a TCP step: add() resets it, with a token *)
(* of its own, and remove() too.                                           *)
Entry ==
  CASE entry' = entry -> UNCHANGED <<token, addr>>
    [] entry' = "registered" /\ entry # entry' ->
         token' = conns /\ addr' = NoAddress
    [] entry' # "registered" /\ entry # entry' ->
         token' = 0 /\ addr' = NoAddress

(* What a TCP step does to the UDP side.  A new connection has sockets of  *)
(* its own, so that no snapshot for an earlier one reaches it.             *)
Along ==
  /\ Entry
  /\ IF conns' = conns THEN UNCHANGED <<rebinds, first, down>>
     ELSE rebinds' = 0 /\ first' = FALSE /\ down' = {}
  /\ UNCHANGED up

TcpStep == Next /\ Along

(* maybe_resend_udp_hello: as long as no snapshot has come. *)
WantsHello == ~first

SendUdpHello ==
  /\ client = "joined" /\ WantsHello
  /\ up' = up \cup {<<conns, Address>>}
  /\ UNCHANGED <<vars, rebinds, first, down, token, addr>>

(* The network, or a NAT on the way, gives the client another address. *)
Rebind ==
  /\ client = "joined" /\ rebinds < MaxRebinds
  /\ rebinds' = rebinds + 1
  /\ UNCHANGED <<vars, first, up, down, token, addr>>

(* Mutant: the player id will do. *)
AuthUdpSenderById(t, src) == addr \in {NoAddress, src}

(* Mutant: an entry without an address matches no sender. *)
AuthUdpSenderKnown(t, src) == token = t /\ addr = src

(* auth_udp_sender: the right token and, once there is one, the address. *)
AuthUdpSender(t, src) == token = t /\ addr \in {NoAddress, src}

(* on_udp_hello, for a datagram that may come again. *)
OnUdpHello(t, src) ==
  /\ pc = "poll" /\ entry = "registered"
  /\ <<t, src>> \in up /\ AuthUdpSender(t, src)
  /\ addr' = src
  /\ UNCHANGED <<vars, rebinds, first, up, down, token>>

(* send_udp_snapshots, for this entry; of many snapshots lost on the way,  *)
(* the one that arrives is kept.                                           *)
SendSnapshot ==
  /\ pc = "poll" /\ entry = "registered" /\ addr # NoAddress
  /\ down' = down \cup {addr}
  /\ UNCHANGED <<vars, rebinds, first, up, token, addr>>

(* dispatch_udp_payload, for the first keyframe. *)
RecvSnapshot ==
  /\ client = "joined" /\ Address \in down
  /\ first' = TRUE
  /\ UNCHANGED <<vars, rebinds, up, down, token, addr>>

LoseHello(d) ==
  /\ d \in up
  /\ up' = up \ {d}
  /\ UNCHANGED <<vars, rebinds, first, down, token, addr>>

LinkNext ==
  \/ TcpStep
  \/ SendUdpHello
  \/ Rebind
  \/ \E d \in up : OnUdpHello(d[1], d[2])
  \/ SendSnapshot
  \/ RecvSnapshot
  \/ \E d \in up : LoseHello(d)

LinkSpec == LinkInit /\ [][LinkNext]_linkVars

(* TcpIn's fairness; the client's poll() goes on, the simulation publishes *)
(* on and on, and of datagrams sent again and again some arrive.           *)
LinkFair ==
  /\ LinkSpec
  /\ WF_linkVars((\E k \in 1 .. Len(wire) : Recv(k)) /\ Along)
  /\ WF_linkVars((RecvClosed \/ DispatchFrame \/ DispatchNothing) /\ Along)
  /\ WF_linkVars(Accepted /\ Along)
  /\ WF_linkVars(SendUdpHello)
  /\ SF_linkVars(\E d \in up : d[1] = conns /\ OnUdpHello(d[1], d[2]))
  /\ SF_linkVars(SendSnapshot)
  /\ SF_linkVars(RecvSnapshot)

-----------------------------------------------------------------------------
(* Properties *)

(* Snapshots go to a socket of the client that holds the player id now,    *)
(* never to one of an earlier holder whose UDP_HELLO was delayed or whose  *)
(* address was left in the entry.                                          *)
AddressIsOwners == addr # NoAddress => entry = "registered" /\ addr[1] = conns

(* The address in the registry is one the client no longer has. *)
Misdirected == addr \notin {NoAddress, Address}

(* A client that was accepted and stays is reached: the first snapshot     *)
(* comes, however many hellos and snapshots are lost or late and even if   *)
(* its address changes before the server knows it.  What is left out is    *)
(* the end of the connection, and a change of the address that the server  *)
(* knows already (see RehelloAccepted).                                    *)
Reached ==
  client = "joined" ~> (first \/ client = "gone" \/ entry = "none" \/ Misdirected)

(* What docs/HANDOFF.md tells the author of a client, and a comment in     *)
(* auth_udp_sender implies: after a change of address UDP_HELLO is to be   *)
(* sent again; so a hello of the present client, with the token it was     *)
(* given and from the address it has, is not refused.                      *)
RehelloAccepted ==
  entry = "registered" /\ client = "joined" /\ <<conns, Address>> \in up
    => AuthUdpSender(conns, Address)
=============================================================================
