------------------------------ MODULE Pipeline ------------------------------
(***************************************************************************)
(* The server's two threads from start to stop (server/main.cpp,           *)
(* NetServer::run, Sim::run), and the way of an event from the tick that   *)
(* raises it, through the outbound queue (WakeQueue), the poll loop and    *)
(* the TCP stream (TcpOut), to one client.                                 *)
(***************************************************************************)
EXTENDS WakeQueue, Framing

CONSTANTS SockBuf, PendingCap   \* as in TcpOut

ASSUME PipelineAssumption ==
  /\ \A e \in Event : e \in [type : 0 .. 255, body : Seq(0 .. 255)]
  /\ {FrameCap, SockBuf, PendingCap} \subseteq Nat \ {0}

VARIABLES
  pendingOut, socket, open, rx, pc, up, got,  \* as in TcpOut
  sim, simRunning,   \* the simulation thread and Sim::running_
  net, netRunning,   \* the network thread and NetServer::running_
  ready, watch,      \* what wait() has reported; the interest in POLLOUT
  main,              \* the main thread
  early              \* history variable: a stop() came before its run()

streamVars == <<pendingOut, socket, open, rx, pc, up, got>>
threadVars == <<sim, simRunning, net, netRunning, ready, watch, main, early>>
allVars == <<vars, streamVars, threadVars>>

(* The stream to the client; what it sends is what has been popped. *)
T == INSTANCE TcpOut WITH sent <- handled, refusals <- 0, MaxRefusals <- 0,
                          Refusal <- [type |-> 0, body |-> <<>>]

PipelineInit ==
  /\ Init /\ T!Init
  /\ sim = "new" /\ simRunning = FALSE
  /\ net = "new" /\ netRunning = FALSE /\ ready = {} /\ watch = FALSE
  /\ main = "idle" /\ early = FALSE

-----------------------------------------------------------------------------
(* Sim::run, once its thread has been scheduled *)

SimStarts ==
  /\ sim = "new"
  /\ sim' = "test" /\ simRunning' = TRUE
  /\ UNCHANGED <<vars, streamVars, net, netRunning, ready, watch, main, early>>

(* Mutant: running_ is set again in every round. *)
SimTestAgain ==
  /\ sim = "test"
  /\ sim' = IF simRunning THEN "tick" ELSE "done"
  /\ simRunning' = TRUE
  /\ UNCHANGED <<vars, streamVars, net, netRunning, ready, watch, main, early>>

(* Mutant: the loop does not look at running_. *)
SimTestNever ==
  /\ sim = "test"
  /\ sim' = "tick"
  /\ UNCHANGED <<vars, streamVars, simRunning, net, netRunning, ready, watch,
                 main, early>>

(* The loop's condition; then clock_nanosleep and tick(). *)
SimTest ==
  /\ sim = "test"
  /\ sim' = IF simRunning THEN "tick" ELSE "done"
  /\ UNCHANGED <<vars, streamVars, simRunning, net, netRunning, ready, watch,
                 main, early>>

TickPushes(e) ==
  /\ sim = "tick" /\ PushEvent(e)
  /\ UNCHANGED <<streamVars, threadVars>>

TickEnds ==
  /\ sim = "tick" /\ WriteEventfd
  /\ sim' = "test"
  /\ UNCHANGED <<streamVars, simRunning, net, netRunning, ready, watch, main,
                 early>>

-----------------------------------------------------------------------------
(* NetServer::run *)

NetStarts ==
  /\ net = "new"
  /\ net' = "test" /\ netRunning' = TRUE
  /\ UNCHANGED <<vars, streamVars, sim, simRunning, ready, watch, main, early>>

NetTest ==
  /\ net = "test"
  /\ net' = IF netRunning THEN "wait" ELSE "done"
  /\ UNCHANGED <<vars, streamVars, sim, simRunning, netRunning, ready, watch,
                 main, early>>

(* wait() returns what is ready, or nothing after its timeout.  The        *)
(* eventfd comes before any client, in the order of add(); nothing is      *)
(* served once stop() has been called.                                     *)
NetWait ==
  /\ net = "wait"
  /\ net' = "serve"
  /\ ready' = {r \in {"wake", "write"} :
                 /\ netRunning
                 /\ r = "wake" => signalled
                 /\ r = "write" => watch /\ open /\ T!Writable}
  /\ IF netRunning /\ signalled THEN Poll ELSE UNCHANGED vars
  /\ UNCHANGED <<streamVars, sim, simRunning, netRunning, watch, main, early>>

(* handle_wake: events of a client that is gone are popped all the same. *)
WakeReads ==
  /\ net = "serve" /\ (ReadEventfd \/ ReadNothing)
  /\ UNCHANGED <<streamVars, threadVars>>

WakePops ==
  /\ net = "serve" /\ PopEvent
  /\ IF open THEN T!Broadcast(Head(queue)) ELSE UNCHANGED streamVars
  /\ UNCHANGED threadVars

WakeEnds ==
  /\ net = "serve" /\ PopNothing
  /\ ready' = ready \ {"wake"}
  /\ UNCHANGED <<streamVars, sim, simRunning, net, netRunning, watch, main,
                 early>>

(* The client is writable: flush_pending, unless stopped in between.       *)
NetWrites ==
  /\ net = "serve" /\ ready = {"write"}
  /\ ready' = {}
  /\ IF netRunning THEN T!FlushPending ELSE UNCHANGED streamVars
  /\ UNCHANGED <<vars, sim, simRunning, net, netRunning, watch, main, early>>

(* The client is readable too: handle_tcp_readable, and no flush_pending   *)
(* in this round.                                                          *)
NetReads ==
  /\ net = "serve" /\ ready = {"write"}
  /\ ready' = {}
  /\ UNCHANGED <<vars, streamVars, sim, simRunning, net, netRunning, watch,
                 main, early>>

(* Mutant: the interest in POLLOUT stays as add() has set it. *)
InterestAsAdded == UNCHANGED watch

(* set_watch_write. *)
Interest == watch' = (open /\ pendingOut # <<>>)

(* The end of the loop: interest in POLLOUT, then enforce_pending_cap. *)
NetSweeps ==
  /\ net = "serve" /\ ready = {}
  /\ net' = "test"
  /\ Interest
  /\ IF open /\ ~T!UnderCap THEN T!EnforcePendingCap ELSE UNCHANGED streamVars
  /\ UNCHANGED <<vars, sim, simRunning, netRunning, ready, main, early>>

-----------------------------------------------------------------------------
(* main() *)

(* SIGINT has been seen: net.stop(). *)
StopNet ==
  /\ main = "idle"
  /\ main' = "stopSim"
  /\ netRunning' = FALSE
  /\ early' = (net = "new")
  /\ UNCHANGED <<vars, streamVars, sim, simRunning, net, ready, watch>>

(* sim.stop(). *)
StopSim ==
  /\ main = "stopSim"
  /\ main' = "join"
  /\ simRunning' = FALSE
  /\ early' = (early \/ sim = "new")
  /\ UNCHANGED <<vars, streamVars, sim, net, netRunning, ready, watch>>

(* Both threads are joined, and the destructors close what is open. *)
Exit ==
  /\ main = "join" /\ sim = "done" /\ net = "done"
  /\ main' = "exit"
  /\ open' = FALSE
  /\ pendingOut' = <<>>
  /\ UNCHANGED <<vars, socket, rx, pc, up, got, sim, simRunning, net,
                 netRunning, ready, watch, early>>

-----------------------------------------------------------------------------
(* The client's drain_tcp *)

ClientRecv ==
  /\ \E k \in 1 .. SockBuf : T!Recv(k)
  /\ UNCHANGED <<vars, threadVars>>

ClientStep ==
  /\ T!RecvNothing \/ T!RecvClosed \/ T!DispatchFrame \/ T!DispatchNothing
  /\ UNCHANGED <<vars, threadVars>>

-----------------------------------------------------------------------------
SimStep == SimStarts \/ SimTest \/ (\E e \in Event : TickPushes(e)) \/ TickEnds

NetStep ==
  \/ NetStarts \/ NetTest \/ NetWait
  \/ WakeReads \/ WakePops \/ WakeEnds
  \/ NetWrites \/ NetReads \/ NetSweeps

PipelineNext ==
  SimStep \/ NetStep \/ StopNet \/ StopSim \/ Exit \/ ClientRecv \/ ClientStep

PipelineSpec == PipelineInit /\ [][PipelineNext]_allVars

(* Threads that can run do: poll() has a timeout and clock_nanosleep an    *)
(* end.  Ticks are too rare to keep handle_wake reading for ever, and what *)
(* the client sends by TCP to make it readable in every round.  The client *)
(* polls again and again, so it reads what stays under way.                *)
PipelineFair ==
  /\ PipelineSpec
  /\ WF_allVars(SimStep)
  /\ WF_allVars(NetStep)
  /\ SF_allVars(WakeReads /\ ReadNothing)
  /\ SF_allVars(NetWrites)
  /\ WF_allVars(StopSim \/ Exit)
  /\ SF_allVars(ClientRecv)
  /\ WF_allVars(ClientStep)

-----------------------------------------------------------------------------
(* Properties *)

(* From the tick to the client's dispatch, over queue, eventfd, poll loop  *)
(* and stream: the client sees events in the order in which the phases of  *)
(* the ticks raised them, each once, none in between left out.             *)
Whole == INSTANCE Channel WITH sent <- handled \o queue, received <- got

InOrder == Whole!Spec

(* While the server is not told to stop, again and again all that was      *)
(* raised has reached the client, or the client is cut off: no wakeup and  *)
(* no POLLOUT is missed, although nothing but these makes the network      *)
(* thread look.                                                            *)
Delivered == []<>(got = handled \o queue \/ ~open \/ main # "idle")

(* A stop() that finds run() begun is final: nothing sets running_ again,  *)
(* whatever the threads are doing when it comes.                           *)
StopHolds ==
  ~early =>
    /\ main # "idle" => net # "new" /\ ~netRunning
    /\ main \in {"join", "exit"} => sim # "new" /\ ~simRunning

(* "Shuts down cleanly on SIGINT" (server/main.cpp): both threads end and  *)
(* are joined, in whatever they are when stop() comes, once both have      *)
(* begun to run.  A stop() before that is overwritten by run().            *)
ShutsDown == main = "join" /\ ~early ~> main = "exit"
=============================================================================
