------------------------------ MODULE WakeQueue ------------------------------
(***************************************************************************)
(* The hand-over of events from the simulation thread to the network       *)
(* thread: OutboundQueue (server/queues.h) and the eventfd that            *)
(* Sim::publish writes and NetServer::handle_wake reads.  The poller       *)
(* reports the eventfd as long as its counter is not zero, and nothing     *)
(* else makes the network thread look into the queue.                      *)
(***************************************************************************)
EXTENDS Naturals, Sequences

CONSTANTS
  Event,      \* what OutboundEvent tells apart
  MaxEvents   \* bound: events of a run

ASSUME WakeAssumption == MaxEvents \in Nat

VARIABLES
  queue,      \* OutboundQueue::items_
  signalled,  \* the eventfd's counter is not zero
  inTick,     \* the simulation has pushed since its last write
  netPc,      \* the network thread: in poll, reading the eventfd, popping
  handled     \* history variable: the events popped

vars == <<queue, signalled, inTick, netPc, handled>>

Init ==
  /\ queue = <<>> /\ signalled = FALSE /\ inTick = FALSE
  /\ netPc = "poll" /\ handled = <<>>

(* OutboundQueue::push. *)
Enqueue(e) == queue' = Append(queue, e)

(* A phase of tick() pushes an event. *)
PushEvent(e) ==
  /\ Len(handled) + Len(queue) < MaxEvents
  /\ Enqueue(e)
  /\ inTick' = TRUE
  /\ UNCHANGED <<signalled, netPc, handled>>

(* Mutant: a reader is woken only if it has nothing to do. *)
WakeIfIdle == signalled' = (signalled \/ Len(queue) <= 1)

Wake == signalled' = TRUE

(* The end of publish(): whether or not this tick pushed anything. *)
WriteEventfd ==
  /\ Wake
  /\ inTick' = FALSE
  /\ UNCHANGED <<queue, netPc, handled>>

(* wait() reports the eventfd and run() calls handle_wake. *)
Poll ==
  /\ netPc = "poll" /\ signalled
  /\ netPc' = "read"
  /\ UNCHANGED <<queue, signalled, inTick, handled>>

(* handle_wake reads until the counter is zero ... *)
ReadEventfd ==
  /\ netPc = "read" /\ signalled
  /\ signalled' = FALSE
  /\ UNCHANGED <<queue, inTick, netPc, handled>>

ReadNothing ==
  /\ netPc = "read" /\ ~signalled
  /\ netPc' = "pop"
  /\ UNCHANGED <<queue, signalled, inTick, handled>>

(* ... and pops until the queue is empty. *)
PopEvent ==
  /\ netPc = "pop" /\ queue # <<>>
  /\ handled' = Append(handled, Head(queue))
  /\ queue' = Tail(queue)
  /\ UNCHANGED <<signalled, inTick, netPc>>

PopNothing ==
  /\ netPc = "pop" /\ queue = <<>>
  /\ netPc' = "poll"
  /\ UNCHANGED <<queue, signalled, inTick, handled>>

Next ==
  \/ \E e \in Event : PushEvent(e)
  \/ WriteEventfd
  \/ Poll
  \/ ReadEventfd
  \/ ReadNothing
  \/ PopEvent
  \/ PopNothing

Spec == Init /\ [][Next]_vars

-----------------------------------------------------------------------------
(* Properties *)

TypeOK ==
  /\ queue \in Seq(Event)
  /\ signalled \in BOOLEAN /\ inTick \in BOOLEAN
  /\ netPc \in {"poll", "read", "pop"}
  /\ handled \in Seq(Event)

(* No wakeup is lost: when a tick is over, an event still in the queue has *)
(* a signal pending or a reader on its way to it, so the network thread    *)
(* never sleeps on a queue that is not empty.  It rests on handle_wake     *)
(* reading the eventfd before it pops, and on publish() writing it after   *)
(* the last push.                                                          *)
NoLostWakeup ==
  queue # <<>> /\ ~inTick => signalled \/ netPc \in {"read", "pop"}

(* The queue and the eventfd implement the channel: nothing is lost,       *)
(* doubled or reordered between the threads.                               *)
Ch == INSTANCE Channel WITH sent <- handled \o queue, received <- handled

ChannelSpec == Ch!Spec
=============================================================================
