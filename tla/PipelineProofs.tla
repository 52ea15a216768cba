--------------------------- MODULE PipelineProofs ---------------------------
(***************************************************************************)
(* No wakeup is lost between the simulation thread and the network thread, *)
(* and the queue with its eventfd implements the safety part of the        *)
(* abstract channel; the server's threads use the queue as WakeQueue says, *)
(* so that what is proved of it holds for the whole server; a stop() is    *)
(* not undone; and what the client's dispatch gets is what the simulation  *)
(* pushed, in that order, although partial writes and reads cut its frames *)
(* anywhere.  For any number and any kind of events and any buffer sizes.  *)
(***************************************************************************)
EXTENDS Pipeline, FramingProofs

(* The types of the queue, the eventfd and the program counters hold in    *)
(* every reachable state.                                                  *)
THEOREM TypeCorrect == Spec => []TypeOK
<1>. DEFINE Seqs == queue \in Seq(Event) /\ handled \in Seq(Event)
            Flags == signalled \in BOOLEAN /\ inTick \in BOOLEAN
            Pc == netPc \in {"poll", "read", "pop"}
<1>1. Init => TypeOK
  <2>1. Init => Seqs /\ Pc
    BY DEF Init
  <2>2. Init => Flags
    BY Zenon DEF Init
  <2>. QED  BY <2>1, <2>2, Zenon DEF TypeOK
<1>2. TypeOK /\ [Next]_vars => TypeOK'
  <2>. SUFFICES ASSUME TypeOK, [Next]_vars  PROVE  TypeOK'
    BY Zenon
  <2>. USE DEF Next, vars, PushEvent, Enqueue, WriteEventfd, Wake, Poll,
               ReadEventfd, ReadNothing, PopEvent, PopNothing
  <2>1. Seqs' /\ Pc'
    <3>. Seqs /\ Pc
      BY Zenon DEF TypeOK
    <3>1. CASE \E e \in Event : PushEvent(e)
      BY <3>1
    <3>2. CASE PopEvent
      BY <3>2
    <3>3. CASE WriteEventfd \/ Poll \/ ReadEventfd \/ ReadNothing \/ PopNothing
               \/ UNCHANGED vars
      BY <3>3, Zenon
    <3>. QED  BY <3>1, <3>2, <3>3, Zenon
  <2>2. Flags'
    <3>. Flags
      BY Zenon DEF TypeOK
    <3>. QED  BY Zenon
  <2>. QED  BY <2>1, <2>2, Zenon DEF TypeOK
<1>. QED  BY <1>1, <1>2, PTL DEF Spec

(* The network thread never sleeps on a queue that is not empty once the   *)
(* tick that filled it is over: NoLostWakeup is inductive.                 *)
THEOREM WakeupSafe == Spec => []NoLostWakeup
<1>1. Init => NoLostWakeup
  BY Zenon DEF Init, NoLostWakeup
<1>2. TypeOK /\ NoLostWakeup /\ [Next]_vars => NoLostWakeup'
  BY Zenon
     DEF TypeOK, NoLostWakeup, Next, vars, PushEvent, Enqueue, WriteEventfd,
         Wake, Poll, ReadEventfd, ReadNothing, PopEvent, PopNothing
<1>. QED  BY <1>1, <1>2, TypeCorrect, PTL DEF Spec

(* Appending at the end of a concatenation appends to its second part: a   *)
(* push is a Send.                                                         *)
LEMMA AppendConcat ==
  ASSUME NEW S, NEW s \in Seq(S), NEW t \in Seq(S), NEW e \in S
  PROVE  s \o Append(t, e) = Append(s \o t, e)
  OBVIOUS

(* Moving the head of the second part to the end of the first leaves a     *)
(* concatenation as it is, and the element moved is the one after the      *)
(* first part: a pop is a Receive.                                         *)
LEMMA MoveHead ==
  ASSUME NEW S, NEW s \in Seq(S), NEW t \in Seq(S), t # <<>>
  PROVE  /\ Append(s, Head(t)) \o Tail(t) = s \o t
         /\ Len(s) < Len(s \o t)
         /\ (s \o t)[Len(s) + 1] = Head(t)
  OBVIOUS

(* Every step of the two threads is a step of the abstract channel or      *)
(* leaves it alone: events arrive once and in order.                       *)
THEOREM ImplementsChannel == Spec => ChannelSpec
<1>1. Init => Ch!Init
  BY DEF Init, Ch!Init
<1>2. TypeOK /\ [Next]_vars => [Ch!Next]_<<handled \o queue, handled>>
  <2>. SUFFICES ASSUME TypeOK, [Next]_vars
                PROVE  [Ch!Next]_<<handled \o queue, handled>>
    BY Zenon
  <2>1. CASE \E e \in Event : PushEvent(e)
    <3>. PICK e \in Event : PushEvent(e)
      BY <2>1, Zenon
    <3>1. handled' = handled /\ queue' = Append(queue, e)
      BY Zenon DEF PushEvent, Enqueue
    <3>2. handled' \o queue' = Append(handled \o queue, e)
      BY <3>1, AppendConcat DEF TypeOK
    <3>. QED  BY <3>1, <3>2, Zenon DEF Ch!Next, Ch!Send
  <2>2. CASE PopEvent
    <3>1. /\ queue # <<>>
          /\ handled' = Append(handled, Head(queue))
          /\ queue' = Tail(queue)
      BY <2>2, Zenon DEF PopEvent
    <3>2. /\ handled' \o queue' = handled \o queue
          /\ Len(handled) < Len(handled \o queue)
          /\ (handled \o queue)[Len(handled) + 1] = Head(queue)
      BY <3>1, MoveHead, Zenon DEF TypeOK
    <3>. QED  BY <3>1, <3>2, Zenon DEF Ch!Next, Ch!Receive
  <2>3. CASE UNCHANGED <<queue, handled>>
    BY <2>3, Zenon
  <2>. QED
    BY <2>1, <2>2, <2>3, Zenon DEF Next, vars, WriteEventfd, Poll, ReadEventfd,
       ReadNothing, PopNothing
<1>. QED  BY <1>1, <1>2, TypeCorrect, PTL DEF Spec, ChannelSpec, Ch!Spec

-----------------------------------------------------------------------------
(* Each step of the server and of the client is a step of the queue and    *)
(* its eventfd, or leaves them alone.                                      *)
LEMMA StepsOfQueue ==
  ASSUME [PipelineNext]_allVars  PROVE [Next]_vars
<1>1. CASE SimStep
  BY <1>1, Zenon DEF SimStep, SimStarts, SimTest, TickPushes, TickEnds, Next
<1>2. CASE NetStep
  BY <1>2, Zenon DEF NetStep, NetStarts, NetTest, NetWait, WakeReads, WakePops,
              WakeEnds, NetWrites, NetReads, NetSweeps, Next
<1>3. CASE StopNet \/ StopSim \/ Exit \/ ClientRecv \/ ClientStep
  BY <1>3, Zenon DEF StopNet, StopSim, Exit, ClientRecv, ClientStep
<1>4. CASE UNCHANGED allVars
  BY <1>4, Zenon DEF allVars
<1>. QED  BY <1>1, <1>2, <1>3, <1>4, Zenon DEF PipelineNext

(* The server composed of its threads implements the queue's               *)
(* specification: tick(), run() and handle_wake use it in no other way.    *)
THEOREM RefinesQueue == PipelineSpec => Spec
<1>1. PipelineInit => Init
  BY Zenon DEF PipelineInit
<1>2. [PipelineNext]_allVars => [Next]_vars
  BY StepsOfQueue, Zenon
<1>. QED  BY <1>1, <1>2, PTL DEF PipelineSpec, Spec

(* So no wakeup is lost in the running server: handle_wake finds every     *)
(* event of a finished tick, from start to stop.                           *)
THEOREM ServerWakes == PipelineSpec => []NoLostWakeup
BY RefinesQueue, WakeupSafe, PTL

(* NetServer::stop and Sim::stop, called when run() has begun, are final.  *)
THEOREM StopIsFinal == PipelineSpec => []StopHolds
<1>. USE DEF StopHolds
<1>1. PipelineInit => StopHolds
  BY Zenon DEF PipelineInit
<1>2. StopHolds /\ [PipelineNext]_allVars => StopHolds'
  <2>. SUFFICES ASSUME StopHolds, [PipelineNext]_allVars  PROVE StopHolds'
    BY Zenon
  <2>1. CASE SimStep
    BY <2>1, Zenon
       DEF SimStep, SimStarts, SimTest, TickPushes, TickEnds, threadVars
  <2>2. CASE NetStep
    BY <2>2, Zenon
       DEF NetStep, NetStarts, NetTest, NetWait, WakeReads, WakePops,
                WakeEnds, NetWrites, NetReads, NetSweeps, threadVars
  <2>3. CASE StopNet \/ StopSim \/ Exit
    BY <2>3, Zenon DEF StopNet, StopSim, Exit
  <2>4. CASE ClientRecv \/ ClientStep \/ UNCHANGED allVars
    BY <2>4, Zenon DEF ClientRecv, ClientStep, allVars, threadVars
  <2>. QED  BY <2>1, <2>2, <2>3, <2>4, Zenon DEF PipelineNext
<1>. QED  BY <1>1, <1>2, PTL DEF PipelineSpec

-----------------------------------------------------------------------------
(* The stream to the client *)

(* The stream is made of the frames of Framing.                            *)
LEMMA SameFrames ==
  /\ \A m : T!Frame(m) = Frame(m)
  /\ \A p : /\ T!HasFrame(p) <=> HasFrame(p)
            /\ T!FirstFrame(p) = FirstFrame(p)
            /\ T!AfterFrame(p) = AfterFrame(p)
BY Zenon DEF T!Frame, Frame, T!HasFrame, HasFrame, T!FirstFrame, FirstFrame,
       T!AfterFrame, AfterFrame, T!Header, Header, T!PayloadLen, PayloadLen

(* Events are messages.                                                    *)
LEMMA EventFact ==
  /\ \A e \in Event : e \in Message
  /\ \A s \in Seq(Event) : s \in Seq(Message)
<1>1. \A e \in Event : e \in Message
  <2>. SUFFICES ASSUME NEW e \in Event  PROVE e \in Message
    BY Zenon
  <2>1. e \in [type : 0 .. 255, body : Seq(0 .. 255)]
    BY PipelineAssumption, Zenon
  <2>2. 0 .. 255 \subseteq Nat
    OBVIOUS
  <2>3. e.body \in Seq(Nat) /\ e.type \in Nat
    BY <2>1, <2>2, SeqMonotonic, Zenon
  <2>. QED  BY <2>1, <2>3, Zenon DEF Message
<1>. QED  BY <1>1

(* The smaller of two numbers.                                             *)
LEMMA Smaller ==
  ASSUME NEW x \in Int, NEW y \in Int
  PROVE  /\ T!Min({x, y}) = x \/ T!Min({x, y}) = y
         /\ T!Min({x, y}) <= x /\ T!Min({x, y}) <= y
<1>1. \E z \in {x, y} : \A w \in {x, y} : z <= w
  <2>1. CASE x <= y
    BY <2>1
  <2>2. CASE y <= x
    BY <2>2
  <2>. QED  BY <2>1, <2>2
<1>2. /\ T!Min({x, y}) \in {x, y}
      /\ \A w \in {x, y} : T!Min({x, y}) <= w
  BY <1>1, Zenon DEF T!Min
<1>. QED  BY <1>2, Zenon

(* send() takes a part of what it is given.                                *)
LEMMA SendTakes ==
  ASSUME NEW s \in Seq(Nat), T!Room > 0, socket \in Seq(Nat)
  PROVE  \E k \in 0 .. Len(s) : /\ T!Accepted(s) = SubSeq(s, 1, k)
                                /\ T!Rest(s) = SubSeq(s, k + 1, Len(s))
<1>. DEFINE k == T!Min({T!Room, Len(s)})
<1>1. Len(s) \in Nat /\ T!Room \in Int
  BY PipelineAssumption, LenProperties DEF T!Room
<1>2. k \in 0 .. Len(s)
  <2>. DEFINE r == T!Room
              l == Len(s)
  <2>1. r > 0 /\ r \in Int /\ l \in Nat /\ l \in Int /\ k = T!Min({r, l})
    BY <1>1
  <2>. HIDE DEF r, l, k
  <2>2. (k = r \/ k = l) /\ k <= r /\ k <= l
    BY <2>1, Smaller, Zenon
  <2>3. k \in 0 .. l
    BY <2>1, <2>2
  <2>. QED  BY <2>3, Zenon DEF l
<1>3. T!Accepted(s) = SubSeq(s, 1, k) /\ T!Rest(s) = SubSeq(s, k + 1, Len(s))
  BY Zenon DEF T!Accepted, T!Rest
<1>. HIDE DEF k
<1>. QED  BY <1>2, <1>3, Zenon

OutType ==
  /\ rx \in Seq(Nat) /\ socket \in Seq(Nat) /\ pendingOut \in Seq(Nat)
  /\ got \in Seq(Event)

(* The bytes q continue the stream b of the first events popped, which     *)
(* are ms, where the last frame dispatched ends; as long as the connection *)
(* is open ms is all that was popped and q reaches the stream's end.       *)
FlowOf(ms, b, c, q) ==
  /\ ms \in Seq(Event) /\ Len(ms) <= Len(handled)
  /\ \A i \in 1 .. Len(ms) : ms[i] = handled[i]
  /\ open => Len(ms) = Len(handled)
  /\ Len(got) <= Len(ms)
  /\ Cuts(b, ms, c)
  /\ Holds(q, b, c[Len(got)])
  /\ open => c[Len(got)] + Len(q) = Len(b)

(* What the client has read, what is under way and what is pending is such *)
(* a continuation.                                                         *)
OutFlow == \E ms, b, c : FlowOf(ms, b, c, rx \o (socket \o pendingOut))

OutInv == OutType /\ OutFlow

(* A step that leaves alone what OutInv is about.                          *)
LEMMA OutQuiet ==
  ASSUME OutInv, UNCHANGED <<rx, socket, pendingOut, got, open, handled>>
  PROVE  OutInv'
<1>1. OutType'
  BY Zenon DEF OutInv, OutType
<1>2. OutFlow'
  BY Zenon DEF OutInv, OutFlow, FlowOf
<1>. QED  BY <1>1, <1>2, Zenon DEF OutInv

(* A step that only moves bytes along.                                     *)
LEMMA OutMove ==
  ASSUME OutInv, UNCHANGED <<got, open, handled>>,
         rx' \in Seq(Nat), socket' \in Seq(Nat), pendingOut' \in Seq(Nat),
         rx' \o (socket' \o pendingOut') = rx \o (socket \o pendingOut)
  PROVE  OutInv'
<1>1. OutType'
  BY Zenon DEF OutInv, OutType
<1>. DEFINE q == rx \o (socket \o pendingOut)
            r == rx' \o (socket' \o pendingOut')
<1>2. PICK ms, b, c : FlowOf(ms, b, c, q)
  BY Zenon DEF OutInv, OutFlow
<1>3. r = q
  BY Zenon
<1>. HIDE DEF q, r
<1>4. /\ Holds(r, b, c[Len(got')])
      /\ open' => c[Len(got')] + Len(r) = Len(b)
  BY <1>2, <1>3, Zenon DEF FlowOf
<1>5. /\ ms \in Seq(Event) /\ Len(ms) <= Len(handled')
      /\ \A i \in 1 .. Len(ms) : ms[i] = handled'[i]
      /\ open' => Len(ms) = Len(handled')
      /\ Len(got') <= Len(ms)
      /\ Cuts(b, ms, c)
  BY <1>2, Zenon DEF FlowOf
<1>6. OutFlow'
  BY <1>4, <1>5, Zenon DEF OutFlow, FlowOf, r
<1>. QED  BY <1>1, <1>6, Zenon DEF OutInv

(* flush_pending.                                                          *)
LEMMA FlushStep ==
  ASSUME OutInv, T!FlushPending  PROVE OutInv'
<1>1. /\ T!Room > 0
      /\ socket' = socket \o T!Accepted(pendingOut)
      /\ pendingOut' = T!Rest(pendingOut)
      /\ UNCHANGED <<got, open, handled, rx>>
  BY Zenon DEF T!FlushPending, T!Writable, T!Keep, T!clientVars
<1>2. socket \in Seq(Nat) /\ pendingOut \in Seq(Nat) /\ rx \in Seq(Nat)
  BY Zenon DEF OutInv, OutType
<1>3. PICK k \in 0 .. Len(pendingOut) :
        /\ T!Accepted(pendingOut) = SubSeq(pendingOut, 1, k)
        /\ T!Rest(pendingOut) = SubSeq(pendingOut, k + 1, Len(pendingOut))
  BY <1>1, <1>2, SendTakes, Zenon
<1>4. /\ SubSeq(pendingOut, k + 1, Len(pendingOut)) \in Seq(Nat)
      /\ socket \o SubSeq(pendingOut, 1, k) \in Seq(Nat)
      /\ (socket \o SubSeq(pendingOut, 1, k))
           \o SubSeq(pendingOut, k + 1, Len(pendingOut))
         = socket \o pendingOut
  BY <1>2, ReadOn, Zenon
<1>5. /\ socket' \in Seq(Nat) /\ pendingOut' \in Seq(Nat)
      /\ socket' \o pendingOut' = socket \o pendingOut
  BY <1>1, <1>3, <1>4, Zenon
<1>6. rx' \in Seq(Nat) /\ rx' \o (socket' \o pendingOut') =
                          rx \o (socket \o pendingOut)
  BY <1>1, <1>2, <1>5, Zenon
<1>. QED  BY <1>1, <1>5, <1>6, OutMove, Zenon

(* recv() of the client.                                                   *)
LEMMA ReceiveStep ==
  ASSUME OutInv, NEW k \in Nat, T!Recv(k)  PROVE OutInv'
<1>1. /\ k \in 0 .. Len(socket)
      /\ rx' = rx \o SubSeq(socket, 1, k)
      /\ socket' = SubSeq(socket, k + 1, Len(socket))
      /\ UNCHANGED <<got, open, handled, pendingOut>>
  BY DEF T!Recv, T!serverVars
<1>2. socket \in Seq(Nat) /\ pendingOut \in Seq(Nat) /\ rx \in Seq(Nat)
  BY Zenon DEF OutInv, OutType
<1>3. /\ SubSeq(socket, k + 1, Len(socket)) \in Seq(Nat)
      /\ rx \o SubSeq(socket, 1, k) \in Seq(Nat)
      /\ (rx \o SubSeq(socket, 1, k)) \o SubSeq(socket, k + 1, Len(socket))
         = rx \o socket
  BY <1>1, <1>2, ReadOn, Zenon
<1>4. /\ rx' \in Seq(Nat) /\ socket' \in Seq(Nat) /\ pendingOut' \in Seq(Nat)
      /\ rx' \o socket' = rx \o socket
  BY <1>1, <1>2, <1>3, Zenon
<1>5. /\ (rx' \o socket') \o pendingOut' = rx' \o (socket' \o pendingOut')
      /\ (rx \o socket) \o pendingOut = rx \o (socket \o pendingOut)
  <2>1. (rx' \o socket') \o pendingOut' = rx' \o (socket' \o pendingOut')
    BY <1>4, Associative, ZenonT(30)
  <2>2. (rx \o socket) \o pendingOut = rx \o (socket \o pendingOut)
    BY <1>2, Associative, ZenonT(30)
  <2>. QED  BY <2>1, <2>2, Zenon
<1>6. rx' \o (socket' \o pendingOut') = rx \o (socket \o pendingOut)
  BY <1>1, <1>4, <1>5, Zenon
<1>. QED  BY <1>1, <1>4, <1>6, OutMove, Zenon

(* The server closes its end, and pending_out goes with it.                *)
LEMMA CloseStep ==
  ASSUME OutInv, open' = FALSE, pendingOut' = <<>>,
         UNCHANGED <<got, handled, rx, socket>>
  PROVE  OutInv'
<1>0. socket \in Seq(Nat) /\ pendingOut \in Seq(Nat) /\ rx \in Seq(Nat)
      /\ got \in Seq(Event)
  BY Zenon DEF OutInv, OutType
<1>1. OutType'
  BY <1>0 DEF OutType
<1>. DEFINE q == rx \o (socket \o pendingOut)
            r == rx' \o (socket' \o pendingOut')
<1>2. PICK ms, b, c : FlowOf(ms, b, c, q)
  BY Zenon DEF OutInv, OutFlow
<1>3. /\ r = rx \o socket /\ q = (rx \o socket) \o pendingOut
      /\ rx \o socket \in Seq(Nat)
  <2>1. rx \o socket \in Seq(Nat)
    BY <1>0, ConcatProperties, Zenon
  <2>2. socket \o <<>> = socket
    BY <1>0
  <2>3. (rx \o socket) \o pendingOut = rx \o (socket \o pendingOut)
    BY <1>0, Associative, Zenon
  <2>. QED  BY <2>1, <2>2, <2>3, Zenon
<1>. HIDE DEF q, r
<1>4. b \in Seq(Nat) /\ c[Len(got)] \in Nat
  <2>1. /\ Cuts(b, ms, c) /\ ms \in Seq(Event) /\ Len(got) <= Len(ms)
        /\ Len(got) \in Nat /\ Len(ms) \in Nat
    BY <1>0, <1>2, LenProperties, Zenon DEF FlowOf
  <2>. QED  BY <2>1 DEF Cuts
<1>5. Holds((rx \o socket) \o pendingOut, b, c[Len(got)])
  BY <1>2, <1>3, Zenon DEF FlowOf
<1>6. Holds(r, b, c[Len(got')])
  BY <1>0, <1>3, <1>4, <1>5, HoldsPrefix, Zenon
<1>7. /\ ms \in Seq(Event) /\ Len(ms) <= Len(handled')
      /\ \A i \in 1 .. Len(ms) : ms[i] = handled'[i]
      /\ Len(got') <= Len(ms)
      /\ Cuts(b, ms, c) /\ ~open'
  BY <1>2, Zenon DEF FlowOf
<1>8. OutFlow'
  BY <1>6, <1>7, Zenon DEF OutFlow, FlowOf, r
<1>. QED  BY <1>1, <1>8, Zenon DEF OutInv

(* handle_wake pops an event when the client is gone.                      *)
LEMMA DiscardStep ==
  ASSUME OutInv, ~open, handled \in Seq(Event), NEW e \in Event,
         handled' = Append(handled, e),
         UNCHANGED <<got, open, rx, socket, pendingOut>>
  PROVE  OutInv'
<1>1. OutType'
  BY Zenon DEF OutInv, OutType
<1>2. PICK ms, b, c : FlowOf(ms, b, c, rx \o (socket \o pendingOut))
  BY Zenon DEF OutInv, OutFlow
<1>3. /\ Len(handled') = Len(handled) + 1
      /\ \A i \in 1 .. Len(handled) : handled'[i] = handled[i]
      /\ Len(handled) \in Nat
  BY AppendProperties, LenProperties
<1>4. /\ ms \in Seq(Event) /\ Len(ms) <= Len(handled) /\ Len(ms) \in Nat
      /\ \A i \in 1 .. Len(ms) : ms[i] = handled[i]
  BY <1>2, LenProperties, Zenon DEF FlowOf
<1>5. Len(ms) <= Len(handled')
  BY <1>3, <1>4
<1>6. \A i \in 1 .. Len(ms) : ms[i] = handled'[i]
  <2>1. \A i \in 1 .. Len(ms) : i \in 1 .. Len(handled)
    BY <1>3, <1>4
  <2>. QED  BY <1>3, <1>4, <2>1, Zenon
<1>7. OutFlow'
  BY <1>2, <1>5, <1>6, Zenon DEF OutFlow, FlowOf
<1>. QED  BY <1>1, <1>7, Zenon DEF OutInv

(* handle_wake pops an event and broadcasts it.                            *)
LEMMA BroadcastStep ==
  ASSUME OutInv, open, handled \in Seq(Event), NEW e \in Event,
         handled' = Append(handled, e), pendingOut' = pendingOut \o Frame(e),
         UNCHANGED <<got, open, rx, socket>>
  PROVE  OutInv'
<1>. DEFINE f == Frame(e)
            q == rx \o (socket \o pendingOut)
            r == rx' \o (socket' \o pendingOut')
            n == Len(got)
<1>0. /\ socket \in Seq(Nat) /\ pendingOut \in Seq(Nat) /\ rx \in Seq(Nat)
      /\ got \in Seq(Event) /\ n \in Nat /\ f \in Seq(Nat) /\ e \in Message
  BY EventFact, FrameFact, LenProperties, Zenon DEF OutInv, OutType
<1>1. OutType'
  <2>1. pendingOut' \in Seq(Nat)
    BY <1>0, ConcatProperties, Zenon
  <2>. QED  BY <1>0, <2>1, Zenon DEF OutType
<1>2. PICK ms, b, c : FlowOf(ms, b, c, q)
  BY Zenon DEF OutInv, OutFlow
<1>3. r = q \o f /\ q \in Seq(Nat)
  <2>1. socket \o pendingOut \in Seq(Nat) /\ rx \o (socket \o pendingOut) \in Seq(Nat)
    BY <1>0, ConcatProperties, Zenon
  <2>. HIDE DEF f
  <2>2. socket \o (pendingOut \o f) = (socket \o pendingOut) \o f
    BY <1>0, Associative, ZenonT(30)
  <2>3. rx \o ((socket \o pendingOut) \o f) = (rx \o (socket \o pendingOut)) \o f
    BY <1>0, <2>1, Associative, ZenonT(30)
  <2>4. pendingOut' = pendingOut \o f
    BY Zenon DEF f
  <2>. QED  BY <2>1, <2>2, <2>3, <2>4, Zenon
<1>. HIDE DEF q, r, f, n
<1>4. /\ ms \in Seq(Event) /\ ms \in Seq(Message) /\ Len(ms) = Len(handled)
      /\ \A i \in 1 .. Len(ms) : ms[i] = handled[i]
      /\ n \in 0 .. Len(ms) /\ Cuts(b, ms, c)
      /\ Holds(q, b, c[n]) /\ c[n] + Len(q) = Len(b)
  <2>1. /\ ms \in Seq(Event) /\ Len(ms) = Len(handled)
        /\ \A i \in 1 .. Len(ms) : ms[i] = handled[i]
        /\ n <= Len(ms) /\ Cuts(b, ms, c)
        /\ Holds(q, b, c[n]) /\ c[n] + Len(q) = Len(b)
    BY <1>2, Zenon DEF FlowOf, n
  <2>2. Len(ms) \in Nat /\ ms \in Seq(Message)
    BY <2>1, LenProperties, EventFact, Zenon
  <2>3. n \in 0 .. Len(ms)
    BY <1>0, <2>1, <2>2
  <2>. QED  BY <2>1, <2>2, <2>3, Zenon
<1>5. b \in Seq(Nat) /\ c[n] \in Nat
  <2>1. /\ n \in 0 .. Len(ms) /\ b \in Seq(Nat) /\ Len(b) \in Nat
        /\ c \in [0 .. Len(ms) -> 0 .. Len(b)]
    BY <1>4, LenProperties, Zenon DEF Cuts
  <2>2. c[n] \in 0 .. Len(b)
    BY <2>1, Zenon
  <2>. QED  BY <2>1, <2>2
<1>6. PICK d : /\ Cuts(b \o f, Append(ms, e), d)
               /\ \A i \in 0 .. Len(ms) : d[i] = c[i]
  BY <1>0, <1>4, CutsAppend DEF f
<1>7. d[n] = c[n]
  BY <1>4, <1>6, Zenon
<1>8. Holds(r, b \o f, d[n]) /\ d[n] + Len(r) = Len(b \o f)
  <2>1. Holds(q \o f, b \o f, c[n]) /\ c[n] + Len(q \o f) = Len(b \o f)
    <3>1. q \in Seq(Nat) /\ f \in Seq(Nat) /\ b \in Seq(Nat)
      BY <1>0, <1>3, <1>5, Zenon
    <3>2. PICK k \in Nat : k = c[n]
      BY <1>5, Zenon
    <3>3. Holds(q, b, k) /\ k + Len(q) = Len(b)
      BY <1>4, <3>2, Zenon
    <3>4. Holds(q \o f, b \o f, k) /\ k + Len(q \o f) = Len(b \o f)
      BY <3>1, <3>3, HoldsAppend
    <3>. QED  BY <3>2, <3>4, Zenon
  <2>. QED  BY <1>3, <1>7, <2>1, Zenon
<1>. DEFINE t == Append(ms, e)
<1>9. /\ t \in Seq(Event) /\ Len(t) = Len(handled') /\ Len(t) = Len(ms) + 1
      /\ Len(t) \in Nat
      /\ \A i \in 1 .. Len(t) : t[i] = handled'[i]
  <2>1. /\ t \in Seq(Event) /\ Len(t) = Len(ms) + 1
        /\ \A i \in 1 .. Len(ms) : t[i] = ms[i]
        /\ t[Len(ms) + 1] = e
    BY <1>4, AppendProperties
  <2>2. /\ Len(handled') = Len(handled) + 1
        /\ \A i \in 1 .. Len(handled) : handled'[i] = handled[i]
        /\ handled'[Len(handled) + 1] = e
    BY AppendProperties
  <2>3. Len(t) \in Nat /\ Len(ms) \in Nat
    BY <1>4, <2>1, LenProperties, Zenon
  <2>. HIDE DEF t
  <2>4. \A i \in 1 .. Len(ms) + 1 : i \in 1 .. Len(ms) \/ i = Len(ms) + 1
    BY <2>3
  <2>5. \A i \in 1 .. Len(t) : t[i] = handled'[i]
    <3>. SUFFICES ASSUME NEW i \in 1 .. Len(ms) + 1  PROVE t[i] = handled'[i]
      BY <2>1, Zenon
    <3>1. CASE i = Len(ms) + 1
      BY <1>4, <2>1, <2>2, <3>1, Zenon
    <3>2. CASE i \in 1 .. Len(ms)
      BY <1>4, <2>1, <2>2, <3>2, Zenon
    <3>. QED  BY <2>4, <3>1, <3>2, Zenon
  <2>. QED  BY <1>4, <2>1, <2>2, <2>3, <2>5, Zenon
<1>. HIDE DEF t
<1>10. n <= Len(t) /\ Len(t) <= Len(handled')
  BY <1>0, <1>4, <1>9
<1>11. Cuts(b \o f, t, d)
  BY <1>6, Zenon DEF t
<1>12. Len(got') = n
  BY Zenon DEF n
<1>13. OutFlow'
  BY <1>8, <1>9, <1>10, <1>11, <1>12, Zenon DEF OutFlow, FlowOf, r
<1>. QED  BY <1>1, <1>13, Zenon DEF OutInv

(* dispatch_tcp_frame: the frame is that of the next event popped.         *)
LEMMA DispatchStep ==
  ASSUME OutInv, handled \in Seq(Event), T!DispatchFrame
  PROVE  /\ OutInv'
         /\ Len(got) < Len(handled)
         /\ got' = Append(got, handled[Len(got) + 1])
<1>. DEFINE n == Len(got)
            w == socket \o pendingOut
            m == FirstFrame(rx)
            h == Header + PayloadLen(rx)
<1>0. /\ HasFrame(rx) /\ rx' = AfterFrame(rx)
      /\ got' = IF m.type \in {e.type : e \in Event} THEN Append(got, m)
                ELSE got
      /\ UNCHANGED <<open, handled, socket, pendingOut>>
  BY SameFrames, Zenon DEF T!DispatchFrame, T!serverVars
<1>1. /\ socket \in Seq(Nat) /\ pendingOut \in Seq(Nat) /\ rx \in Seq(Nat)
      /\ got \in Seq(Event) /\ n \in Nat /\ w \in Seq(Nat)
      /\ Len(handled) \in Nat
  BY ConcatProperties, LenProperties, Zenon DEF OutInv, OutType
<1>2. PICK ms, b, c : FlowOf(ms, b, c, rx \o w)
  BY Zenon DEF OutInv, OutFlow
<1>. HIDE DEF w, m, h, n
<1>3. /\ ms \in Seq(Event) /\ ms \in Seq(Message) /\ Len(ms) <= Len(handled)
      /\ \A i \in 1 .. Len(ms) : ms[i] = handled[i]
      /\ open => Len(ms) = Len(handled)
      /\ n \in 0 .. Len(ms) /\ Cuts(b, ms, c) /\ Len(ms) \in Nat
      /\ Holds(rx \o w, b, c[n])
      /\ open => c[n] + Len(rx \o w) = Len(b)
  <2>1. /\ ms \in Seq(Event) /\ Len(ms) <= Len(handled)
        /\ \A i \in 1 .. Len(ms) : ms[i] = handled[i]
        /\ open => Len(ms) = Len(handled)
        /\ n <= Len(ms) /\ Cuts(b, ms, c)
        /\ Holds(rx \o w, b, c[n])
        /\ open => c[n] + Len(rx \o w) = Len(b)
    BY <1>2, Zenon DEF FlowOf, n
  <2>2. Len(ms) \in Nat /\ ms \in Seq(Message)
    BY <2>1, LenProperties, EventFact, Zenon
  <2>3. n \in 0 .. Len(ms)
    BY <1>1, <2>1, <2>2
  <2>. QED  BY <2>1, <2>2, <2>3, Zenon
<1>4. b \in Seq(Nat) /\ c[n] \in Nat
  <2>1. b \in Seq(Nat) /\ c \in [0 .. Len(ms) -> 0 .. Len(b)]
    BY <1>3, Zenon DEF Cuts
  <2>2. 0 .. Len(b) \subseteq Nat
    BY <2>1
  <2>3. c[n] \in 0 .. Len(b)
    BY <1>3, <2>1, Zenon
  <2>. QED  BY <2>1, <2>2, <2>3, Zenon
<1>5. Holds(rx, b, c[n])
  BY <1>1, <1>3, <1>4, HoldsPrefix, Zenon
<1>6. /\ n < Len(ms) /\ m = ms[n + 1] /\ h \in 3 .. Len(rx)
      /\ c[n + 1] = c[n] + h
  BY <1>0, <1>1, <1>3, <1>5, NextFrame DEF m, h
<1>7. n + 1 \in 1 .. Len(ms) /\ m \in Event /\ m = handled[n + 1]
  <2>1. n \in 0 .. Len(ms) /\ Len(ms) \in Nat /\ n < Len(ms)
    BY <1>3, <1>6, Zenon
  <2>2. n + 1 \in 1 .. Len(ms)
    BY <2>1
  <2>. QED  BY <1>3, <1>6, <2>2, ElementOfSeq, Zenon
<1>8. got' = Append(got, m)
  BY <1>0, <1>7, Zenon
<1>9. /\ Len(got) < Len(handled)
      /\ got' = Append(got, handled[Len(got) + 1])
  <2>1. n < Len(handled)
    BY <1>1, <1>3, <1>6
  <2>. QED  BY <1>7, <1>8, <2>1, Zenon DEF n
<1>10. rx' = Erased(rx, h) /\ h \in 0 .. Len(rx)
  <2>1. h \in 0 .. Len(rx)
    BY <1>1, <1>6, LenProperties
  <2>. QED  BY <1>0, <2>1, Zenon DEF AfterFrame, Erased, h
<1>11. /\ rx' \in Seq(Nat) /\ Holds(rx' \o w, b, c[n + 1])
       /\ c[n + 1] + Len(rx' \o w) = c[n] + Len(rx \o w)
  <2>1. PICK k \in Nat : k = c[n]
    BY <1>4, Zenon
  <2>2. /\ Erased(rx, h) \in Seq(Nat) /\ Holds(Erased(rx, h) \o w, b, k + h)
        /\ k + h + Len(Erased(rx, h) \o w) = k + Len(rx \o w)
    <3>1. rx \in Seq(Nat) /\ w \in Seq(Nat) /\ b \in Seq(Nat)
      BY <1>1, <1>4, Zenon
    <3>2. Holds(rx \o w, b, k) /\ h \in 0 .. Len(rx)
      BY <1>3, <1>10, <2>1, Zenon
    <3>. QED  BY <3>1, <3>2, HoldsAfter
  <2>. QED  BY <1>6, <1>10, <2>1, <2>2, Zenon
<1>12. got' \in Seq(Event) /\ Len(got') = n + 1
  BY <1>1, <1>7, <1>8, AppendProperties, Zenon DEF n
<1>13. OutType'
  BY <1>0, <1>1, <1>11, <1>12, Zenon DEF OutType
<1>14. n + 1 <= Len(ms)
  BY <1>1, <1>3, <1>6
<1>15. open' => c[n + 1] + Len(rx' \o w) = Len(b)
  BY <1>0, <1>3, <1>11, Zenon
<1>16. w = socket' \o pendingOut'
  BY <1>0, Zenon DEF w
<1>17. OutFlow'
  <2>1. /\ ms \in Seq(Event) /\ Len(ms) <= Len(handled')
        /\ \A i \in 1 .. Len(ms) : ms[i] = handled'[i]
        /\ open' => Len(ms) = Len(handled')
        /\ Len(got') <= Len(ms)
        /\ Cuts(b, ms, c)
    BY <1>0, <1>3, <1>12, <1>14, Zenon
  <2>2. /\ Holds(rx' \o (socket' \o pendingOut'), b, c[Len(got')])
        /\ open' => c[Len(got')] + Len(rx' \o (socket' \o pendingOut'))
                    = Len(b)
    BY <1>11, <1>12, <1>15, <1>16, Zenon
  <2>. QED  BY <2>1, <2>2, Zenon DEF OutFlow, FlowOf
<1>. QED  BY <1>9, <1>13, <1>17, Zenon DEF OutInv

(* What a step can do to the stream.                                       *)
LEMMA StreamSteps ==
  ASSUME TypeOK, OutInv, [PipelineNext]_allVars
  PROVE  \/ /\ OutInv' /\ got' = got
            /\ \/ UNCHANGED <<queue, handled>>
               \/ \E e \in Event : PushEvent(e)
               \/ PopEvent
         \/ /\ T!DispatchFrame /\ UNCHANGED <<queue, handled>>
            /\ OutInv'
<1>. USE DEF streamVars, vars
<1>0. handled \in Seq(Event) /\ queue \in Seq(Event)
  BY Zenon DEF TypeOK
<1>1. CASE SimStarts \/ SimTest \/ TickEnds \/ NetStarts \/ NetTest \/ NetWait
           \/ WakeReads \/ WakeEnds \/ NetReads \/ StopNet \/ StopSim
           \/ UNCHANGED allVars
  <2>1. UNCHANGED <<rx, socket, pendingOut, got, open, handled, queue>>
    BY <1>1, Zenon
       DEF SimStarts, SimTest, TickEnds, NetStarts, NetTest, NetWait,
       WakeReads, WakeEnds, NetReads, StopNet, StopSim, allVars, WriteEventfd,
       Poll, ReadEventfd, ReadNothing, PopNothing
  <2>. QED  BY <2>1, OutQuiet, Zenon
<1>2. CASE \E e \in Event : TickPushes(e)
  <2>1. PICK e \in Event : TickPushes(e)
    BY <1>2, Zenon
  <2>2. PushEvent(e) /\ UNCHANGED <<rx, socket, pendingOut, got, open, handled>>
    BY <2>1, Zenon DEF TickPushes, PushEvent
  <2>. QED  BY <2>2, OutQuiet, Zenon
<1>3. CASE WakePops
  <2>1. PopEvent /\ handled' = Append(handled, Head(queue)) /\ queue # <<>>
    BY <1>3, Zenon DEF WakePops, PopEvent
  <2>2. Head(queue) \in Event
    BY <1>0, <2>1, HeadTailProperties, Zenon
  <2>3. CASE open
    <3>1. T!Broadcast(Head(queue))
      BY <1>3, <2>3, Zenon DEF WakePops
    <3>2. /\ pendingOut' = pendingOut \o Frame(Head(queue))
          /\ UNCHANGED <<got, open, rx, socket>>
      BY <3>1, SameFrames, Zenon DEF T!Broadcast, T!clientVars
    <3>. QED  BY <1>0, <2>1, <2>2, <2>3, <3>2, BroadcastStep, Zenon
  <2>4. CASE ~open
    <3>1. UNCHANGED <<got, open, rx, socket, pendingOut>>
      BY <1>3, <2>4, Zenon DEF WakePops
    <3>. QED  BY <1>0, <2>1, <2>2, <2>4, <3>1, DiscardStep, Zenon
  <2>. QED  BY <2>3, <2>4, Zenon
<1>4. CASE NetWrites
  <2>1. /\ T!FlushPending \/ UNCHANGED <<rx, socket, pendingOut, got, open>>
        /\ UNCHANGED <<queue, handled>>
    BY <1>4, Zenon DEF NetWrites
  <2>2. got' = got
    BY <2>1, Zenon DEF T!FlushPending, T!clientVars
  <2>. QED  BY <2>1, <2>2, FlushStep, OutQuiet, Zenon
<1>5. CASE NetSweeps
  <2>1. /\ \/ T!EnforcePendingCap
           \/ UNCHANGED <<rx, socket, pendingOut, got, open>>
        /\ UNCHANGED <<queue, handled>>
    BY <1>5, Zenon DEF NetSweeps
  <2>2. CASE T!EnforcePendingCap
    <3>1. /\ open' = FALSE /\ pendingOut' = <<>>
          /\ UNCHANGED <<got, rx, socket>>
      BY <2>2, Zenon DEF T!EnforcePendingCap, T!clientVars
    <3>. QED  BY <2>1, <3>1, CloseStep, Zenon
  <2>3. CASE UNCHANGED <<rx, socket, pendingOut, got, open>>
    BY <2>1, <2>3, OutQuiet, Zenon
  <2>. QED  BY <2>1, <2>2, <2>3, Zenon
<1>6. CASE Exit
  <2>1. /\ open' = FALSE /\ pendingOut' = <<>>
        /\ UNCHANGED <<got, rx, socket, queue, handled>>
    BY <1>6, Zenon DEF Exit
  <2>. QED  BY <2>1, CloseStep, Zenon
<1>7. CASE ClientRecv
  <2>1. PICK k \in 1 .. SockBuf : T!Recv(k)
    BY <1>7, Zenon DEF ClientRecv
  <2>2. k \in Nat
    OBVIOUS
  <2>3. got' = got /\ UNCHANGED <<queue, handled>>
    BY <1>7, <2>1, Zenon DEF ClientRecv, T!Recv
  <2>. QED  BY <2>1, <2>2, <2>3, ReceiveStep, Zenon
<1>8. CASE ClientStep
  <2>1. /\ T!RecvNothing \/ T!RecvClosed \/ T!DispatchFrame \/ T!DispatchNothing
        /\ UNCHANGED <<queue, handled>>
    BY <1>8, Zenon DEF ClientStep
  <2>2. CASE T!RecvNothing \/ T!RecvClosed \/ T!DispatchNothing
    <3>1. UNCHANGED <<rx, socket, pendingOut, got, open>>
      BY <2>2, Zenon
         DEF T!RecvNothing, T!RecvClosed, T!DispatchNothing, T!serverVars
    <3>. QED  BY <2>1, <3>1, OutQuiet, Zenon
  <2>3. CASE T!DispatchFrame
    BY <1>0, <2>1, <2>3, DispatchStep, Zenon
  <2>. QED  BY <2>1, <2>2, <2>3, Zenon
<1>. QED
  BY <1>1, <1>2, <1>3, <1>4, <1>5, <1>6, <1>7, <1>8
  DEF PipelineNext, SimStep, NetStep

(* Looking up an element of the first part of a concatenation.             *)
LEMMA InFirst ==
  ASSUME NEW s \in Seq(Event), NEW t \in Seq(Event), NEW n \in Nat, n < Len(s)
  PROVE  n < Len(s \o t) /\ (s \o t)[n + 1] = s[n + 1]
OBVIOUS

(* From the tick to the client's dispatch: the server's threads, its queue *)
(* and the stream implement the channel; every step of the whole pipeline  *)
(* is a send, a receipt of the next event, or neither.                     *)
THEOREM PipelineInOrder == PipelineSpec => InOrder
<1>1. PipelineInit => OutInv /\ Whole!Init
  <2>. SUFFICES ASSUME PipelineInit  PROVE OutInv /\ Whole!Init
    BY Zenon
  <2>1. /\ handled = <<>> /\ queue = <<>> /\ pendingOut = <<>>
        /\ socket = <<>> /\ rx = <<>> /\ got = <<>>
    BY Zenon DEF PipelineInit, Init, T!Init
  <2>2. OutType /\ Whole!Init
    BY <2>1 DEF OutType, Whole!Init
  <2>. DEFINE c == [i \in 0 .. 0 |-> 0]
  <2>3. Cuts(<<>>, <<>>, c)
    BY CutsEmpty, Zenon
  <2>4. /\ rx \o (socket \o pendingOut) = <<>> /\ c[Len(got)] = 0
        /\ Len(got) = 0 /\ Len(handled) = 0
    BY <2>1
  <2>5. Holds(<<>>, <<>>, 0)
    BY DEF Holds
  <2>. HIDE DEF c
  <2>6. FlowOf(<<>>, <<>>, c, <<>>)
    BY <2>1, <2>3, <2>4, <2>5 DEF FlowOf
  <2>. QED  BY <2>2, <2>4, <2>6, Zenon DEF OutInv, OutFlow
<1>2. TypeOK /\ OutInv /\ [PipelineNext]_allVars
        => OutInv' /\ [Whole!Next]_<<handled \o queue, got>>
  <2>. SUFFICES ASSUME TypeOK, OutInv, [PipelineNext]_allVars
                PROVE  OutInv' /\ [Whole!Next]_<<handled \o queue, got>>
    BY Zenon
  <2>0. handled \in Seq(Event) /\ queue \in Seq(Event)
    BY Zenon DEF TypeOK
  <2>. SUFFICES [Whole!Next]_<<handled \o queue, got>>
    BY StreamSteps, Zenon
  <2>1. CASE got' = got /\ UNCHANGED <<queue, handled>>
    BY <2>1, Zenon
  <2>2. ASSUME NEW e \in Event, PushEvent(e), got' = got
        PROVE  [Whole!Next]_<<handled \o queue, got>>
    <3>1. handled' = handled /\ queue' = Append(queue, e)
      BY <2>2, Zenon DEF PushEvent, Enqueue
    <3>2. handled' \o queue' = Append(handled \o queue, e)
      BY <2>0, <3>1, AppendConcat
    <3>. QED  BY <2>2, <3>2, Zenon DEF Whole!Next, Whole!Send
  <2>3. CASE PopEvent /\ got' = got
    <3>1. /\ queue # <<>> /\ handled' = Append(handled, Head(queue))
          /\ queue' = Tail(queue)
      BY <2>3, Zenon DEF PopEvent
    <3>2. handled' \o queue' = handled \o queue
      BY <2>0, <3>1, MoveHead, Zenon
    <3>. QED  BY <2>3, <3>2, Zenon
  <2>4. CASE T!DispatchFrame /\ UNCHANGED <<queue, handled>>
    <3>1. /\ Len(got) < Len(handled)
          /\ got' = Append(got, handled[Len(got) + 1])
      BY <2>0, <2>4, DispatchStep, Zenon
    <3>2. Len(got) \in Nat
      BY LenProperties, Zenon DEF OutInv, OutType
    <3>3. /\ Len(got) < Len(handled \o queue)
          /\ (handled \o queue)[Len(got) + 1] = handled[Len(got) + 1]
      BY <2>0, <3>1, <3>2, InFirst, Zenon
    <3>4. (handled \o queue)' = handled \o queue
      BY <2>4, Zenon
    <3>. QED  BY <3>1, <3>3, <3>4, Zenon DEF Whole!Next, Whole!Receive
  <2>. QED  BY <2>1, <2>2, <2>3, <2>4, StreamSteps, Zenon
<1>3. PipelineSpec => []TypeOK
  BY RefinesQueue, TypeCorrect, PTL
<1>. QED  BY <1>1, <1>2, <1>3, PTL DEF PipelineSpec, InOrder, Whole!Spec
=============================================================================
