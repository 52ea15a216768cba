------------------------------ MODULE Playback -------------------------------
(***************************************************************************)
(* What a client draws of the snapshot stream (client/main.cpp,            *)
(* client/interpolation.cpp, client/render_policy.h).  The snapshots that  *)
(* DeltaSnapshot's client accepts go into a ring; every frame moves        *)
(* render_tick_ on, a little faster or slower than the clock, and draws    *)
(* each player of the newest arrival where it was at that time.            *)
(*                                                                         *)
(* poll() and push_snapshot() belong to one frame of one thread and are    *)
(* one step per datagram here; advance() is another.  latest_snapshot of   *)
(* main() is what was accepted last, which is `cache'.  bootstrapped_ says *)
(* that the ring is not empty, since it never empties again.               *)
(***************************************************************************)
EXTENDS DeltaSnapshot

CONSTANTS
  RingSize,        \* kSnapshotRingSize
  Delay,           \* kInterpolationDelayTicks
  Frames,          \* lengths of a frame, in ticks
  Part,            \* render_tick_ counts in this fraction of a tick
  Hurry, Hold      \* the rates 1.02 and 0.98, in parts

ASSUME PlaybackAssumption ==
  /\ RingSize \in Nat \ {0}
  /\ Delay \in Nat
  /\ Frames \subseteq Nat
  /\ Part \in Nat \ {0}
  /\ Hurry \in Nat /\ Hold \in Nat

VARIABLES
  ring,            \* ring_: snapshots, oldest first
  render           \* render_tick_, in parts of a tick

playVars == <<vars, ring, render>>

PlaybackInit == Init /\ ring = <<>> /\ render = 0

At(snap) == snap.tick * Part

-----------------------------------------------------------------------------
(* The ring *)

(* RingBuffer::back. *)
Newest == ring[Len(ring)]

(* RingBuffer::push_back. *)
PushBack(r, snap) ==
  Append(IF Len(r) = RingSize THEN Tail(r) ELSE r, snap)

(* Mutant: every snapshot bootstraps render_tick_. *)
PushSnapshotAgain(snap) ==
  IF ring # <<>> /\ snap.tick <= Newest.tick
  THEN UNCHANGED <<ring, render>>
  ELSE /\ ring' = PushBack(ring, snap)
       /\ render' = Max({At(snap) - Delay * Part, 0})

(* push_snapshot. *)
PushSnapshot(snap) ==
  IF ring # <<>> /\ snap.tick <= Newest.tick
  THEN UNCHANGED <<ring, render>>
  ELSE /\ ring' = PushBack(ring, snap)
       /\ render' = IF ring = <<>> THEN Max({At(snap) - Delay * Part, 0})
                                   ELSE render

-----------------------------------------------------------------------------
(* A frame *)

(* A datagram of poll(), and what main() does with its snapshot. *)
Receive(d) ==
  /\ Deliver(d)
  /\ IF Accepted(d) THEN PushSnapshot(cache') ELSE UNCHANGED <<ring, render>>

Rate ==
  LET depth == At(Newest) - render
  IN  CASE depth > Delay * Part -> Hurry
        [] depth < Delay * Part -> Hold
        [] OTHER -> Part

(* advance. *)
Advance(dt) ==
  /\ ring # <<>>
  /\ render' = Max({Min({render + Rate * dt, At(Newest)}),
                    At(Head(ring))})
  /\ UNCHANGED <<vars, ring>>

PlaybackNext ==
  \/ \E w \in Worlds : Publish(w) /\ UNCHANGED <<ring, render>>
  \/ SkipPublish /\ UNCHANGED <<ring, render>>
  \/ \E d \in net : Receive(d)
  \/ \E dt \in Frames : Advance(dt)

PlaybackSpec == PlaybackInit /\ [][PlaybackNext]_playVars

-----------------------------------------------------------------------------
(* What is drawn *)

(* find_player: the slots that hold the player, and the first of them; a   *)
(* null pointer is returned if there is none.                              *)
SlotsOf(snap, id) == {i \in 1 .. snap.count : snap.slots[i].id = id}

HasPlayer(snap, id) == SlotsOf(snap, id) # {}

(* Mutant: the last slot in use is taken for the player's. *)
FindPlayerInLast(snap, id) == snap.slots[snap.count]

FindPlayer(snap, id) == snap.slots[Min(SlotsOf(snap, id))]

(* lerp_i32, at the fraction num/den of the way. *)
Lerp(a, b, num, den) == (2 * (a * den + (b - a) * num) + den) \div (2 * den)

(* sample: the last snapshot of the ring that is due, and the one after    *)
(* it.  A discrete field is taken from the nearer one; a player neither    *)
(* has is a PlayerState{}.                                                 *)
Due ==
  Max({1} \cup {i \in DOMAIN ring : \A j \in 1 .. i : At(ring[j]) <= render})

Coming == Min({Due + 1, Len(ring)})

Sample(id) ==
  LET a == ring[Due]
      b == ring[Coming]
      pa == FindPlayer(a, id)
      pb == FindPlayer(b, id)
      den == At(b) - At(a)
      num == Max({0, Min({den, render - At(a)})})
  IN  IF ~HasPlayer(a, id) THEN IF HasPlayer(b, id) THEN pb ELSE Blank
      ELSE IF ~HasPlayer(b, id) \/ Due = Coming THEN pa
      ELSE [(IF 2 * num < den THEN pa ELSE pb)
              EXCEPT !.pos = Lerp(pa.pos, pb.pos, num, den)]

(* resolve_remote_state, with interpolation on. *)
Drawn(raw) ==
  LET interp == Sample(raw.id)
  IN  IF interp.id = raw.id THEN interp ELSE raw

-----------------------------------------------------------------------------
(* Properties *)

(* Playback never runs backwards, though old keyframes arrive late, the    *)
(* ring overflows and frames are long or short.                            *)
PlaybackForward == [][render' >= render]_playVars

(* Neither of the two snapshots that sample() blends has the player. *)
Missing(id) == ~HasPlayer(ring[Due], id) /\ ~HasPlayer(ring[Coming], id)

(* p shows player id where publish m has it, or on the way from there to   *)
(* where publish n has it, if the time drawn is between the two.           *)
Shown(p, id, m, n) ==
  LET a == FindPlayer(Rounded(published[m]), id)
      b == FindPlayer(Rounded(published[n]), id)
  IN  /\ p.id = id
      /\ published[n].tick <= Newest.tick
      /\ \/ m = n
         \/ At(published[m]) <= render /\ render <= At(published[n])
      /\ HasPlayer(Rounded(published[m]), id)
      /\ HasPlayer(Rounded(published[n]), id)
      /\ Min({a.pos, b.pos}) <= p.pos
      /\ p.pos <= Max({a.pos, b.pos})
      /\ p.hp \in {a.hp, b.hp}

(* A remote player is drawn only where the server has put it, or on the    *)
(* way between two such places around the time drawn, and never with       *)
(* another player's place or health: across losses, players who come and   *)
(* go between two snapshots of the ring, slots that change hands, and an   *)
(* old keyframe that names players the ring no longer has.  A player whom  *)
(* sample() does not find is drawn as it arrived, but for player 0: the    *)
(* PlayerState{} that sample() returns has its id, resolve_remote_state    *)
(* takes it for found, and draws it.                                       *)
DrawnFromPublishes ==
  ring # <<>> =>
    \A i \in 1 .. cache.count :
      LET raw == cache.slots[i]
          p == Drawn(raw)
      IN  IF raw.id = 0 /\ Missing(0) THEN p = Blank
          ELSE \E m, n \in DOMAIN published : Shown(p, raw.id, m, n)
=============================================================================
