--------------------------- MODULE PlaybackProofs ----------------------------
(***************************************************************************)
(* For any players, worlds, losses and reorderings: what the client holds  *)
(* is a snapshot the server published, it drops at most a keyframe         *)
(* interval of them in a row, playback never runs backwards, and what is   *)
(* drawn lies between the two publishes around the render clock.           *)
(***************************************************************************)
EXTENDS Playback, FiniteSetTheorems, WellFoundedInduction, NaturalsInduction,
        TLAPS

(* The larger of two numbers. *)
LEMMA MaxOfTwo ==
  ASSUME NEW a \in Int, NEW b \in Int
  PROVE  Max({a, b}) = IF a >= b THEN a ELSE b
<1>1. \A x \in {a, b} : (\A y \in {a, b} : x >= y) <=> x = IF a >= b THEN a ELSE b
  OBVIOUS
<1>. QED  BY <1>1, Zenon DEF Max

(* The smaller of two numbers. *)
LEMMA MinOfTwo ==
  ASSUME NEW a \in Int, NEW b \in Int
  PROVE  Min({a, b}) = IF a =< b THEN a ELSE b
<1>1. \A x \in {a, b} : (\A y \in {a, b} : x =< y) <=> x = IF a =< b THEN a ELSE b
  OBVIOUS
<1>. QED  BY <1>1, Zenon DEF Min

-----------------------------------------------------------------------------
(* Sets of numbers *)

(* A set of naturals that is not empty has a least element.                *)
LEMMA Least ==
  ASSUME NEW T \in SUBSET Nat, T # {}
  PROVE  \E x \in T : \A y \in T : x <= y
<1>1. PICK x \in T : \A y \in T : ~(<<y, x>> \in OpToRel(<, Nat))
  BY NatLessThanWellFounded, WFMin, Zenon
<1>2. \A y \in T : ~(y < x)
  BY <1>1, Zenon DEF OpToRel
<1>. QED  BY <1>2

(* A finite one has a greatest element.                                    *)
LEMMA Greatest ==
  ASSUME NEW R \in SUBSET Nat, R # {}, IsFiniteSet(R)
  PROVE  \E x \in R : \A y \in R : y <= x
<1>. DEFINE A(x) == {y \in R : x < y}
            T == {Cardinality(A(x)) : x \in R}
<1>1. \A x : IsFiniteSet(A(x)) /\ Cardinality(A(x)) \in Nat
  <2>. TAKE x
  <2>1. A(x) \in SUBSET R
    BY Zenon
  <2>. HIDE DEF A
  <2>. QED  BY <2>1, FS_Subset, FS_CardinalityType, Zenon
<1>. HIDE DEF A
<1>2. T \in SUBSET Nat /\ T # {}
  BY <1>1, Zenon
<1>3. PICK t \in T : \A u \in T : t <= u
  BY <1>2, Least, Zenon
<1>4. PICK x \in R : t = Cardinality(A(x))
  BY Zenon
<1>. SUFFICES ASSUME NEW y \in R, ~(y <= x)  PROVE FALSE
  BY Zenon
<1>5. A(y) \in SUBSET A(x) /\ y \in A(x) /\ y \notin A(y)
  <2>1. x < y /\ ~(y < y) /\ \A z \in R : y < z => x < z
    OBVIOUS
  <2>. QED  BY <2>1, Zenon DEF A
<1>6. /\ Cardinality(A(y)) <= Cardinality(A(x))
      /\ Cardinality(A(y)) # Cardinality(A(x))
  BY <1>1, <1>5, FS_Subset, Zenon
<1>7. t <= Cardinality(A(y))
  BY <1>3, Zenon
<1>. QED  BY <1>1, <1>4, <1>6, <1>7

(* And an n-th smallest one.                                               *)
LEMMA NthSmallest ==
  ASSUME NEW R \in SUBSET Nat, IsFiniteSet(R), NEW n \in 1 .. Cardinality(R)
  PROVE  \E x \in R : Cardinality({j \in R : j < x}) = n - 1
<1>. DEFINE B(x) == {j \in R : j < x}
            T == {k \in 1 .. Cardinality(R) :
                    \A x \in R : Cardinality(B(x)) # k - 1}
<1>. SUFFICES ASSUME n \in T  PROVE FALSE
  BY Zenon
<1>0. Cardinality(R) \in Nat
  BY FS_CardinalityType, Zenon
<1>1. T \in SUBSET Nat /\ T # {}
  <2>1. \A k \in 1 .. Cardinality(R) : k \in Nat
    BY <1>0
  <2>. QED  BY <2>1, Zenon
<1>2. PICK k \in T : \A m \in T : k <= m
  <2>. HIDE DEF T
  <2>. QED  BY <1>1, Least, Zenon
<1>3. k \in 1 .. Cardinality(R) /\ \A x \in R : Cardinality(B(x)) # k - 1
  BY Zenon
<1>. HIDE DEF T
<1>4. CASE k = 1
  <2>1. R # {}
    BY <1>0, <1>3, <1>4, FS_EmptySet
  <2>2. PICK x \in R : \A y \in R : x <= y
    BY <2>1, Least, Zenon
  <2>3. B(x) = {}
    <3>1. \A j \in R : ~(j < x)
      BY <2>2
    <3>. QED  BY <3>1, Zenon
  <2>4. Cardinality(B(x)) = 0
    BY <2>3, FS_EmptySet, Zenon
  <2>. HIDE DEF B
  <2>. QED  BY <1>3, <1>4, <2>4
<1>5. CASE k # 1
  <2>. DEFINE m == k - 1
  <2>1. m \in 1 .. Cardinality(R) /\ ~(k <= m) /\ m < Cardinality(R) /\ m \in Nat
    BY <1>0, <1>3, <1>5
  <2>2. m \notin T
    BY <1>2, <2>1, Zenon
  <2>3. PICK x \in R : Cardinality(B(x)) = m - 1
    <3>. HIDE DEF m
    <3>. QED  BY <2>1, <2>2, Zenon DEF T
  <2>. DEFINE C == B(x) \cup {x}
              D == R \ C
  <2>4. x \notin B(x) /\ B(x) \in SUBSET R /\ C \subseteq R
    OBVIOUS
  <2>5. IsFiniteSet(B(x))
    BY <2>4, FS_Subset, Zenon
  <2>6. Cardinality(C) = m
    <3>. HIDE DEF B, m
    <3>1. Cardinality(C) = Cardinality(B(x)) + 1
      BY <2>4, <2>5, FS_AddElement, Zenon
    <3>. HIDE DEF C
    <3>. QED  BY <2>1, <2>3, <3>1
  <2>7. D # {}
    <3>1. C # R
      <4>. HIDE DEF C
      <4>. QED  BY <2>1, <2>6
    <3>. QED  BY <2>4, <3>1, Zenon
  <2>8. D \in SUBSET Nat
    BY Zenon
  <2>9. PICK y \in D : \A z \in D : y <= z
    <3>. HIDE DEF D
    <3>. QED  BY <2>7, <2>8, Least, Zenon
  <2>10. B(y) = C
    <3>1. ASSUME NEW j \in R, j < y  PROVE j \in C
      <4>1. j \notin D
        BY <2>8, <2>9, <3>1
      <4>. QED  BY <4>1, Zenon
    <3>2. ASSUME NEW j \in C  PROVE j \in R /\ j < y
      <4>1. j \in R /\ j <= x
        OBVIOUS
      <4>2. y \in Nat /\ y \in R /\ ~(y < x) /\ y # x
        BY Zenon
      <4>. QED  BY <4>1, <4>2
    <3>. HIDE DEF C
    <3>. QED  BY <3>1, <3>2, Zenon
  <2>11. y \in R
    BY Zenon
  <2>. HIDE DEF B
  <2>. QED  BY <1>3, <2>6, <2>10, <2>11, Zenon
<1>. QED  BY <1>4, <1>5, Zenon

(* The n-th slot of publish() is the n-th active id.                       *)
LEMMA RosterFact ==
  ASSUME NEW R \in SUBSET Nat, IsFiniteSet(R), NEW n \in 1 .. Cardinality(R)
  PROVE  /\ Roster(R)[n] \in R
         /\ Cardinality({j \in R : j < Roster(R)[n]}) = n - 1
<1>1. \E x \in R : Cardinality({j \in R : j < x}) = n - 1
  BY NthSmallest, Zenon
<1>2. Roster(R)[n] = CHOOSE x \in R : Cardinality({j \in R : j < x}) = n - 1
  BY Zenon DEF Roster
<1>. QED  BY <1>1, <1>2, Zenon

-----------------------------------------------------------------------------
(* Snapshots *)

(* A player and a snapshot as publish() builds them: slots above the count *)
(* are empty.                                                              *)
IsPlayer(p) == p = [id |-> p.id, pos |-> p.pos, hp |-> p.hp]

IsSnapshot(s) ==
  /\ s = [tick |-> s.tick, score |-> s.score, count |-> s.count,
          slots |-> s.slots]
  /\ s.tick \in Nat
  /\ s.count \in 0 .. Cardinality(Ids)
  /\ s.slots = [i \in Slots |-> s.slots[i]]
  /\ \A i \in Slots : IsPlayer(s.slots[i])
  /\ \A i \in Slots : i > s.count => s.slots[i] = Blank

(* publish() builds such a snapshot. *)
LEMMA BuildIsSnapshot ==
  ASSUME NEW t \in Nat, NEW w \in Worlds
  PROVE  IsSnapshot(Build(t, w)) /\ Build(t, w).tick = t
<1>. DEFINE ids == DOMAIN w.players
<1>1. /\ IsFiniteSet(Ids) /\ ids \subseteq Ids
  BY DeltaAssumption, Zenon
<1>2. Cardinality(ids) \in Nat /\ Cardinality(ids) <= Cardinality(Ids)
      /\ Cardinality(Ids) \in Nat
  BY <1>1, FS_Subset, FS_CardinalityType, Zenon
<1>3. Cardinality(ids) \in 0 .. Cardinality(Ids)
  BY <1>2
<1>. HIDE DEF ids
<1>. DEFINE slot(i) == IF i <= Cardinality(ids)
                       THEN LET id == Roster(ids)[i]
                            IN  [id |-> id, pos |-> w.players[id].pos,
                                 hp |-> w.players[id].hp]
                       ELSE Blank
<1>4. Build(t, w) = [tick |-> t, score |-> w.score, count |-> Cardinality(ids),
                     slots |-> [i \in Slots |-> slot(i)]]
  BY Zenon DEF Build, ids
<1>5. \A i \in Slots : IsPlayer(slot(i))
  BY Zenon DEF IsPlayer, Blank
<1>6. \A i \in Slots : i > Cardinality(ids) => slot(i) = Blank
  BY <1>2 DEF Slots
<1>. HIDE DEF slot
<1>. QED  BY <1>3, <1>4, <1>5, <1>6 DEF IsSnapshot

(* encode_delta_snapshot followed by decode_delta_snapshot on the baseline *)
(* gives the snapshot that was encoded, as the wire rounds it: every slot  *)
(* that is not in the mask is the same in both, or empty in both.          *)
LEMMA DeltaRoundTrip ==
  ASSUME NEW cur, NEW base, IsSnapshot(cur), IsSnapshot(base)
  PROVE  ApplyDelta(EncodeDelta(cur, base), Rounded(base)) = Rounded(cur)
<1>. DEFINE d == EncodeDelta(cur, base)
            moved == cur.count # base.count
            compared == 1 .. IF moved THEN Max({cur.count, base.count})
                                      ELSE cur.count
            changed == {i \in compared :
                          moved \/ PlayerDiffers(cur.slots[i], base.slots[i])}
            field(i) ==
              [id |-> cur.slots[i].id,
               pos |-> Present(moved \/ OnWire(cur.slots[i].pos)
                                          # OnWire(base.slots[i].pos),
                               OnWire(cur.slots[i].pos)),
               hp |-> Present(moved \/ cur.slots[i].hp # base.slots[i].hp,
                              cur.slots[i].hp)]
            held(s, i) == [id |-> s.slots[i].id, pos |-> OnWire(s.slots[i].pos),
                           hp |-> s.slots[i].hp]
<1>0. /\ cur.count \in 0 .. Cardinality(Ids)
      /\ base.count \in 0 .. Cardinality(Ids)
      /\ Cardinality(Ids) \in Nat
      /\ Max({cur.count, base.count})
           = IF cur.count >= base.count THEN cur.count ELSE base.count
  <2>1. /\ cur.count \in 0 .. Cardinality(Ids)
        /\ base.count \in 0 .. Cardinality(Ids)
    BY Zenon DEF IsSnapshot
  <2>2. Cardinality(Ids) \in Nat
    BY DeltaAssumption, FS_CardinalityType, Zenon
  <2>. QED  BY <2>1, <2>2, MaxOfTwo
<1>1. /\ d.tick = cur.tick
      /\ d.score = Present(cur.score # base.score, cur.score)
      /\ d.count = Present(moved, cur.count)
      /\ DOMAIN d.slots = changed
      /\ \A i \in changed : d.slots[i] = field(i)
  BY Zenon DEF EncodeDelta
<1>2. \A v, old : Taken(Present(TRUE, v), old) = v /\ Taken(Present(FALSE, v), old) = old
  BY Zenon DEF Taken, Present
<1>3. ASSUME NEW i \in changed
      PROVE  [id |-> field(i).id, pos |-> Taken(field(i).pos, held(base, i).pos),
              hp |-> Taken(field(i).hp, held(base, i).hp)] = held(cur, i)
  BY <1>2, Zenon
<1>4. ASSUME NEW i \in Slots, i \notin changed
      PROVE  held(base, i) = held(cur, i)
  <2>1. CASE i \in compared
    BY <1>4, <2>1, Zenon DEF PlayerDiffers
  <2>2. CASE i \notin compared
    <3>1. i > cur.count /\ i > base.count
      BY <1>0, <2>2 DEF Slots
    <3>. QED  BY <3>1, Zenon DEF IsSnapshot
  <2>. QED  BY <2>1, <2>2, Zenon
<1>5. changed \subseteq Slots
  BY <1>0 DEF Slots
<1>6. /\ Taken(d.score, base.score) = cur.score
      /\ Taken(d.count, base.count) = cur.count
  BY <1>1 DEF Taken, Present
<1>7. \A s : /\ Rounded(s).score = s.score /\ Rounded(s).count = s.count
             /\ Rounded(s) = [tick |-> s.tick, score |-> s.score,
                              count |-> s.count,
                              slots |-> [i \in Slots |-> held(s, i)]]
             /\ \A i \in Slots : Rounded(s).slots[i] = held(s, i)
  BY Zenon DEF Rounded
<1>8. ASSUME NEW i \in Slots
      PROVE  (IF i \in DOMAIN d.slots
              THEN [id |-> d.slots[i].id,
                    pos |-> Taken(d.slots[i].pos, Rounded(base).slots[i].pos),
                    hp |-> Taken(d.slots[i].hp, Rounded(base).slots[i].hp)]
              ELSE Rounded(base).slots[i]) = held(cur, i)
  <2>. HIDE DEF d, changed, field, held
  <2>1. CASE i \in changed
    BY <1>1, <1>3, <1>7, <2>1, Zenon
  <2>2. CASE i \notin changed
    BY <1>1, <1>4, <1>7, <2>2, Zenon
  <2>. QED  BY <2>1, <2>2, Zenon
<1>. HIDE DEF d, changed, field, held
<1>9. ApplyDelta(d, Rounded(base)) =
        [tick |-> cur.tick, score |-> cur.score, count |-> cur.count,
         slots |-> [i \in Slots |-> held(cur, i)]]
  BY <1>1, <1>6, <1>7, <1>8, Zenon DEF ApplyDelta
<1>. QED  BY <1>7, <1>9, Zenon DEF d

-----------------------------------------------------------------------------
(* The stream *)

IsFull(d, s) == d = [type |-> "Full", tick |-> s.tick, snap |-> Rounded(s)]

(* Publishes are in the order of their ticks, and every datagram is one of *)
(* them, whole or against the one before.                                  *)
Stream ==
  /\ tick \in Nat
  /\ \E S : published \in Seq(S)
  /\ \A n \in DOMAIN published : /\ IsSnapshot(published[n])
                                 /\ published[n].tick < tick
  /\ \A m, n \in DOMAIN published :
       m < n => published[m].tick < published[n].tick
  /\ \A d \in net : \E n \in DOMAIN published :
       \/ IsFull(d, published[n])
       \/ /\ n + 1 \in DOMAIN published
          /\ d = EncodeDelta(published[n + 1], published[n])

(* Appending to a sequence keeps what is there. *)
LEMMA AppendKeeps ==
  ASSUME NEW S, NEW s \in Seq(S), NEW x
  PROVE  /\ Append(s, x) \in Seq(S \cup {x})
         /\ Len(s) \in Nat
         /\ DOMAIN s = 1 .. Len(s)
         /\ DOMAIN Append(s, x) = 1 .. (Len(s) + 1)
         /\ Append(s, x)[Len(s) + 1] = x
         /\ \A n \in 1 .. Len(s) : Append(s, x)[n] = s[n]
<1>1. s \in Seq(S \cup {x})
  OBVIOUS
<1>. QED  BY <1>1

(* A publish keeps the stream as it should be. *)
LEMMA PublishKeepsStream ==
  ASSUME Stream, NEW w \in Worlds, Publish(w)
  PROVE  Stream'
<1>. DEFINE snap == Build(tick, w)
            L == Len(published)
<1>1. PICK S : published \in Seq(S)
  BY Zenon DEF Stream
<1>2. IsSnapshot(snap) /\ snap.tick = tick
  BY BuildIsSnapshot, Zenon DEF Stream
<1>3. published' = Append(published, snap) /\ tick' = tick + 1
  BY Zenon DEF Publish
<1>. HIDE DEF snap
<1>4. /\ published' \in Seq(S \cup {snap})
      /\ L \in Nat
      /\ DOMAIN published = 1 .. L
      /\ DOMAIN published' = 1 .. (L + 1)
      /\ published'[L + 1] = snap
      /\ \A n \in 1 .. L : published'[n] = published[n]
  BY <1>1, <1>3, AppendKeeps
<1>. HIDE DEF L
<1>5. tick' \in Nat /\ \E T : published' \in Seq(T)
  BY <1>3, <1>4 DEF Stream
<1>6. \A n \in DOMAIN published' :
        IsSnapshot(published'[n]) /\ published'[n].tick < tick'
  <2>. SUFFICES ASSUME NEW n \in DOMAIN published'
                PROVE  IsSnapshot(published'[n]) /\ published'[n].tick < tick'
    BY Zenon
  <2>1. CASE n = L + 1
    BY <1>2, <1>3, <1>4, <2>1 DEF Stream
  <2>2. CASE n # L + 1
    <3>1. n \in DOMAIN published /\ published'[n] = published[n]
      BY <1>4, <2>2
    <3>2. IsSnapshot(published[n]) /\ published[n].tick < tick
      BY <3>1, Zenon DEF Stream
    <3>3. published[n].tick \in Nat
      BY <3>2, Zenon DEF IsSnapshot
    <3>. QED  BY <1>3, <3>1, <3>2, <3>3 DEF Stream
  <2>. QED  BY <2>1, <2>2, Zenon
<1>7. \A m, n \in DOMAIN published' :
        m < n => published'[m].tick < published'[n].tick
  <2>. SUFFICES ASSUME NEW m \in DOMAIN published', NEW n \in DOMAIN published',
                       m < n
                PROVE  published'[m].tick < published'[n].tick
    BY Zenon
  <2>1. m \in DOMAIN published /\ published'[m] = published[m]
    BY <1>4
  <2>2. CASE n = L + 1
    BY <1>2, <1>4, <2>1, <2>2, Zenon DEF Stream
  <2>3. CASE n # L + 1
    <3>1. n \in DOMAIN published /\ published'[n] = published[n]
      BY <1>4, <2>3
    <3>. QED  BY <2>1, <3>1, Zenon DEF Stream
  <2>. QED  BY <2>2, <2>3, Zenon
<1>8. \A d \in net' : \E n \in DOMAIN published' :
        \/ IsFull(d, published'[n])
        \/ /\ n + 1 \in DOMAIN published'
           /\ d = EncodeDelta(published'[n + 1], published'[n])
  <2>. SUFFICES ASSUME NEW d \in net'
                PROVE  \E n \in DOMAIN published' :
                         \/ IsFull(d, published'[n])
                         \/ /\ n + 1 \in DOMAIN published'
                            /\ d = EncodeDelta(published'[n + 1], published'[n])
    BY Zenon
  <2>1. CASE d \in net
    <3>1. PICK n \in DOMAIN published :
            \/ IsFull(d, published[n])
            \/ /\ n + 1 \in DOMAIN published
               /\ d = EncodeDelta(published[n + 1], published[n])
      BY <2>1, Zenon DEF Stream
    <3>2. n \in DOMAIN published' /\ published'[n] = published[n]
      BY <1>4
    <3>3. n + 1 \in DOMAIN published =>
            n + 1 \in DOMAIN published' /\ published'[n + 1] = published[n + 1]
      BY <1>4
    <3>. QED  BY <3>1, <3>2, <3>3, Zenon
  <2>2. CASE IsKeyframe /\ d \notin net
    <3>1. IsFull(d, snap)
      BY <1>2, <2>2, Zenon DEF Publish, IsFull, snap
    <3>2. L + 1 \in DOMAIN published' /\ IsFull(d, published'[L + 1])
      BY <1>4, <3>1
    <3>. QED  BY <3>2, Zenon
  <2>3. CASE ~IsKeyframe /\ d \notin net
    <3>1. L \in 1 .. L
      BY <1>1, <1>4, <2>3 DEF IsKeyframe, L
    <3>2. d = EncodeDelta(snap, published[L])
      BY <2>3, Zenon DEF Publish, snap, L
    <3>3. /\ L \in DOMAIN published' /\ L + 1 \in DOMAIN published'
          /\ d = EncodeDelta(published'[L + 1], published'[L])
      BY <1>4, <3>1, <3>2
    <3>. QED  BY <3>3, Zenon
  <2>. QED  BY <2>1, <2>2, <2>3, Zenon
<1>. QED  BY <1>5, <1>6, <1>7, <1>8, Zenon DEF Stream

(* An accepted datagram gives the client a publish: the cached baseline    *)
(* can only be the one the delta was encoded against, since no other       *)
(* publish has its tick.                                                   *)
LEMMA DeliverGivesPublish ==
  ASSUME Stream, CacheIsPublished, NEW d \in net, Deliver(d), Accepted(d)
  PROVE  \E n \in DOMAIN published : cache' = Rounded(published[n])
<1>1. PICK n \in DOMAIN published :
        \/ IsFull(d, published[n])
        \/ /\ n + 1 \in DOMAIN published
           /\ d = EncodeDelta(published[n + 1], published[n])
  BY Zenon DEF Stream
<1>2. CASE IsFull(d, published[n])
  BY <1>2, Zenon DEF IsFull, Deliver
<1>3. CASE /\ n + 1 \in DOMAIN published
           /\ d = EncodeDelta(published[n + 1], published[n])
  <2>. DEFINE cur == published[n + 1]
              base == published[n]
              ago == cur.tick - base.tick
  <2>1. IsSnapshot(cur) /\ IsSnapshot(base)
    BY <1>3, Zenon DEF Stream
  <2>2. cur.tick \in Nat /\ base.tick \in Nat
    BY <2>1, Zenon DEF IsSnapshot
  <2>3. \A m \in DOMAIN published : m \in Nat /\ published[m].tick \in Nat
    <3>1. \A m \in DOMAIN published : published[m].tick \in Nat
      BY Zenon DEF Stream, IsSnapshot
    <3>2. PICK S : published \in Seq(S)
      BY Zenon DEF Stream
    <3>3. \A m \in DOMAIN published : m \in Nat
      BY <3>2
    <3>. QED  BY <3>1, <3>3, Zenon
  <2>4. base.tick < cur.tick
    BY <1>3, <2>3 DEF Stream
  <2>5. d.type = "Delta" /\ d.tick = cur.tick /\ d.ago = Min({ago, AgoMax})
    BY <1>3, Zenon DEF EncodeDelta
  <2>6. d.ago \in 1 .. ago
    <3>1. AgoMax \in Nat \ {0} /\ ago \in Nat \ {0}
      BY <2>2, <2>4, DeltaAssumption
    <3>. HIDE DEF ago
    <3>2. d.ago = IF ago <= AgoMax THEN ago ELSE AgoMax
      BY <2>5, <3>1, MinOfTwo
    <3>. QED  BY <3>1, <3>2
  <2>7. have /\ cache.tick = d.tick - d.ago
    BY <2>5, Zenon DEF Accepted, BaselineMatches
  <2>8. PICK k \in DOMAIN published : cache = Rounded(published[k])
    BY <2>7, Zenon DEF CacheIsPublished
  <2>9. published[k].tick = cur.tick - d.ago
    BY <2>5, <2>7, <2>8, Zenon DEF Rounded
  <2>10. k = n
    <3>1. ~(k < n)
      <4>. SUFFICES ASSUME k < n  PROVE FALSE
        BY Zenon
      <4>1. published[k].tick < base.tick
        BY Zenon DEF Stream
      <4>. QED  BY <2>2, <2>3, <2>6, <2>9, <4>1
    <3>2. ~(n + 1 < k)
      <4>. SUFFICES ASSUME n + 1 < k  PROVE FALSE
        BY Zenon
      <4>1. cur.tick < published[k].tick
        BY <1>3, Zenon DEF Stream
      <4>. QED  BY <2>2, <2>3, <2>6, <2>9, <4>1
    <3>3. k # n + 1
      BY <2>2, <2>6, <2>9
    <3>. QED  BY <2>3, <3>1, <3>2, <3>3
  <2>11. cache' = ApplyDelta(EncodeDelta(cur, base), Rounded(base))
    BY <1>3, <2>5, <2>8, <2>10, Zenon DEF Deliver
  <2>12. cache' = Rounded(cur)
    BY <2>1, <2>11, DeltaRoundTrip, Zenon
  <2>. QED  BY <1>3, <2>12, Zenon
<1>. QED  BY <1>1, <1>2, <1>3, Zenon

(* Every step keeps the stream and what the client holds of it. *)
LEMMA StreamStep ==
  ASSUME Stream, CacheIsPublished, [Next]_vars
  PROVE  Stream' /\ CacheIsPublished'
<1>1. ASSUME NEW w \in Worlds, Publish(w)
      PROVE  Stream' /\ CacheIsPublished'
  <2>1. Stream'
    BY <1>1, PublishKeepsStream, Zenon
  <2>2. PICK S : published \in Seq(S)
    BY Zenon DEF Stream
  <2>3. \A n \in DOMAIN published :
          n \in DOMAIN published' /\ published'[n] = published[n]
    BY <1>1, <2>2, AppendKeeps DEF Publish
  <2>4. have' = have /\ cache' = cache
    BY <1>1, Zenon DEF Publish
  <2>. QED  BY <2>1, <2>3, <2>4, Zenon DEF CacheIsPublished
<1>2. CASE SkipPublish
  <2>1. tick' = tick + 1 /\ UNCHANGED <<published, net, have, cache>>
    BY <1>2, Zenon DEF SkipPublish
  <2>2. \A n \in DOMAIN published : published[n].tick \in Nat
    BY Zenon DEF Stream, IsSnapshot
  <2>3. tick' \in Nat /\ \A n \in DOMAIN published : published[n].tick < tick'
    BY <2>1, <2>2 DEF Stream
  <2>4. Stream'
    BY <2>1, <2>3, Zenon DEF Stream
  <2>. QED  BY <2>1, <2>4, Zenon DEF CacheIsPublished
<1>3. ASSUME NEW d \in net, Deliver(d)
      PROVE  Stream' /\ CacheIsPublished'
  <2>1. UNCHANGED <<tick, published, net>> /\ have' = Accepted(d)
    BY <1>3, Zenon DEF Deliver
  <2>2. Stream'
    BY <2>1, Zenon DEF Stream
  <2>3. CacheIsPublished'
    BY <1>3, <2>1, DeliverGivesPublish, Zenon DEF CacheIsPublished
  <2>. QED  BY <2>2, <2>3, Zenon
<1>4. CASE UNCHANGED vars
  BY <1>4, Zenon DEF vars, Stream, CacheIsPublished
<1>. QED  BY <1>1, <1>2, <1>3, <1>4, Zenon DEF Next

(* Nothing is published and nothing is held at first. *)
LEMMA InitStream == Init => Stream /\ CacheIsPublished
<1>. SUFFICES ASSUME Init  PROVE Stream /\ CacheIsPublished
  BY Zenon
<1>1. published = <<>> /\ tick = 0 /\ net = {} /\ ~have
  BY Zenon DEF Init
<1>2. published \in Seq({}) /\ DOMAIN published = {}
  BY <1>1
<1>. QED  BY <1>1, <1>2, Zenon DEF Stream, CacheIsPublished

(* A client never holds a state the server was not in: what it decodes is  *)
(* a publish as the wire rounds it, for any roster, any keyframe interval  *)
(* and any losses, repetitions and reorderings.                            *)
THEOREM HoldsOnlyPublishes == Spec => []CacheIsPublished
<1>1. Stream /\ CacheIsPublished /\ [Next]_vars => Stream' /\ CacheIsPublished'
  BY StreamStep, Zenon
<1>. QED  BY <1>1, InitStream, PTL DEF Spec

-----------------------------------------------------------------------------
(* The stall after a loss *)

(* Division with remainder.                                               *)
LEMMA ModFact ==
  ASSUME NEW N \in Int, NEW K \in Nat \ {0}
  PROVE  /\ N % K \in 0 .. K - 1
         /\ \E q \in Int : N = K * q + (N % K)
<1>1. N % K \in 0 .. K - 1
  OBVIOUS
<1>2. N \div K \in Int /\ N = K * (N \div K) + (N % K)
  OBVIOUS
<1>. QED  BY <1>1, <1>2, Zenon

(* The remainder is the only one.                                          *)
LEMMA Unique ==
  ASSUME NEW K \in Nat, NEW p \in Int, NEW q \in Int, NEW r \in 0 .. K - 1,
         NEW s \in 0 .. K - 1, K * p + r = K * q + s
  PROVE  r = s
<1>. DEFINE P == K * p
            Q == K * q
<1>0. P \in Int /\ Q \in Int /\ P + r = Q + s
  OBVIOUS
<1>1. CASE p < q
  <2>1. K * (p + 1) <= K * q /\ K * (p + 1) = K * p + K
    BY <1>1
  <2>2. P + K <= Q
    BY <2>1, Zenon
  <2>. HIDE DEF P, Q
  <2>. QED  BY <1>0, <2>2
<1>2. CASE q < p
  <2>1. K * (q + 1) <= K * p /\ K * (q + 1) = K * q + K
    BY <1>2
  <2>2. Q + K <= P
    BY <2>1, Zenon
  <2>. HIDE DEF P, Q
  <2>. QED  BY <1>0, <2>2
<1>3. CASE p = q
  BY <1>0, <1>3
<1>. QED  BY <1>1, <1>2, <1>3

(* Remainders count up to the next multiple.                               *)
LEMMA ModStep ==
  ASSUME NEW N \in Int, NEW K \in Nat \ {0}, N % K # 0
  PROVE  ((N - 1) % K) + 1 = N % K
<1>1. PICK p \in Int : N = K * p + (N % K)
  BY ModFact, Zenon
<1>2. PICK q \in Int : N - 1 = K * q + ((N - 1) % K)
  <2>1. N - 1 \in Int
    OBVIOUS
  <2>. QED  BY <2>1, ModFact, Zenon
<1>. DEFINE r == N % K
            s == (N - 1) % K
<1>3. r - 1 \in 0 .. K - 1 /\ s \in 0 .. K - 1 /\ r \in Int
  OBVIOUS
<1>. HIDE DEF r, s
<1>4. K * p + (r - 1) = K * q + s
  BY <1>1, <1>2, <1>3 DEF r, s
<1>5. r - 1 = s
  BY <1>3, <1>4, Unique, Zenon
<1>6. s + 1 = r
  BY <1>3, <1>5
<1>. QED  BY <1>6, Zenon DEF r, s

(* A datagram with the tick of a keyframe is that keyframe.                *)
Marked ==
  \A d \in net : \E n \in DOMAIN published :
    /\ d.tick = published[n].tick
    /\ (n - 1) % KeyframeInterval = 0 => d.type = "Full"

(* How many publishes there have been since the last keyframe.             *)
Since == (Len(published) - 1) % KeyframeInterval

(* The drops in a row are publishes since the last keyframe, without the   *)
(* newest if that has not arrived; while a keyframe is awaited they may    *)
(* be all those since the one before.                                      *)
Stalled ==
  /\ stall \in Nat
  /\ IF published = <<>> THEN ~fresh /\ stall = 0
     ELSE /\ ~fresh => stall <= Since
          /\ fresh => stall + 1 <= Since \/ (Since = 0 /\ stall < KeyframeInterval)

(* A publish.                                                              *)
LEMMA PublishStall ==
  ASSUME Stream, Marked, Stalled, NEW w \in Worlds, Publish(w)
  PROVE  Marked' /\ Stalled'
<1>. DEFINE L == Len(published)
            K == KeyframeInterval
            snap == Build(tick, w)
<1>0. K \in Nat \ {0}
  BY DeltaAssumption, Zenon
<1>1. PICK S : published \in Seq(S)
  BY Zenon DEF Stream
<1>2. published' = Append(published, snap) /\ snap.tick = tick
  BY BuildIsSnapshot, Zenon DEF Publish, Stream
<1>. HIDE DEF snap
<1>3. /\ L \in Nat /\ DOMAIN published = 1 .. L
      /\ DOMAIN published' = 1 .. (L + 1) /\ Len(published') = L + 1
      /\ published'[L + 1] = snap /\ published' # <<>>
      /\ \A n \in 1 .. L : published'[n] = published[n]
      /\ published = <<>> <=> L = 0
  <2>1. /\ L \in Nat /\ DOMAIN published = 1 .. L
        /\ DOMAIN published' = 1 .. (L + 1)
        /\ published'[L + 1] = snap
        /\ \A n \in 1 .. L : published'[n] = published[n]
        /\ published' \in Seq(S \cup {snap})
    BY <1>1, <1>2, AppendKeeps
  <2>2. Len(published') = L + 1 /\ published' # <<>>
    BY <2>1
  <2>3. published = <<>> <=> L = 0
    BY <1>1
  <2>. QED  BY <2>1, <2>2, <2>3, Zenon
<1>4. Since' = L % K
  <2>1. Len(published') - 1 = L
    BY <1>3
  <2>. QED  BY <2>1, Zenon DEF Since
<1>5. Marked'
  <2>. SUFFICES ASSUME NEW d \in net'
                PROVE  \E n \in DOMAIN published' :
                         /\ d.tick = published'[n].tick
                         /\ (n - 1) % K = 0 => d.type = "Full"
    BY Zenon DEF Marked
  <2>1. CASE d \in net
    <3>1. PICK n \in DOMAIN published : /\ d.tick = published[n].tick
                                        /\ (n - 1) % K = 0 => d.type = "Full"
      BY <2>1, Zenon DEF Marked
    <3>2. n \in DOMAIN published' /\ published'[n] = published[n]
      BY <1>3
    <3>. QED  BY <3>1, <3>2, Zenon
  <2>2. CASE d \notin net
    <3>1. d = IF IsKeyframe
              THEN [type |-> "Full", tick |-> tick, snap |-> Rounded(snap)]
              ELSE EncodeDelta(snap, published[Len(published)])
      BY <2>2, Zenon DEF Publish, snap
    <3>2. d.tick = snap.tick
      BY <1>2, <3>1, Zenon DEF EncodeDelta
    <3>3. L % K = 0 => d.type = "Full"
      BY <3>1, Zenon DEF IsKeyframe
    <3>4. (L + 1) - 1 = L /\ L + 1 \in DOMAIN published'
      BY <1>3
    <3>. QED  BY <1>3, <3>2, <3>3, <3>4, Zenon
  <2>. QED  BY <2>1, <2>2, Zenon
<1>6. L % K \in 0 .. K - 1 /\ (L - 1) % K \in 0 .. K - 1
  <2>. HIDE DEF L, K
  <2>1. L \in Int /\ L - 1 \in Int
    BY <1>3
  <2>. QED  BY <1>0, <2>1, ModFact, Zenon
<1>7. L % K # 0 => ((L - 1) % K) + 1 = L % K
  <2>. HIDE DEF L, K
  <2>1. L \in Int
    BY <1>3
  <2>. QED  BY <1>0, <2>1, ModStep, Zenon
<1>8. L = 0 => L % K = 0
  BY <1>0
<1>9. fresh' /\ stall' = IF fresh THEN 0 ELSE stall
  BY Zenon DEF Publish
<1>10. Since = (L - 1) % K
  BY Zenon DEF Since
<1>. DEFINE r == L % K
            s == (L - 1) % K
<1>. HIDE DEF r, s, L, K
<1>11. stall' \in Nat /\ (stall' + 1 <= r \/ (r = 0 /\ stall' < K))
  <2>1. CASE fresh
    <3>1. stall' = 0
      BY <1>9, <2>1, Zenon
    <3>. QED  BY <1>0, <1>6, <3>1 DEF r
  <2>2. CASE ~fresh /\ L = 0
    <3>1. stall' = 0
      BY <1>3, <1>9, <2>2, Zenon DEF Stalled
    <3>. QED  BY <1>0, <1>8, <2>2, <3>1 DEF r
  <2>3. CASE ~fresh /\ L # 0
    <3>1. stall' = stall /\ stall \in Nat /\ stall <= s
      BY <1>3, <1>9, <1>10, <2>3, Zenon DEF Stalled, s
    <3>. QED  BY <1>0, <1>6, <1>7, <3>1 DEF r, s
  <2>. QED  BY <2>1, <2>2, <2>3, Zenon
<1>12. Stalled'
  <2>1. Since' = r
    BY <1>4, Zenon DEF r
  <2>. QED  BY <1>3, <1>9, <1>11, <2>1, Zenon DEF Stalled, K
<1>. QED  BY <1>5, <1>12, Zenon

(* A datagram that arrives: the newest publish is dropped only if it is no *)
(* keyframe.                                                               *)
LEMMA DeliverStall ==
  ASSUME Stream, Marked, Stalled, NEW d \in net, Deliver(d)
  PROVE  Marked' /\ Stalled'
<1>. DEFINE L == Len(published)
            K == KeyframeInterval
<1>0. K \in Nat \ {0}
  BY DeltaAssumption, Zenon
<1>1. UNCHANGED <<published, net>>
  BY Zenon DEF Deliver
<1>2. Marked' /\ Since' = Since
  BY <1>1, Zenon DEF Marked, Since
<1>3. PICK n \in DOMAIN published : /\ d.tick = published[n].tick
                                    /\ (n - 1) % K = 0 => d.type = "Full"
  BY Zenon DEF Marked
<1>4. PICK S : published \in Seq(S)
  BY Zenon DEF Stream
<1>5. L \in Nat /\ DOMAIN published = 1 .. L /\ n \in 1 .. L /\ L \in 1 .. L
      /\ published # <<>>
  BY <1>4
<1>6. Since \in 0 .. K - 1 /\ Since = (L - 1) % K
  <2>1. L - 1 \in Int
    BY <1>5
  <2>. QED  BY <1>0, <2>1, ModFact, Zenon DEF Since
<1>7. CASE Accepted(d)
  <2>1. stall' = 0
    BY <1>7, Zenon DEF Deliver
  <2>2. fresh' => fresh
    BY Zenon DEF Deliver
  <2>3. fresh => Since = 0 \/ 1 <= Since
    BY <1>0, <1>6
  <2>. HIDE DEF L, K
  <2>4. stall' \in Nat /\ stall' <= Since
        /\ (stall' + 1 <= Since \/ (Since = 0 /\ stall' < K))
    BY <1>0, <1>6, <2>1
  <2>. QED  BY <1>1, <1>2, <1>5, <2>4, Zenon DEF Stalled, K
<1>8. CASE ~Accepted(d) /\ IsFresh(d)
  <2>1. fresh /\ ~fresh' /\ stall' = stall + 1
    BY <1>8, Zenon DEF Deliver, IsFresh
  <2>2. n = L
    <3>1. published[n].tick = published[L].tick
      BY <1>3, <1>8, Zenon DEF IsFresh
    <3>2. published[n].tick \in Nat /\ published[L].tick \in Nat
      BY <1>5, Zenon DEF Stream, IsSnapshot
    <3>3. n < L => published[n].tick < published[L].tick
      BY <1>5, Zenon DEF Stream
    <3>4. ~(n < L)
      BY <3>1, <3>2, <3>3
    <3>. QED  BY <1>5, <3>4
  <2>3. Since # 0
    <3>1. d.type # "Full"
      BY <1>8, Zenon DEF Accepted
    <3>. QED  BY <1>3, <1>6, <2>2, <3>1, Zenon
  <2>4. stall \in Nat /\ stall + 1 <= Since
    BY <1>5, <2>1, <2>3, Zenon DEF Stalled
  <2>5. stall' \in Nat /\ stall' <= Since
    BY <2>1, <2>4
  <2>. QED  BY <1>1, <1>2, <1>5, <2>1, <2>5, Zenon DEF Stalled
<1>9. CASE ~Accepted(d) /\ ~IsFresh(d)
  <2>1. stall' = stall /\ (fresh' <=> fresh)
    BY <1>9, Zenon DEF Deliver
  <2>2. Stalled'
    BY <1>1, <1>2, <2>1, Zenon DEF Stalled
  <2>. QED  BY <1>2, <2>2, Zenon
<1>. QED  BY <1>7, <1>8, <1>9, Zenon

(* A client never misses KeyframeInterval of the publishes in a row that   *)
(* reach it in time: for any interval, and any losses and reorderings, the *)
(* stall of a client without a baseline ends at the next keyframe.         *)
THEOREM StallSafe == Spec => []StallBounded
<1>1. Init => Marked /\ Stalled
  <2>1. Init => published = <<>> /\ net = {} /\ ~fresh /\ stall = 0
    BY Zenon DEF Init
  <2>. QED  BY <2>1 DEF Marked, Stalled
<1>2. Stream /\ Marked /\ Stalled /\ [Next]_vars => Marked' /\ Stalled'
  <2>. SUFFICES ASSUME Stream, Marked, Stalled, [Next]_vars
                PROVE  Marked' /\ Stalled'
    BY Zenon
  <2>1. CASE SkipPublish \/ UNCHANGED vars
    <3>1. UNCHANGED <<published, net, fresh, stall>>
      BY <2>1, Zenon DEF SkipPublish, vars
    <3>2. Since' = Since
      BY <3>1, Zenon DEF Since
    <3>3. Marked'
      BY <3>1, Zenon DEF Marked
    <3>4. Stalled'
      BY <3>1, <3>2, Zenon DEF Stalled
    <3>. QED  BY <3>3, <3>4, Zenon
  <2>. QED  BY <2>1, PublishStall, DeliverStall, Zenon DEF Next
<1>3. Stream /\ Stalled => StallBounded
  <2>. SUFFICES ASSUME Stream, Stalled  PROVE StallBounded
    BY Zenon
  <2>1. KeyframeInterval \in Nat \ {0}
    BY DeltaAssumption, Zenon
  <2>2. Since \in 0 .. KeyframeInterval - 1
    <3>1. PICK S : published \in Seq(S)
      BY Zenon DEF Stream
    <3>2. Len(published) - 1 \in Int
      BY <3>1
    <3>. QED  BY <2>1, <3>2, ModFact, Zenon DEF Since
  <2>3. stall \in Nat /\ (stall = 0 \/ stall <= Since \/ stall + 1 <= Since
                          \/ stall < KeyframeInterval)
    BY Zenon DEF Stalled
  <2>. QED  BY <2>1, <2>2, <2>3 DEF StallBounded
<1>4. Stream /\ CacheIsPublished /\ [Next]_vars => Stream' /\ CacheIsPublished'
  BY StreamStep
<1>. QED  BY <1>1, <1>2, <1>3, <1>4, InitStream, PTL DEF Spec

-----------------------------------------------------------------------------
(* Types *)

(* The ids of a snapshot are those of players, each once.                  *)
Distinct(s) ==
  \A i \in 1 .. s.count : /\ s.slots[i].id \in Ids
                          /\ \A j \in 1 .. s.count :
                               s.slots[i].id = s.slots[j].id => i = j

(* What publish() builds, with its fields.                                 *)
LEMMA BuildFact ==
  ASSUME NEW t \in 0 .. MaxTick, NEW w \in Worlds
  PROVE  Build(t, w) \in Snapshot(Positions) /\ Distinct(Build(t, w))
<1>. DEFINE ids == DOMAIN w.players
            C == Cardinality(ids)
            slot(i) == IF i <= C
                       THEN LET id == Roster(ids)[i]
                            IN  [id |-> id, pos |-> w.players[id].pos,
                                 hp |-> w.players[id].hp]
                       ELSE Blank
            P == [id : Ids \cup {0}, pos : Positions,
                  hp : {b.hp : b \in Bodies} \cup {0}]
<1>1. /\ IsFiniteSet(Ids) /\ ids \subseteq Ids /\ Ids \subseteq Nat
      /\ w.players \in [ids -> Bodies]
  BY DeltaAssumption, Zenon
<1>2. /\ IsFiniteSet(ids) /\ C \in Nat /\ C <= Cardinality(Ids)
      /\ Cardinality(Ids) \in Nat /\ ids \in SUBSET Nat
  BY <1>1, FS_Subset, FS_CardinalityType, Zenon
<1>3. Build(t, w) = [tick |-> t, score |-> w.score, count |-> C,
                     slots |-> [i \in Slots |-> slot(i)]]
  BY Zenon DEF Build
<1>. HIDE DEF ids
<1>4. ASSUME NEW i \in 1 .. C
      PROVE  Roster(ids)[i] \in ids /\ Cardinality({j \in ids : j < Roster(ids)[i]}) = i - 1
  BY <1>2, <1>4, RosterFact, Zenon
<1>5. ASSUME NEW i \in Slots  PROVE slot(i) \in P
  <2>1. CASE i <= C
    <3>. DEFINE id == Roster(ids)[i]
    <3>1. i \in 1 .. C
      BY <1>2, <2>1 DEF Slots
    <3>2. id \in ids
      BY <1>4, <3>1, Zenon
    <3>. HIDE DEF id
    <3>3. id \in Ids /\ w.players[id] \in Bodies
      BY <1>1, <3>2, Zenon
    <3>4. [id |-> id, pos |-> w.players[id].pos, hp |-> w.players[id].hp] \in P
      BY <3>3, Zenon DEF Positions
    <3>. QED  BY <2>1, <3>4, Zenon DEF id
  <2>2. CASE ~(i <= C)
    BY <2>2, Zenon DEF Blank, Positions
  <2>. QED  BY <2>1, <2>2, Zenon
<1>6. ASSUME NEW i \in 1 .. C
      PROVE  i \in Slots /\ slot(i).id = Roster(ids)[i]
  BY <1>2 DEF Slots
<1>7. Build(t, w) \in Snapshot(Positions)
  <2>. HIDE DEF slot, P, C
  <2>1. [i \in Slots |-> slot(i)] \in [Slots -> P]
    BY <1>5, Zenon
  <2>2. C \in 0 .. Cardinality(Ids)
    BY <1>2
  <2>. QED  BY <1>3, <2>1, <2>2 DEF Snapshot, P
<1>8. Distinct(Build(t, w))
  <2>. HIDE DEF slot
  <2>1. \A i \in 1 .. C : Build(t, w).slots[i].id = Roster(ids)[i]
    BY <1>3, <1>6
  <2>2. Build(t, w).count = C
    BY <1>3
  <2>3. ASSUME NEW i \in 1 .. C, NEW j \in 1 .. C,
               Roster(ids)[i] = Roster(ids)[j]
        PROVE  i = j
    <3>1. i - 1 = j - 1
      BY <1>4, <2>3, Zenon
    <3>. QED  BY <1>2, <3>1
  <2>. HIDE DEF C
  <2>. QED  BY <1>1, <1>4, <2>1, <2>2, <2>3, Zenon DEF Distinct
<1>. QED  BY <1>7, <1>8, Zenon

(* A position on the wire.                                                 *)
LEMMA OnWireFact ==
  ASSUME NEW p \in Nat
  PROVE  OnWire(p) \in Nat /\ OnWire(p) <= p /\ OnWire(p) % WireUnit = 0
<1>. DEFINE q == p \div WireUnit
            o == q * WireUnit
<1>0. WireUnit \in Nat \ {0}
  BY DeltaAssumption, Zenon
<1>1. q \in Nat /\ o \in Nat /\ o <= p
  BY <1>0
<1>. HIDE DEF q
<1>2. /\ o % WireUnit \in 0 .. WireUnit - 1
      /\ \E k \in Int : o = WireUnit * k + (o % WireUnit)
  <2>1. o \in Int
    BY <1>1
  <2>. HIDE DEF o
  <2>. QED  BY <1>0, <2>1, ModFact, Zenon
<1>3. PICK k \in Int : o = WireUnit * k + (o % WireUnit)
  BY <1>2, Zenon
<1>4. o = WireUnit * q + 0 /\ 0 \in 0 .. WireUnit - 1
  BY <1>0, <1>1
<1>. DEFINE r == o % WireUnit
<1>5. WireUnit * k + r = WireUnit * q + 0 /\ r \in 0 .. WireUnit - 1
  BY <1>2, <1>3, <1>4, Zenon
<1>6. WireUnit \in Nat /\ q \in Int
  BY <1>0, <1>1
<1>. HIDE DEF r, o
<1>7. r = 0
  BY <1>4, <1>5, <1>6, Unique, Zenon
<1>. QED  BY <1>1, <1>7, Zenon DEF r, o, q, OnWire

(* No position is above the largest.                                       *)
LEMMA MaxPosition ==
  /\ Max(Positions) \in Nat
  /\ \A p \in Positions : p \in Nat /\ p <= Max(Positions)
<1>. DEFINE I == {b.pos : b \in Bodies}
            f == [b \in Bodies |-> b.pos]
<1>1. Bodies \subseteq [pos : Nat, hp : Nat] /\ IsFiniteSet(Bodies)
  BY DeltaAssumption, Zenon
<1>2. f \in Surjection(Bodies, I)
  BY Zenon DEF Surjection
<1>3. IsFiniteSet(I)
  BY <1>1, <1>2, FS_Surjection, Zenon
<1>4. I \in SUBSET Nat
  BY <1>1, Zenon
<1>. HIDE DEF I, f
<1>5. IsFiniteSet(I \cup {0})
  BY <1>3, FS_AddElement, Zenon
<1>6. Positions = I \cup {0} /\ Positions \in SUBSET Nat /\ Positions # {}
  BY <1>4 DEF Positions, I
<1>7. PICK x \in Positions : \A y \in Positions : y <= x
  BY <1>5, <1>6, Greatest, Zenon
<1>8. \A y \in Positions : x >= y
  BY <1>6, <1>7, Zenon
<1>9. /\ Max(Positions) \in Positions
      /\ \A y \in Positions : Max(Positions) >= y
  BY <1>8, Zenon DEF Max
<1>. QED  BY <1>6, <1>9, Zenon

(* What the wire makes of a snapshot of the server.                        *)
LEMMA RoundedFact ==
  ASSUME NEW s, s \in Snapshot(Positions)
  PROVE  Rounded(s) \in Snapshot({p \in 0 .. Max(Positions) : p % WireUnit = 0})
<1>. DEFINE W == {p \in 0 .. Max(Positions) : p % WireUnit = 0}
            H == {b.hp : b \in Bodies} \cup {0}
<1>1. \A p \in Positions : OnWire(p) \in W
  <2>. SUFFICES ASSUME NEW p \in Positions  PROVE OnWire(p) \in W
    BY Zenon
  <2>1. p \in Nat /\ p <= Max(Positions) /\ Max(Positions) \in Nat
    BY MaxPosition, Zenon
  <2>2. OnWire(p) \in Nat /\ OnWire(p) <= p /\ OnWire(p) % WireUnit = 0
    BY <2>1, OnWireFact, Zenon
  <2>. QED  BY <2>1, <2>2
<1>. HIDE DEF W, H
<1>2. /\ s.tick \in 0 .. MaxTick /\ s.score \in {w.score : w \in Worlds} \cup {0}
      /\ s.count \in 0 .. Cardinality(Ids)
      /\ \A i \in Slots : /\ s.slots[i].id \in Ids \cup {0}
                          /\ s.slots[i].pos \in Positions /\ s.slots[i].hp \in H
  BY Zenon DEF Snapshot, H
<1>. DEFINE slot(i) == [id |-> s.slots[i].id, pos |-> OnWire(s.slots[i].pos),
                        hp |-> s.slots[i].hp]
<1>3. \A i \in Slots : slot(i) \in [id : Ids \cup {0}, pos : W, hp : H]
  BY <1>1, <1>2, Zenon
<1>4. Rounded(s) = [tick |-> s.tick, score |-> s.score, count |-> s.count,
                    slots |-> [i \in Slots |-> slot(i)]]
  BY Zenon DEF Rounded
<1>. HIDE DEF slot
<1>5. Rounded(s) \in Snapshot(W)
  BY <1>2, <1>3, <1>4 DEF Snapshot, H
<1>. QED  BY <1>5, Zenon DEF W

Empty == [score |-> 0, players |-> <<>>]

(* Ticks and publishes, and what is counted of them.                       *)
Counted ==
  /\ tick \in 0 .. MaxTick /\ stall \in Nat
  /\ Len(published) <= tick
  /\ stall + (IF fresh THEN 1 ELSE 0) <= Len(published)

(* The publishes are well formed, and the client holds one of them, or     *)
(* what it has begun with.                                                 *)
Held ==
  /\ \A n \in DOMAIN published : /\ published[n] \in Snapshot(Positions)
                                 /\ Distinct(published[n])
  /\ \/ cache = Build(0, Empty)
     \/ \E n \in DOMAIN published : cache = Rounded(published[n])

Flags == have \in BOOLEAN /\ fresh \in BOOLEAN

(* The snapshot a client begins with has no players.                       *)
LEMMA BuildEmpty ==
  Build(0, Empty) \in Snapshot({p \in 0 .. Max(Positions) : p % WireUnit = 0})
<1>. DEFINE W == {p \in 0 .. Max(Positions) : p % WireUnit = 0}
<1>1. DOMAIN Empty.players = {} /\ Cardinality({}) = 0 /\ Empty.score = 0
  BY FS_EmptySet DEF Empty
<1>2. Cardinality(Ids) \in Nat /\ MaxTick \in Nat
  BY DeltaAssumption, FS_CardinalityType, Zenon
<1>3. Build(0, Empty) = [tick |-> 0, score |-> 0, count |-> 0,
                         slots |-> [i \in Slots |-> Blank]]
  <2>1. \A i \in Slots : ~(i <= 0)
    BY <1>2 DEF Slots
  <2>. QED  BY <1>1, <2>1, Zenon DEF Build
<1>4. 0 \in W
  <2>1. Max(Positions) \in Nat /\ WireUnit \in Nat \ {0}
    BY MaxPosition, DeltaAssumption, Zenon
  <2>. QED  BY <2>1
<1>. HIDE DEF W
<1>5. Build(0, Empty) \in Snapshot(W)
  BY <1>2, <1>3, <1>4 DEF Snapshot, Blank
<1>. QED  BY <1>5, Zenon DEF W

(* A publish.                                                              *)
LEMMA PublishTypes ==
  ASSUME Stream, Counted, Held, NEW w \in Worlds, Publish(w)
  PROVE  Counted' /\ Held'
<1>. DEFINE L == Len(published)
            snap == Build(tick, w)
<1>1. PICK S : published \in Seq(S)
  BY DEF Stream
<1>2. /\ published' = Append(published, snap) /\ tick' = tick + 1
      /\ tick < MaxTick /\ fresh' /\ stall' = (IF fresh THEN 0 ELSE stall)
      /\ cache' = cache
  BY Zenon DEF Publish
<1>3. tick \in 0 .. MaxTick /\ MaxTick \in Nat
  BY DeltaAssumption, Zenon DEF Counted
<1>4. snap \in Snapshot(Positions) /\ Distinct(snap)
  BY <1>3, BuildFact, Zenon
<1>. HIDE DEF snap
<1>5. /\ L \in Nat /\ DOMAIN published = 1 .. L
      /\ DOMAIN published' = 1 .. (L + 1) /\ published' \in Seq(S \cup {snap})
      /\ published'[L + 1] = snap
      /\ \A n \in 1 .. L : published'[n] = published[n]
  BY <1>1, <1>2, AppendKeeps
<1>6. Len(published') = L + 1
  BY <1>5
<1>. HIDE DEF L
<1>7. Counted'
  <2>1. CASE fresh
    <3>1. stall' = 0 /\ L <= tick
      BY <1>2, <2>1, Zenon DEF Counted, L
    <3>. QED  BY <1>2, <1>3, <1>5, <1>6, <3>1 DEF Counted
  <2>2. CASE ~fresh
    <3>1. stall' = stall /\ L <= tick /\ stall \in Nat /\ stall + 0 <= L
      BY <1>2, <2>2, Zenon DEF Counted, L
    <3>. QED  BY <1>2, <1>3, <1>5, <1>6, <3>1 DEF Counted
  <2>. QED  BY <2>1, <2>2, Zenon
<1>8. \A n \in DOMAIN published' :
        published'[n] \in Snapshot(Positions) /\ Distinct(published'[n])
  <2>. SUFFICES ASSUME NEW n \in DOMAIN published'
                PROVE  published'[n] \in Snapshot(Positions) /\ Distinct(published'[n])
    BY Zenon
  <2>1. CASE n = L + 1
    BY <1>4, <1>5, <2>1, Zenon
  <2>2. CASE n # L + 1
    <3>1. n \in DOMAIN published /\ published'[n] = published[n]
      BY <1>5, <2>2
    <3>. QED  BY <3>1, Zenon DEF Held
  <2>. QED  BY <2>1, <2>2, Zenon
<1>9. \A n \in DOMAIN published : n \in DOMAIN published' /\ published'[n] = published[n]
  BY <1>5
<1>10. Held'
  BY <1>2, <1>8, <1>9, Zenon DEF Held
<1>. QED  BY <1>7, <1>10

(* What the client holds, the publishes and the datagrams stay together.   *)
THEOREM Invariance ==
  Spec => [](Stream /\ CacheIsPublished /\ Counted /\ Held /\ Flags)
<1>1. Init => Counted /\ Held /\ Flags
  <2>. SUFFICES ASSUME Init  PROVE Counted /\ Held /\ Flags
    BY Zenon
  <2>1. /\ tick = 0 /\ published = <<>> /\ ~fresh /\ stall = 0
        /\ cache = Build(0, Empty)
    BY Zenon DEF Init, Empty
  <2>2. Flags
    BY Zenon DEF Init, Flags
  <2>3. Counted
    BY <2>1, DeltaAssumption DEF Counted
  <2>4. DOMAIN published = {}
    BY <2>1
  <2>. QED  BY <2>1, <2>2, <2>3, <2>4, Zenon DEF Held
<1>2. Stream /\ CacheIsPublished /\ Counted /\ Held /\ Flags /\ [Next]_vars
        => Counted' /\ Held' /\ Flags'
  <2>. SUFFICES ASSUME Stream, CacheIsPublished, Counted, Held, Flags, [Next]_vars
                PROVE  Counted' /\ Held' /\ Flags'
    BY Zenon
  <2>1. Flags'
    BY Zenon DEF Flags, Next, vars, Publish, SkipPublish, Deliver, Accepted
  <2>2. ASSUME NEW w \in Worlds, Publish(w)  PROVE Counted' /\ Held'
    BY <2>2, PublishTypes, Zenon
  <2>3. CASE SkipPublish \/ UNCHANGED vars
    <3>1. /\ UNCHANGED <<published, cache, fresh, stall>>
          /\ (tick' = tick + 1 /\ tick < MaxTick) \/ tick' = tick
      BY <2>3, Zenon DEF SkipPublish, vars
    <3>2. Held'
      BY <3>1, Zenon DEF Held
    <3>3. tick' \in 0 .. MaxTick /\ tick <= tick' /\ tick \in Nat
      BY <3>1, DeltaAssumption DEF Counted
    <3>4. Len(published) \in Nat /\ Len(published) <= tick'
      <4>1. PICK S : published \in Seq(S)
        BY Zenon DEF Stream
      <4>2. Len(published) \in Nat
        BY <4>1
      <4>3. Len(published) <= tick
        BY Zenon DEF Counted
      <4>. QED  BY <3>3, <4>2, <4>3
    <3>5. Counted'
      BY <3>1, <3>3, <3>4, Zenon DEF Counted
    <3>. QED  BY <2>1, <3>2, <3>5, Zenon
  <2>4. ASSUME NEW d \in net, Deliver(d)  PROVE Counted' /\ Held'
    <3>1. UNCHANGED <<tick, published>> /\ fresh' = (fresh /\ ~IsFresh(d))
      BY <2>4, Zenon DEF Deliver
    <3>2. Held'
      <4>1. CASE Accepted(d)
        <5>1. \E n \in DOMAIN published : cache' = Rounded(published[n])
          BY <2>4, <4>1, DeliverGivesPublish, Zenon
        <5>. QED  BY <3>1, <5>1, Zenon DEF Held
      <4>2. CASE ~Accepted(d)
        <5>1. cache' = cache
          BY <2>4, <4>2, Zenon DEF Deliver, Accepted
        <5>. QED  BY <3>1, <5>1, Zenon DEF Held
      <4>. QED  BY <4>1, <4>2, Zenon
    <3>3. Counted'
      <4>. DEFINE L == Len(published)
      <4>0. stall \in Nat /\ L \in Nat
        <5>1. PICK S : published \in Seq(S)
          BY Zenon DEF Stream
        <5>. QED  BY <5>1 DEF Counted
      <4>1. CASE Accepted(d)
        <5>1. stall' = 0
          BY <2>4, <4>1, Zenon DEF Deliver
        <5>2. fresh' => fresh
          BY <3>1, Zenon
        <5>3. fresh => stall + 1 <= L
          BY Zenon DEF Counted
        <5>4. 0 + (IF fresh' THEN 1 ELSE 0) <= L
          BY <4>0, <5>2, <5>3
        <5>. QED  BY <3>1, <5>1, <5>4, Zenon DEF Counted
      <4>2. CASE ~Accepted(d) /\ IsFresh(d)
        <5>1. stall' = stall + 1 /\ fresh /\ ~fresh'
          BY <2>4, <4>2, Zenon DEF Deliver, IsFresh
        <5>2. stall + 1 <= L
          BY <5>1, Zenon DEF Counted
        <5>. QED  BY <3>1, <4>0, <5>1, <5>2 DEF Counted
      <4>3. CASE ~Accepted(d) /\ ~IsFresh(d)
        <5>1. stall' = stall /\ (fresh' <=> fresh)
          BY <2>4, <3>1, <4>3, Zenon DEF Deliver
        <5>. QED  BY <3>1, <5>1, Zenon DEF Counted
      <4>. QED  BY <4>1, <4>2, <4>3, Zenon
    <3>. QED  BY <3>2, <3>3, Zenon
  <2>. QED  BY <2>1, <2>2, <2>3, <2>4, Zenon DEF Next
<1>3. Stream /\ CacheIsPublished /\ [Next]_vars => Stream' /\ CacheIsPublished'
  BY StreamStep
<1>. QED  BY <1>1, <1>2, <1>3, InitStream, PTL DEF Spec

(* The types hold in every reachable state: what the client holds is at    *)
(* the wire's resolution, for any worlds and any resolution.               *)
THEOREM TypeCorrect == Spec => []TypeOK
<1>1. Stream /\ Counted /\ Held /\ Flags => TypeOK
  <2>. SUFFICES ASSUME Stream, Counted, Held, Flags  PROVE TypeOK
    BY Zenon
  <2>1. tick \in 0 .. MaxTick
    BY Zenon DEF Counted
  <2>2. stall \in 0 .. MaxTick
    <3>1. PICK S : published \in Seq(S)
      BY Zenon DEF Stream
    <3>2. Len(published) \in Nat /\ MaxTick \in Nat
      BY <3>1, DeltaAssumption
    <3>3. stall \in Nat /\ Len(published) <= tick
          /\ (stall + 1 <= Len(published) \/ stall + 0 <= Len(published))
      BY Zenon DEF Counted
    <3>. QED  BY <2>1, <3>2, <3>3
  <2>3. cache \in Snapshot({p \in 0 .. Max(Positions) : p % WireUnit = 0})
    <3>1. CASE cache = Build(0, Empty)
      BY <3>1, BuildEmpty, Zenon
    <3>2. ASSUME NEW n \in DOMAIN published, cache = Rounded(published[n])
          PROVE  cache \in Snapshot({p \in 0 .. Max(Positions) : p % WireUnit = 0})
      <4>1. published[n] \in Snapshot(Positions)
        BY Zenon DEF Held
      <4>2. Rounded(published[n])
              \in Snapshot({p \in 0 .. Max(Positions) : p % WireUnit = 0})
        BY <4>1, RoundedFact, Zenon
      <4>. QED  BY <3>2, <4>2, Zenon
    <3>. QED  BY <3>1, <3>2, Zenon DEF Held
  <2>4. \A n \in DOMAIN published : published[n] \in Snapshot(Positions)
    BY Zenon DEF Held
  <2>. QED  BY <2>1, <2>2, <2>3, <2>4, Zenon DEF TypeOK, Flags
<1>. QED  BY <1>1, Invariance, PTL

-----------------------------------------------------------------------------
(* Playback *)

(* No snapshot of the ring is newer than its last, and render_tick_ is not *)
(* ahead of that one: the clamp at the newest never pulls it back.         *)
Play ==
  /\ render \in Nat
  /\ \E S : ring \in Seq(S)
  /\ \A i \in DOMAIN ring : /\ ring[i].tick \in Nat
                            /\ ring[i].tick <= ring[Len(ring)].tick
  /\ ring = <<>> => render = 0
  /\ ring # <<>> => render <= At(ring[Len(ring)])

(* Counting in parts of a tick keeps the order of ticks. *)
LEMMA PartsInOrder ==
  ASSUME NEW a \in Nat, NEW b \in Nat, a <= b
  PROVE  a * Part \in Nat /\ b * Part \in Nat /\ a * Part <= b * Part
<1>1. Part \in Nat
  BY PlaybackAssumption, Zenon
<1>. QED  BY <1>1

(* push_back on the ring, full or not: the new snapshot is last, and the   *)
(* others were there before.                                               *)
LEMMA PushBackKeeps ==
  ASSUME NEW S, NEW r \in Seq(S), NEW x
  PROVE  /\ \E T : PushBack(r, x) \in Seq(T)
         /\ PushBack(r, x) # <<>>
         /\ PushBack(r, x)[Len(PushBack(r, x))] = x
         /\ \A i \in DOMAIN PushBack(r, x) :
              \/ PushBack(r, x)[i] = x
              \/ \E j \in DOMAIN r : PushBack(r, x)[i] = r[j]
<1>. DEFINE old == IF Len(r) = RingSize THEN Tail(r) ELSE r
<1>1. r = <<>> => old = r
  BY PlaybackAssumption, Zenon
<1>2. /\ old \in Seq(S)
      /\ \A i \in DOMAIN old : \E j \in DOMAIN r : old[i] = r[j]
  <2>1. CASE old = r
    BY <2>1, Zenon
  <2>2. CASE old = Tail(r) /\ r # <<>>
    <3>1. /\ old \in Seq(S) /\ DOMAIN old = 1 .. (Len(r) - 1)
          /\ \A i \in DOMAIN old : old[i] = r[i + 1]
      BY <2>2
    <3>2. \A i \in DOMAIN old : i + 1 \in DOMAIN r
      BY <3>1
    <3>. QED  BY <3>1, <3>2, Zenon
  <2>. QED  BY <1>1, <2>1, <2>2, Zenon
<1>. HIDE DEF old
<1>3. /\ Append(old, x) \in Seq(S \cup {x})
      /\ Len(old) \in Nat
      /\ DOMAIN old = 1 .. Len(old)
      /\ DOMAIN Append(old, x) = 1 .. (Len(old) + 1)
      /\ Append(old, x)[Len(old) + 1] = x
      /\ \A n \in 1 .. Len(old) : Append(old, x)[n] = old[n]
  BY <1>2, AppendKeeps
<1>4. Len(Append(old, x)) = Len(old) + 1 /\ Append(old, x) # <<>>
  BY <1>3
<1>5. ASSUME NEW i \in DOMAIN Append(old, x)
      PROVE  Append(old, x)[i] = x \/ \E j \in DOMAIN r : Append(old, x)[i] = r[j]
  <2>1. CASE i = Len(old) + 1
    BY <1>3, <2>1, Zenon
  <2>2. CASE i # Len(old) + 1
    <3>1. i \in DOMAIN old /\ Append(old, x)[i] = old[i]
      BY <1>3, <1>5, <2>2
    <3>. QED  BY <1>2, <3>1, Zenon
  <2>. QED  BY <2>1, <2>2, Zenon
<1>6. PushBack(r, x) = Append(old, x)
  BY Zenon DEF PushBack, old
<1>. QED  BY <1>3, <1>4, <1>5, <1>6, Zenon

(* A snapshot that arrives, in order or not, does not move playback back.  *)
LEMMA PushSnapshotForward ==
  ASSUME Play, NEW snap, snap.tick \in Nat, PushSnapshot(snap)
  PROVE  Play' /\ render' >= render
<1>1. CASE UNCHANGED <<ring, render>>
  BY <1>1 DEF Play
<1>2. CASE /\ ~(ring # <<>> /\ snap.tick <= Newest.tick)
           /\ ring' = PushBack(ring, snap)
           /\ render' = IF ring = <<>> THEN Max({At(snap) - Delay * Part, 0})
                                       ELSE render
  <2>1. PICK S : ring \in Seq(S)
    BY Zenon DEF Play
  <2>2. /\ \E T : ring' \in Seq(T)
        /\ ring' # <<>>
        /\ ring'[Len(ring')] = snap
        /\ \A i \in DOMAIN ring' :
             ring'[i] = snap \/ \E j \in DOMAIN ring : ring'[i] = ring[j]
    BY <1>2, <2>1, PushBackKeeps
  <2>3. \A j \in DOMAIN ring : ring[j].tick \in Nat /\ ring[j].tick <= snap.tick
    <3>. SUFFICES ASSUME NEW j \in DOMAIN ring
                  PROVE  ring[j].tick \in Nat /\ ring[j].tick <= snap.tick
      BY Zenon
    <3>1. ring # <<>> /\ Len(ring) \in DOMAIN ring
      BY <2>1
    <3>2. ~(snap.tick <= ring[Len(ring)].tick)
      BY <1>2, <3>1, Zenon DEF Newest
    <3>3. /\ ring[j].tick \in Nat /\ ring[Len(ring)].tick \in Nat
          /\ ring[j].tick <= ring[Len(ring)].tick
      BY <3>1, Zenon DEF Play
    <3>. QED  BY <3>2, <3>3
  <2>4. \A i \in DOMAIN ring' : ring'[i].tick \in Nat /\ ring'[i].tick <= snap.tick
    BY <2>2, <2>3
  <2>5. At(snap) \in Nat /\ Delay * Part \in Nat
    BY PlaybackAssumption, PartsInOrder DEF At
  <2>6. render' \in Nat /\ render' <= At(snap) /\ render' >= render
    <3>1. CASE ring = <<>>
      <4>1. render' = IF At(snap) - Delay * Part >= 0
                      THEN At(snap) - Delay * Part ELSE 0
        BY <1>2, <2>5, <3>1, MaxOfTwo
      <4>2. render = 0
        BY <3>1, Zenon DEF Play
      <4>. QED  BY <2>5, <4>1, <4>2
    <3>2. CASE ring # <<>>
      <4>1. render' = render /\ render \in Nat /\ render <= At(ring[Len(ring)])
        BY <1>2, <3>2, Zenon DEF Play
      <4>2. Len(ring) \in DOMAIN ring
        BY <2>1, <3>2
      <4>3. At(ring[Len(ring)]) \in Nat /\ At(ring[Len(ring)]) <= At(snap)
        BY <2>3, <4>2, PartsInOrder, Zenon DEF At
      <4>. QED  BY <2>5, <4>1, <4>3
    <3>. QED  BY <3>1, <3>2, Zenon
  <2>. QED  BY <2>2, <2>4, <2>6, Zenon DEF Play
<1>. QED  BY <1>1, <1>2, Zenon DEF PushSnapshot

(* A frame does not move playback back either, whatever its rate.          *)
LEMMA AdvanceForward ==
  ASSUME Play, NEW dt \in Frames, Advance(dt)
  PROVE  Play' /\ render' >= render
<1>. DEFINE last == At(ring[Len(ring)])
            first == At(ring[1])
            step == Rate * dt
<1>1. PICK S : ring \in Seq(S)
  BY Zenon DEF Play
<1>2. /\ ring # <<>> /\ ring' = ring
      /\ render' = Max({Min({render + step, last}), first})
  BY <1>1 DEF Advance, Newest
<1>3. 1 \in DOMAIN ring /\ Len(ring) \in DOMAIN ring
  BY <1>1, <1>2
<1>4. last \in Nat /\ first \in Nat /\ first <= last
  BY <1>3, PartsInOrder, Zenon DEF Play, At
<1>5. step \in Nat
  <2>1. Rate \in Nat
    BY PlaybackAssumption, Zenon DEF Rate
  <2>2. dt \in Nat
    BY PlaybackAssumption, Zenon
  <2>. QED  BY <2>1, <2>2
<1>6. render \in Nat /\ render <= last
  BY <1>2, Zenon DEF Play
<1>. DEFINE near == Min({render + step, last})
<1>. HIDE DEF step, last, first
<1>7. near = IF render + step <= last THEN render + step ELSE last
  BY <1>4, <1>5, <1>6, MinOfTwo
<1>8. near \in Int
  BY <1>4, <1>5, <1>6, <1>7
<1>9. render' = IF near >= first THEN near ELSE first
  <2>1. render' = Max({near, first})
    BY <1>2, Zenon
  <2>. HIDE DEF near
  <2>. QED  BY <1>4, <1>8, <2>1, MaxOfTwo
<1>. HIDE DEF near
<1>10. render' \in Nat /\ render' >= render /\ render' <= last
  BY <1>4, <1>5, <1>6, <1>7, <1>9
<1>. QED  BY <1>2, <1>10, Zenon DEF Play, last, At

(* A client that plays back is a client of the stream: the steps of        *)
(* Playback are steps of DeltaSnapshot or leave it alone.                  *)
THEOREM PlaysTheStream == PlaybackSpec => Spec
<1>1. PlaybackInit => Init
  BY Zenon DEF PlaybackInit
<1>2. [PlaybackNext]_playVars => [Next]_vars
  BY Zenon DEF PlaybackNext, playVars, Next, Receive, Advance
<1>. QED  BY <1>1, <1>2, PTL DEF PlaybackSpec, Spec

(* Every step keeps playback within the ring and moves it forward only. *)
LEMMA PlayStep ==
  ASSUME Stream, CacheIsPublished, Play, [PlaybackNext]_playVars
  PROVE  Play' /\ render' >= render
<1>1. ASSUME UNCHANGED <<ring, render>>
      PROVE  Play' /\ render' >= render
  BY <1>1 DEF Play
<1>2. ASSUME NEW d \in net, Receive(d)
      PROVE  Play' /\ render' >= render
  <2>1. CASE Accepted(d)
    <3>1. Deliver(d) /\ PushSnapshot(cache')
      BY <1>2, <2>1, Zenon DEF Receive
    <3>2. PICK n \in DOMAIN published : cache' = Rounded(published[n])
      BY <2>1, <3>1, DeliverGivesPublish, Zenon
    <3>3. cache'.tick \in Nat
      BY <3>2, Zenon DEF Rounded, Stream, IsSnapshot
    <3>. QED  BY <3>1, <3>3, PushSnapshotForward, Zenon
  <2>2. CASE ~Accepted(d)
    BY <1>1, <1>2, <2>2, Zenon DEF Receive
  <2>. QED  BY <2>1, <2>2, Zenon
<1>3. ASSUME NEW dt \in Frames, Advance(dt)
      PROVE  Play' /\ render' >= render
  BY <1>3, AdvanceForward, Zenon
<1>4. CASE \/ \E w \in Worlds : Publish(w) /\ UNCHANGED <<ring, render>>
           \/ SkipPublish /\ UNCHANGED <<ring, render>>
           \/ UNCHANGED playVars
  BY <1>1, <1>4, Zenon DEF playVars
<1>. QED  BY <1>2, <1>3, <1>4, Zenon DEF PlaybackNext

(* The ring and render_tick_ stay together with the stream.                *)
THEOREM PlayInvariance ==
  PlaybackSpec => [](Stream /\ CacheIsPublished /\ Held /\ Play)
<1>1. PlaybackInit => Play
  <2>. SUFFICES ASSUME PlaybackInit  PROVE Play
    BY Zenon
  <2>1. ring \in Seq({}) /\ ring = <<>> /\ DOMAIN ring = {} /\ render = 0
    BY DEF PlaybackInit
  <2>. QED  BY <2>1, Zenon DEF Play
<1>2. Stream /\ CacheIsPublished /\ Play /\ [PlaybackNext]_playVars => Play'
  BY PlayStep, Zenon
<1>. QED  BY <1>1, <1>2, PlaysTheStream, Invariance, PTL DEF PlaybackSpec

(* Playback never runs backwards: for any ring, delay, rates, frames and   *)
(* keyframe interval, and any order in which the datagrams arrive.         *)
THEOREM NeverBackwards == PlaybackSpec => PlaybackForward
<1>1. Stream /\ CacheIsPublished /\ Play /\ [PlaybackNext]_playVars
        => [render' >= render]_playVars
  BY PlayStep, Zenon
<1>. QED  BY <1>1, PlayInvariance, PTL DEF PlaybackSpec, PlaybackForward

-----------------------------------------------------------------------------
(* What is drawn *)

(* A quotient between two whole numbers.                                   *)
LEMMA DivBetween ==
  ASSUME NEW v \in Int, NEW den \in Nat \ {0}, NEW lo \in Int, NEW hi \in Int,
         2 * (lo * den) <= v, v < 2 * (hi * den) + 2 * den
  PROVE  /\ v \div (2 * den) \in Int
         /\ lo <= v \div (2 * den) /\ v \div (2 * den) <= hi
<1>. DEFINE D == 2 * den
            q == v \div D
<1>1. D \in Nat \ {0}
  OBVIOUS
<1>. HIDE DEF D
<1>2. q \in Int /\ D * q <= v /\ v < D * (q + 1)
  BY <1>1
<1>. HIDE DEF q
<1>3. D * lo = 2 * (lo * den) /\ D * (hi + 1) = 2 * (hi * den) + 2 * den
  BY DEF D
<1>4. lo <= q
  <2>. SUFFICES ASSUME q + 1 <= lo  PROVE FALSE
    BY <1>2
  <2>1. D * (q + 1) <= D * lo
    BY <1>1, <1>2
  <2>2. D * lo <= v
    BY <1>3, Zenon
  <2>3. D * lo \in Int /\ D * (q + 1) \in Int
    BY <1>1, <1>2
  <2>. QED  BY <1>2, <2>1, <2>2, <2>3
<1>5. q <= hi
  <2>. SUFFICES ASSUME hi + 1 <= q  PROVE FALSE
    BY <1>2
  <2>1. D * (hi + 1) <= D * q
    BY <1>1, <1>2
  <2>2. v < D * (hi + 1)
    BY <1>3, Zenon
  <2>3. D * (hi + 1) \in Int /\ D * q \in Int
    BY <1>1, <1>2
  <2>. QED  BY <1>2, <2>1, <2>2, <2>3
<1>. QED  BY <1>2, <1>4, <1>5, Zenon DEF q, D

(* lerp_i32 stays between its ends, and begins at the first.               *)
LEMMA LerpBetween ==
  ASSUME NEW a \in Int, NEW b \in Int, NEW den \in Nat \ {0},
         NEW num \in 0 .. den
  PROVE  /\ Lerp(a, b, num, den) \in Int
         /\ a <= b => a <= Lerp(a, b, num, den) /\ Lerp(a, b, num, den) <= b
         /\ b <= a => b <= Lerp(a, b, num, den) /\ Lerp(a, b, num, den) <= a
         /\ num = 0 => Lerp(a, b, num, den) = a
<1>. DEFINE A == a * den
            B == b * den
            e == (b - a) * num
            v == 2 * (A + e) + den
            l == Lerp(a, b, num, den)
<1>0. A \in Int /\ B \in Int /\ e \in Int /\ num \in Nat /\ (b - a) * den = B - A
  OBVIOUS
<1>1. a <= b => 0 <= e /\ e <= B - A
  <2>. SUFFICES ASSUME a <= b  PROVE 0 <= e /\ e <= B - A
    BY Zenon
  <2>. DEFINE c == b - a
  <2>1. c \in Nat
    OBVIOUS
  <2>2. 0 <= c * num /\ c * num <= c * den
    <3>. HIDE DEF c
    <3>. QED  BY <2>1
  <2>. QED  BY <1>0, <2>2, Zenon
<1>2. b <= a => B - A <= e /\ e <= 0
  <2>. SUFFICES ASSUME b <= a  PROVE B - A <= e /\ e <= 0
    BY Zenon
  <2>. DEFINE c == a - b
  <2>1. c \in Nat /\ e = -(c * num) /\ B - A = -(c * den)
    OBVIOUS
  <2>2. 0 <= c * num /\ c * num <= c * den /\ c * num \in Int /\ c * den \in Int
    <3>. HIDE DEF c
    <3>. QED  BY <2>1
  <2>. HIDE DEF c, e, A, B
  <2>. DEFINE x == c * num
              y == c * den
  <2>3. e = -x /\ B - A = -y /\ 0 <= x /\ x <= y /\ x \in Int /\ y \in Int
    BY <2>1, <2>2, Zenon
  <2>. HIDE DEF x, y
  <2>. QED  BY <1>0, <2>3
<1>3. num = 0 => e = 0
  OBVIOUS
<1>4. l = v \div (2 * den)
  BY Zenon DEF Lerp
<1>. HIDE DEF A, B, e, l
<1>5. v \in Int
  BY <1>0
<1>6. a <= b => l \in Int /\ a <= l /\ l <= b
  <2>. SUFFICES ASSUME a <= b  PROVE l \in Int /\ a <= l /\ l <= b
    BY Zenon
  <2>1. 2 * A <= v /\ v < 2 * B + 2 * den
    BY <1>0, <1>1
  <2>2. 2 * (a * den) <= v /\ v < 2 * (b * den) + 2 * den
    BY <2>1, Zenon DEF A, B
  <2>. HIDE DEF v
  <2>. QED  BY <1>4, <1>5, <2>2, DivBetween, Zenon
<1>7. b <= a => l \in Int /\ b <= l /\ l <= a
  <2>. SUFFICES ASSUME b <= a  PROVE l \in Int /\ b <= l /\ l <= a
    BY Zenon
  <2>1. 2 * B <= v /\ v < 2 * A + 2 * den
    BY <1>0, <1>2
  <2>2. 2 * (b * den) <= v /\ v < 2 * (a * den) + 2 * den
    BY <2>1, Zenon DEF A, B
  <2>. HIDE DEF v
  <2>. QED  BY <1>4, <1>5, <2>2, DivBetween, Zenon
<1>8. num = 0 => l = a
  <2>. SUFFICES ASSUME num = 0  PROVE l = a
    BY Zenon
  <2>1. 2 * A <= v /\ v < 2 * A + 2 * den
    BY <1>0, <1>3
  <2>2. 2 * (a * den) <= v /\ v < 2 * (a * den) + 2 * den
    BY <2>1, Zenon DEF A
  <2>. HIDE DEF v
  <2>3. l \in Int /\ a <= l /\ l <= a
    BY <1>4, <1>5, <2>2, DivBetween, Zenon
  <2>. QED  BY <2>3
<1>9. l \in Int
  BY <1>6, <1>7
<1>. QED  BY <1>6, <1>7, <1>8, <1>9, Zenon DEF l

(* The ring holds publishes in their order, and the client has none that   *)
(* is newer.                                                               *)
RingIs ==
  /\ \A i \in DOMAIN ring : \E n \in DOMAIN published :
       ring[i] = Rounded(published[n])
  /\ \A i, j \in DOMAIN ring : i < j => ring[i].tick < ring[j].tick
  /\ ring # <<>> =>
       \E n \in DOMAIN published : /\ cache = Rounded(published[n])
                                   /\ cache.tick <= ring[Len(ring)].tick

(* q is r without its first k entries and with x behind them.              *)
Shifted(q, r, x, k) ==
  /\ Len(r) - k \in Nat /\ DOMAIN q = 1 .. (Len(r) - k) + 1
  /\ Len(q) = (Len(r) - k) + 1 /\ q[(Len(r) - k) + 1] = x
  /\ \A i \in 1 .. Len(r) - k : i + k \in DOMAIN r /\ q[i] = r[i + k]

(* push_back, position by position.                                        *)
LEMMA PushBackShift ==
  ASSUME NEW S, NEW r \in Seq(S), NEW x
  PROVE  \E k \in 0 .. 1 : Shifted(PushBack(r, x), r, x, k)
<1>1. CASE Len(r) = RingSize
  <2>1. r # <<>> /\ Len(r) \in Nat /\ Len(r) - 1 \in Nat
    BY <1>1, PlaybackAssumption
  <2>. DEFINE t == Tail(r)
  <2>2. /\ t \in Seq(S) /\ Len(t) = Len(r) - 1
        /\ \A i \in 1 .. Len(t) : i + 1 \in DOMAIN r /\ t[i] = r[i + 1]
    BY <2>1
  <2>. HIDE DEF t
  <2>3. /\ Append(t, x) \in Seq(S \cup {x})
        /\ DOMAIN Append(t, x) = 1 .. (Len(t) + 1)
        /\ Append(t, x)[Len(t) + 1] = x
        /\ \A n \in 1 .. Len(t) : Append(t, x)[n] = t[n]
    BY <2>2, AppendKeeps
  <2>4. Len(Append(t, x)) = Len(t) + 1
    BY <2>3
  <2>5. PushBack(r, x) = Append(t, x)
    BY <1>1, Zenon DEF PushBack, t
  <2>. HIDE DEF t
  <2>6. 1 \in 0 .. 1
    OBVIOUS
  <2>7. Shifted(PushBack(r, x), r, x, 1)
    BY <2>1, <2>2, <2>3, <2>4, <2>5, Zenon DEF Shifted
  <2>. QED  BY <2>6, <2>7, Zenon
<1>2. CASE Len(r) # RingSize
  <2>1. /\ Append(r, x) \in Seq(S \cup {x}) /\ Len(r) \in Nat
        /\ DOMAIN r = 1 .. Len(r)
        /\ DOMAIN Append(r, x) = 1 .. (Len(r) + 1)
        /\ Append(r, x)[Len(r) + 1] = x
        /\ \A n \in 1 .. Len(r) : Append(r, x)[n] = r[n]
    BY AppendKeeps
  <2>2. Len(Append(r, x)) = Len(r) + 1
    BY <2>1
  <2>3. PushBack(r, x) = Append(r, x)
    BY <1>2, Zenon DEF PushBack
  <2>4. Len(r) - 0 = Len(r) /\ \A i \in 1 .. Len(r) : i + 0 = i
    BY <2>1
  <2>5. 0 \in 0 .. 1
    OBVIOUS
  <2>6. Shifted(PushBack(r, x), r, x, 0)
    <3>1. \A i \in 1 .. Len(r) - 0 :
            i + 0 \in DOMAIN r /\ Append(r, x)[i] = r[i + 0]
      BY <2>1, <2>4
    <3>2. /\ Len(r) - 0 \in Nat
          /\ DOMAIN Append(r, x) = 1 .. (Len(r) - 0) + 1
          /\ Len(Append(r, x)) = (Len(r) - 0) + 1
          /\ Append(r, x)[(Len(r) - 0) + 1] = x
      BY <2>1, <2>2, <2>4, Zenon
    <3>. QED  BY <2>3, <3>1, <3>2, Zenon DEF Shifted
  <2>. QED  BY <2>5, <2>6, Zenon
<1>. QED  BY <1>1, <1>2, Zenon

(* push_snapshot with what the client has accepted.                        *)
LEMMA PushRing ==
  ASSUME Stream, Play, RingIs, UNCHANGED published, PushSnapshot(cache'),
         NEW n \in DOMAIN published, cache' = Rounded(published[n])
  PROVE  RingIs'
<1>0. PICK S : ring \in Seq(S)
  BY Zenon DEF Play
<1>1. cache'.tick \in Nat
  BY Zenon DEF Stream, IsSnapshot, Rounded
<1>2. CASE ring # <<>> /\ cache'.tick <= Newest.tick
  <2>1. ring' = ring
    BY <1>2, Zenon DEF PushSnapshot
  <2>2. cache'.tick <= ring'[Len(ring')].tick
    BY <1>2, <2>1, Zenon DEF Newest
  <2>. QED  BY <2>1, <2>2, Zenon DEF RingIs
<1>3. CASE ~(ring # <<>> /\ cache'.tick <= Newest.tick)
  <2>. DEFINE x == cache'
              L == Len(ring)
  <2>1. ring' = PushBack(ring, x)
    BY <1>3, Zenon DEF PushSnapshot
  <2>. HIDE DEF x
  <2>0. PICK k \in 0 .. 1 : Shifted(ring', ring, x, k)
    BY <1>0, <2>1, PushBackShift, Zenon
  <2>2. /\ L - k \in Nat /\ DOMAIN ring' = 1 .. (L - k) + 1
        /\ Len(ring') = (L - k) + 1 /\ ring'[(L - k) + 1] = x
        /\ \A i \in 1 .. L - k : i + k \in DOMAIN ring /\ ring'[i] = ring[i + k]
    BY <2>0, Zenon DEF Shifted
  <2>. DEFINE M == L - k
  <2>3. \A j \in DOMAIN ring : ring[j].tick < x.tick
    <3>. SUFFICES ASSUME NEW j \in DOMAIN ring  PROVE ring[j].tick < x.tick
      BY Zenon
    <3>1. ring # <<>> /\ L \in DOMAIN ring
      BY <1>0
    <3>2. ~(x.tick <= ring[L].tick)
      BY <1>3, <3>1, Zenon DEF Newest, x
    <3>3. /\ ring[j].tick \in Nat /\ ring[L].tick \in Nat
          /\ ring[j].tick <= ring[L].tick
      BY <3>1, Zenon DEF Play
    <3>. QED  BY <1>1, <3>2, <3>3 DEF x
  <2>. HIDE DEF L
  <2>4. k \in Int /\ M \in Nat
    BY <2>2
  <2>5. /\ DOMAIN ring' = 1 .. M + 1 /\ Len(ring') = M + 1 /\ ring'[M + 1] = x
        /\ \A i \in 1 .. M : i + k \in DOMAIN ring /\ ring'[i] = ring[i + k]
    BY <2>2, Zenon
  <2>. HIDE DEF M
  <2>6. \A i \in DOMAIN ring' : i \in 1 .. M \/ i = M + 1
    BY <2>4, <2>5
  <2>7. \A i \in DOMAIN ring' : \E m \in DOMAIN published' :
          ring'[i] = Rounded(published'[m])
    <3>. SUFFICES ASSUME NEW i \in DOMAIN ring'
                  PROVE  \E m \in DOMAIN published : ring'[i] = Rounded(published[m])
      BY Zenon
    <3>1. CASE i = M + 1
      BY <2>5, <3>1, Zenon DEF x
    <3>2. CASE i \in 1 .. M
      BY <2>5, <3>2, Zenon DEF RingIs
    <3>. QED  BY <2>6, <3>1, <3>2, Zenon
  <2>8. ASSUME NEW i \in DOMAIN ring', NEW j \in DOMAIN ring', i < j
        PROVE  ring'[i].tick < ring'[j].tick
    <3>1. i \in 1 .. M
      BY <2>4, <2>5, <2>8
    <3>2. CASE j = M + 1
      BY <2>3, <2>5, <3>1, <3>2, Zenon
    <3>3. CASE j \in 1 .. M
      <4>1. i + k < j + k
        BY <2>4, <2>8, <3>1, <3>3
      <4>2. /\ i + k \in DOMAIN ring /\ j + k \in DOMAIN ring
            /\ ring'[i] = ring[i + k] /\ ring'[j] = ring[j + k]
        BY <2>5, <3>1, <3>3, Zenon
      <4>3. ring[i + k].tick < ring[j + k].tick
        BY <4>1, <4>2, Zenon DEF RingIs
      <4>. QED  BY <4>2, <4>3, Zenon
    <3>. QED  BY <2>6, <3>2, <3>3, Zenon
  <2>9. cache' = Rounded(published'[n]) /\ n \in DOMAIN published'
        /\ cache'.tick <= ring'[Len(ring')].tick
    <3>1. x.tick <= x.tick
      BY <1>1 DEF x
    <3>2. ring'[Len(ring')] = x
      BY <2>5, Zenon
    <3>. QED  BY <3>1, <3>2, Zenon DEF x
  <2>. QED  BY <2>7, <2>8, <2>9, Zenon DEF RingIs
<1>. QED  BY <1>2, <1>3, Zenon

(* Every step keeps the ring as it should be.                              *)
LEMMA RingStep ==
  ASSUME Stream, CacheIsPublished, Play, RingIs, [PlaybackNext]_playVars
  PROVE  RingIs'
<1>1. ASSUME NEW w \in Worlds, Publish(w), UNCHANGED <<ring, render>>
      PROVE  RingIs'
  <2>1. PICK S : published \in Seq(S)
    BY Zenon DEF Stream
  <2>2. \A n \in DOMAIN published :
          n \in DOMAIN published' /\ published'[n] = published[n]
    BY <1>1, <2>1, AppendKeeps DEF Publish
  <2>3. cache' = cache
    BY <1>1, Zenon DEF Publish
  <2>. QED  BY <1>1, <2>2, <2>3, ZenonT(30) DEF RingIs
<1>2. ASSUME UNCHANGED <<published, cache, ring>>  PROVE RingIs'
  BY <1>2, Zenon DEF RingIs
<1>3. ASSUME NEW d \in net, Receive(d)  PROVE RingIs'
  <2>1. Deliver(d) /\ UNCHANGED published
    BY <1>3, Zenon DEF Receive, Deliver
  <2>2. CASE Accepted(d)
    <3>1. PushSnapshot(cache')
      BY <1>3, <2>2, Zenon DEF Receive
    <3>2. PICK n \in DOMAIN published : cache' = Rounded(published[n])
      BY <2>1, <2>2, DeliverGivesPublish, Zenon
    <3>. QED  BY <2>1, <3>1, <3>2, PushRing, Zenon
  <2>3. CASE ~Accepted(d)
    <3>1. cache' = cache /\ ring' = ring
      BY <1>3, <2>1, <2>3, Zenon DEF Receive, Deliver, Accepted
    <3>. QED  BY <1>2, <2>1, <3>1, Zenon
  <2>. QED  BY <2>2, <2>3, Zenon
<1>4. CASE SkipPublish /\ UNCHANGED <<ring, render>>
  BY <1>2, <1>4, Zenon DEF SkipPublish
<1>5. CASE (\E dt \in Frames : Advance(dt)) \/ UNCHANGED playVars
  BY <1>2, <1>5, Zenon DEF Advance, playVars, vars
<1>. QED  BY <1>1, <1>3, <1>4, <1>5, Zenon DEF PlaybackNext

(* find_player on a snapshot as a client holds it.                         *)
LEMMA FindFact ==
  ASSUME NEW q, q \in Snapshot(Positions), Distinct(q), NEW id \in Ids,
         HasPlayer(Rounded(q), id)
  PROVE  LET f == FindPlayer(Rounded(q), id)
         IN  /\ f.id = id
             /\ f = [id |-> f.id, pos |-> f.pos, hp |-> f.hp]
             /\ f.pos \in Nat
             /\ \A i \in 1 .. q.count :
                  Rounded(q).slots[i].id = id => f = Rounded(q).slots[i]
<1>. DEFINE s == Rounded(q)
            found == SlotsOf(s, id)
            f == FindPlayer(s, id)
<1>1. /\ s.count = q.count /\ q.count \in Nat /\ q.count <= Cardinality(Ids)
      /\ Cardinality(Ids) \in Nat
      /\ \A i \in Slots : s.slots[i] = [id |-> q.slots[i].id,
                                        pos |-> OnWire(q.slots[i].pos),
                                        hp |-> q.slots[i].hp]
  <2>1. Cardinality(Ids) \in Nat
    BY DeltaAssumption, FS_CardinalityType, Zenon
  <2>2. q.count \in 0 .. Cardinality(Ids) /\ s.count = q.count
    BY Zenon DEF Snapshot, Rounded
  <2>3. \A i \in Slots : s.slots[i] = [id |-> q.slots[i].id,
                                       pos |-> OnWire(q.slots[i].pos),
                                       hp |-> q.slots[i].hp]
    BY Zenon DEF Rounded
  <2>. QED  BY <2>1, <2>2, <2>3
<1>2. \A i \in 1 .. q.count : i \in Slots
  BY <1>1 DEF Slots
<1>3. \A i \in Slots : q.slots[i].pos \in Positions
  BY Zenon DEF Snapshot
<1>. HIDE DEF s
<1>4. \A i \in 1 .. q.count :
        /\ s.slots[i] = [id |-> s.slots[i].id, pos |-> s.slots[i].pos,
                         hp |-> s.slots[i].hp]
        /\ s.slots[i].pos \in Nat /\ s.slots[i].id = q.slots[i].id
  <2>. TAKE i \in 1 .. q.count
  <2>1. q.slots[i].pos \in Nat
    BY <1>2, <1>3, MaxPosition, Zenon
  <2>2. OnWire(q.slots[i].pos) \in Nat
    BY <2>1, OnWireFact, Zenon
  <2>3. s.slots[i] = [id |-> q.slots[i].id, pos |-> OnWire(q.slots[i].pos),
                      hp |-> q.slots[i].hp]
    BY <1>1, <1>2, Zenon
  <2>4. PICK r : r = s.slots[i]
    BY Zenon
  <2>5. r = [id |-> r.id, pos |-> r.pos, hp |-> r.hp]
        /\ r.pos \in Nat /\ r.id = q.slots[i].id
    BY <2>2, <2>3, <2>4
  <2>. QED  BY <2>4, <2>5, Zenon
<1>5. found # {}
  BY Zenon DEF HasPlayer, s
<1>6. f = s.slots[Min(found)]
  BY Zenon DEF FindPlayer
<1>7. found \in SUBSET Nat
  BY <1>1 DEF SlotsOf
<1>. HIDE DEF found
<1>8. \E x \in found : \A y \in found : x <= y
  BY <1>5, <1>7, Least, Zenon
<1>9. Min(found) \in found
  BY <1>8, Zenon DEF Min
<1>10. PICK k \in 1 .. q.count : k = Min(found) /\ s.slots[k].id = id
  BY <1>1, <1>9, Zenon DEF found, SlotsOf
<1>11. f = s.slots[k]
  BY <1>6, <1>10, Zenon
<1>12. ASSUME NEW i \in 1 .. q.count, s.slots[i].id = id
      PROVE  f = s.slots[i]
  <2>1. q.slots[i].id = q.slots[k].id
    BY <1>4, <1>10, <1>12, Zenon
  <2>2. i = k
    BY <2>1, Zenon DEF Distinct
  <2>. QED  BY <1>11, <2>2, Zenon
<1>. HIDE DEF f
<1>13. f.id = id
  BY <1>10, <1>11, Zenon
<1>14. f = [id |-> f.id, pos |-> f.pos, hp |-> f.hp] /\ f.pos \in Nat
  BY <1>4, <1>11, Zenon
<1>. QED  BY <1>12, <1>13, <1>14, Zenon DEF f, s

(* A player taken from one publish.                                        *)
LEMMA ShownAlone ==
  ASSUME NEW m \in DOMAIN published, published[m].tick <= Newest.tick,
         NEW id \in Ids, NEW p, p = FindPlayer(Rounded(published[m]), id),
         HasPlayer(Rounded(published[m]), id), p.id = id, p.pos \in Nat
  PROVE  Shown(p, id, m, m)
<1>1. FindPlayer(Rounded(published[m]), id) = p
  BY Zenon
<1>2. p.pos \in Int
  OBVIOUS
<1>3. Min({p.pos, p.pos}) = p.pos /\ Max({p.pos, p.pos}) = p.pos
  <2>1. Min({p.pos, p.pos}) = IF p.pos <= p.pos THEN p.pos ELSE p.pos
    BY <1>2, MinOfTwo, Zenon
  <2>2. Max({p.pos, p.pos}) = IF p.pos >= p.pos THEN p.pos ELSE p.pos
    BY <1>2, MaxOfTwo, Zenon
  <2>. QED  BY <2>1, <2>2, Zenon
<1>4. p.pos <= p.pos
  OBVIOUS
<1>. QED  BY <1>1, <1>3, <1>4, Zenon DEF Shown

(* A player on the way from one publish to another.                        *)
LEMMA ShownBetween ==
  ASSUME NEW m \in DOMAIN published, NEW n \in DOMAIN published,
         published[n].tick <= Newest.tick,
         At(published[m]) <= render, render <= At(published[n]),
         NEW pa, NEW pb, NEW id, NEW p, p.id = id,
         HasPlayer(Rounded(published[m]), id),
         HasPlayer(Rounded(published[n]), id),
         pa = FindPlayer(Rounded(published[m]), id),
         pb = FindPlayer(Rounded(published[n]), id),
         pa.pos \in Nat, pb.pos \in Nat, p.hp = pa.hp \/ p.hp = pb.hp,
         NEW num, NEW den \in Nat \ {0}, num \in 0 .. den,
         p.pos = Lerp(pa.pos, pb.pos, num, den)
  PROVE  Shown(p, id, m, n)
<1>. DEFINE x == pa.pos
            y == pb.pos
            l == p.pos
<1>1. x \in Int /\ y \in Int
  OBVIOUS
<1>. HIDE DEF x, y
<1>2. l \in Int /\ (x <= y => x <= l /\ l <= y) /\ (y <= x => y <= l /\ l <= x)
  <2>1. l = Lerp(x, y, num, den)
    BY Zenon DEF x, y
  <2>2. /\ Lerp(x, y, num, den) \in Int
        /\ x <= y => x <= Lerp(x, y, num, den) /\ Lerp(x, y, num, den) <= y
        /\ y <= x => y <= Lerp(x, y, num, den) /\ Lerp(x, y, num, den) <= x
    BY <1>1, LerpBetween, Zenon
  <2>. QED  BY <2>1, <2>2, Zenon
<1>3. /\ Min({x, y}) = IF x <= y THEN x ELSE y
      /\ Max({x, y}) = IF x >= y THEN x ELSE y
  BY <1>1, MinOfTwo, MaxOfTwo, Zenon
<1>. HIDE DEF l
<1>4. Min({x, y}) <= l /\ l <= Max({x, y})
  BY <1>1, <1>2, <1>3
<1>5. Min({pa.pos, pb.pos}) <= p.pos /\ p.pos <= Max({pa.pos, pb.pos})
  BY <1>4, Zenon DEF x, y, l
<1>. QED  BY <1>5, Zenon DEF Shown

(* The snapshot of the ring that is due, and the one after it.             *)
LEMMA Bracket ==
  ASSUME Play, RingIs, ring # <<>>
  PROVE  LET a == Due
             b == Coming
             den == At(ring[b]) - At(ring[a])
             num == Max({0, Min({den, render - At(ring[a])})})
         IN  /\ a \in DOMAIN ring /\ b \in DOMAIN ring
             /\ a # b =>
                  /\ den \in Nat \ {0} /\ num \in 0 .. den
                  /\ \/ At(ring[a]) <= render /\ render <= At(ring[b])
                     \/ num = 0
<1>. DEFINE U == {i \in DOMAIN ring : \A j \in 1 .. i : At(ring[j]) <= render}
            A == {1} \cup U
            a == Max(A)
            b == Min({a + 1, Len(ring)})
            L == Len(ring)
<1>1. L \in Nat \ {0} /\ DOMAIN ring = 1 .. L
  <2>1. PICK S : ring \in Seq(S)
    BY Zenon DEF Play
  <2>. QED  BY <2>1
<1>2. A \subseteq 1 .. L
  BY <1>1
<1>3. a \in A /\ \A y \in A : y <= a
  <2>. HIDE DEF A
  <2>1. A \in SUBSET Nat /\ 1 \in A
    BY <1>1, <1>2 DEF A
  <2>2. IsFiniteSet(1 .. L)
    BY <1>1, FS_Interval
  <2>3. IsFiniteSet(A)
    BY <1>2, <2>2, FS_Subset, Zenon
  <2>4. PICK x \in A : \A y \in A : y <= x
    BY <2>1, <2>3, Greatest, Zenon
  <2>5. \A y \in A : x >= y
    BY <2>1, <2>4, Zenon
  <2>6. a \in A /\ \A y \in A : a >= y
    BY <2>5, Zenon DEF Max
  <2>. QED  BY <2>1, <2>6, Zenon
<1>4. a \in 1 .. L /\ (a \in U \/ a = 1) /\ a + 1 \notin U
  <2>1. a \in 1 .. L
    BY <1>2, <1>3, Zenon
  <2>. HIDE DEF a, U
  <2>2. a \in U \/ a = 1
    BY <1>3, Zenon
  <2>3. ~(a + 1 <= a)
    BY <1>1, <2>1
  <2>4. a + 1 \notin U
    BY <1>3, <2>3, Zenon
  <2>. QED  BY <2>1, <2>2, <2>4, Zenon
<1>5. U = {i \in 1 .. L : \A j \in 1 .. i : At(ring[j]) <= render}
  BY <1>1, Zenon
<1>. HIDE DEF a, A, U
<1>6. b = (IF a + 1 <= L THEN a + 1 ELSE L) /\ b \in 1 .. L
  <2>1. a + 1 \in Int /\ L \in Int
    BY <1>1, <1>4
  <2>. HIDE DEF L
  <2>2. Min({a + 1, L}) = IF a + 1 <= L THEN a + 1 ELSE L
    BY <2>1, MinOfTwo, Zenon
  <2>3. b = Min({a + 1, L})
    BY Zenon DEF L
  <2>. QED  BY <1>1, <1>4, <2>2, <2>3
<1>. HIDE DEF b
<1>. DEFINE ta == At(ring[a])
            tb == At(ring[b])
            den == tb - ta
            num == Max({0, Min({den, render - ta})})
<1>7. ASSUME a # b
      PROVE  /\ den \in Nat \ {0} /\ num \in 0 .. den
             /\ (ta <= render /\ render <= tb) \/ num = 0
  <2>1. b = a + 1 /\ a < b
    <3>. HIDE DEF L
    <3>1. a \in Nat /\ L \in Nat /\ a <= L /\ b = IF a + 1 <= L THEN a + 1 ELSE L
      BY <1>1, <1>4, <1>6
    <3>2. a # b
      BY <1>7, Zenon
    <3>. QED  BY <3>1, <3>2
  <2>2. ring[a].tick \in Nat /\ ring[b].tick \in Nat /\ ring[a].tick < ring[b].tick
    BY <1>1, <1>4, <1>6, <2>1, Zenon DEF Play, RingIs
  <2>3. ta \in Nat /\ tb \in Nat /\ ta < tb
    <3>1. ring[a].tick + 1 <= ring[b].tick /\ ring[a].tick + 1 \in Nat
      BY <2>2
    <3>2. Part \in Nat \ {0}
      BY PlaybackAssumption, Zenon
    <3>. DEFINE u == ring[a].tick
                v == ring[b].tick
    <3>. HIDE DEF u, v
    <3>3. u \in Nat /\ v \in Nat /\ u + 1 <= v /\ u + 1 \in Nat
      BY <2>2, <3>1, Zenon DEF u, v
    <3>4. (u + 1) * Part <= v * Part /\ v * Part \in Nat
      BY <3>3, PartsInOrder, Zenon
    <3>5. (u + 1) * Part = u * Part + Part /\ u * Part \in Nat
      BY <3>2, <3>3
    <3>6. u * Part < v * Part
      <4>. DEFINE x == u * Part
                  y == v * Part
                  z == (u + 1) * Part
      <4>1. z <= y /\ z = x + Part /\ x \in Nat /\ y \in Nat
        BY <3>4, <3>5, Zenon
      <4>. HIDE DEF x, y, z
      <4>2. x < y
        BY <3>2, <4>1
      <4>. QED  BY <4>2, Zenon DEF x, y
    <3>7. ta = u * Part /\ tb = v * Part
      BY Zenon DEF At, u, v
    <3>. QED  BY <3>4, <3>5, <3>6, <3>7, Zenon
  <2>. HIDE DEF ta, tb
  <2>4. render \in Nat
    BY Zenon DEF Play
  <2>5. den \in Nat \ {0} /\ render - ta \in Int
    BY <2>3, <2>4
  <2>. DEFINE low == Min({den, render - ta})
  <2>. HIDE DEF den
  <2>6. low = IF den <= render - ta THEN den ELSE render - ta
    <3>1. den \in Int
      BY <2>5
    <3>. QED  BY <2>5, <3>1, MinOfTwo, Zenon
  <2>. HIDE DEF low
  <2>7. low \in Int
    BY <2>5, <2>6
  <2>8. num = IF 0 >= low THEN 0 ELSE low
    <3>1. num = Max({0, low})
      BY Zenon DEF low
    <3>. QED  BY <2>7, <3>1, MaxOfTwo
  <2>. HIDE DEF num
  <2>9. num \in 0 .. den
    BY <2>5, <2>6, <2>7, <2>8
  <2>10. (ta <= render /\ render <= tb) \/ num = 0
    <3>1. CASE a \in U
      <4>1. \A j \in 1 .. a : At(ring[j]) <= render
        BY <1>5, <3>1, Zenon
      <4>2. ta <= render
        <5>1. a \in 1 .. a
          BY <1>4
        <5>. QED  BY <4>1, <5>1, Zenon DEF ta
      <4>3. b \in 1 .. L /\ \E j \in 1 .. b : ~(At(ring[j]) <= render)
        <5>1. b \notin U
          BY <1>4, <2>1, Zenon
        <5>. QED  BY <1>5, <1>6, <5>1, Zenon
      <4>4. PICK j \in 1 .. b : ~(At(ring[j]) <= render)
        BY <4>3, Zenon
      <4>5. j \in 1 .. a \/ j = b
        BY <1>4, <2>1
      <4>6. ~(tb <= render)
        BY <4>1, <4>4, <4>5, Zenon DEF tb
      <4>. QED  BY <2>3, <2>4, <4>2, <4>6
    <3>2. CASE a \notin U
      <4>1. a = 1
        BY <1>4, <3>2, Zenon
      <4>2. PICK j \in 1 .. a : ~(At(ring[j]) <= render)
        BY <1>4, <1>5, <3>2, Zenon
      <4>3. j = a
        BY <4>1
      <4>4. ~(ta <= render)
        BY <4>2, <4>3, Zenon DEF ta
      <4>5. render - ta < 0
        BY <2>3, <2>4, <4>4
      <4>. QED  BY <2>5, <2>6, <2>8, <4>5
    <3>. QED  BY <3>1, <3>2, Zenon
  <2>. QED  BY <2>5, <2>9, <2>10, Zenon DEF den
<1>8. a \in DOMAIN ring /\ b \in DOMAIN ring
  BY <1>1, <1>4, <1>6, Zenon
<1>9. Due = a /\ Coming = b
  BY Zenon DEF Due, Coming, a, A, U, b
<1>. QED  BY <1>7, <1>8, <1>9, Zenon

(* sample: a player that it finds is shown as DrawnFromPublishes says.     *)
LEMMA SampleShown ==
  ASSUME Stream, Held, Play, RingIs, ring # <<>>, NEW id \in Ids, ~Missing(id)
  PROVE  \E m, n \in DOMAIN published : Shown(Sample(id), id, m, n)
<1>. DEFINE a == Due
            b == Coming
            pa == FindPlayer(ring[a], id)
            pb == FindPlayer(ring[b], id)
            inA == HasPlayer(ring[a], id)
            inB == HasPlayer(ring[b], id)
            den == At(ring[b]) - At(ring[a])
            num == Max({0, Min({den, render - At(ring[a])})})
            p == Sample(id)
<1>1. /\ a \in DOMAIN ring /\ b \in DOMAIN ring
      /\ a # b =>
           /\ den \in Nat \ {0} /\ num \in 0 .. den
           /\ \/ At(ring[a]) <= render /\ render <= At(ring[b])
              \/ num = 0
  BY Bracket, Zenon
<1>2. /\ p = IF ~inA THEN IF inB THEN pb ELSE Blank
             ELSE IF ~inB \/ a = b THEN pa
             ELSE [(IF 2 * num < den THEN pa ELSE pb)
                     EXCEPT !.pos = Lerp(pa.pos, pb.pos, num, den)]
      /\ inA \/ inB
  BY Zenon DEF Sample, Missing
<1>. HIDE DEF a, b, num, p, pa, pb, den, inA, inB
<1>3. ASSUME NEW k \in DOMAIN ring
      PROVE  \E m \in DOMAIN published :
               /\ ring[k] = Rounded(published[m])
               /\ published[m].tick <= Newest.tick
               /\ At(published[m]) = At(ring[k])
               /\ published[m] \in Snapshot(Positions) /\ Distinct(published[m])
  <2>1. PICK m \in DOMAIN published : ring[k] = Rounded(published[m])
    BY Zenon DEF RingIs
  <2>2. ring[k].tick = published[m].tick
    BY <2>1 DEF Rounded
  <2>3. ring[k].tick <= Newest.tick
    BY Zenon DEF Play, Newest
  <2>4. published[m] \in Snapshot(Positions) /\ Distinct(published[m])
    BY Zenon DEF Held
  <2>. QED  BY <2>1, <2>2, <2>3, <2>4, Zenon DEF At
<1>4. PICK m \in DOMAIN published :
        /\ ring[a] = Rounded(published[m])
        /\ published[m].tick <= Newest.tick
        /\ At(published[m]) = At(ring[a])
        /\ published[m] \in Snapshot(Positions) /\ Distinct(published[m])
  BY <1>1, <1>3, Zenon
<1>5. PICK n \in DOMAIN published :
        /\ ring[b] = Rounded(published[n])
        /\ published[n].tick <= Newest.tick
        /\ At(published[n]) = At(ring[b])
        /\ published[n] \in Snapshot(Positions) /\ Distinct(published[n])
  BY <1>1, <1>3, Zenon
<1>6. /\ pa = FindPlayer(Rounded(published[m]), id)
      /\ inA => /\ HasPlayer(Rounded(published[m]), id) /\ pa.id = id
                /\ pa = [id |-> pa.id, pos |-> pa.pos, hp |-> pa.hp]
                /\ pa.pos \in Nat
  <2>1. pa = FindPlayer(Rounded(published[m]), id)
        /\ (inA => HasPlayer(Rounded(published[m]), id))
    BY <1>4, Zenon DEF pa, inA
  <2>. QED  BY <1>4, <2>1, FindFact, Zenon
<1>7. /\ pb = FindPlayer(Rounded(published[n]), id)
      /\ inB => /\ HasPlayer(Rounded(published[n]), id) /\ pb.id = id
                /\ pb = [id |-> pb.id, pos |-> pb.pos, hp |-> pb.hp]
                /\ pb.pos \in Nat
  <2>1. pb = FindPlayer(Rounded(published[n]), id)
        /\ (inB => HasPlayer(Rounded(published[n]), id))
    BY <1>5, Zenon DEF pb, inB
  <2>. QED  BY <1>5, <2>1, FindFact, Zenon
<1>8. ASSUME inA, p = pa  PROVE Shown(p, id, m, m)
  <2>1. /\ p = FindPlayer(Rounded(published[m]), id) /\ p.id = id
        /\ HasPlayer(Rounded(published[m]), id) /\ p.pos \in Nat
    BY <1>6, <1>8, Zenon
  <2>. QED  BY <1>4, <2>1, ShownAlone, Zenon
<1>9. ASSUME inB, p = pb  PROVE Shown(p, id, n, n)
  <2>1. /\ p = FindPlayer(Rounded(published[n]), id) /\ p.id = id
        /\ HasPlayer(Rounded(published[n]), id) /\ p.pos \in Nat
    BY <1>7, <1>9, Zenon
  <2>. QED  BY <1>5, <2>1, ShownAlone, Zenon
<1>10. \/ inA /\ p = pa
       \/ inB /\ p = pb
       \/ inA /\ inB /\ a # b
  BY <1>2, Zenon
<1>11. ASSUME inA, inB, a # b
       PROVE  Shown(p, id, m, n) \/ p = pa
  <2>1. p = [(IF 2 * num < den THEN pa ELSE pb)
               EXCEPT !.pos = Lerp(pa.pos, pb.pos, num, den)]
    BY <1>2, <1>11, Zenon
  <2>2. /\ den \in Nat \ {0} /\ num \in 0 .. den
        /\ \/ At(ring[a]) <= render /\ render <= At(ring[b])
           \/ num = 0
    BY <1>1, <1>11, Zenon
  <2>3. pa.id = id /\ pb.id = id /\ pa.pos \in Nat /\ pb.pos \in Nat
    BY <1>6, <1>7, <1>11, Zenon
  <2>4. CASE At(ring[a]) <= render /\ render <= At(ring[b])
    <3>1. /\ p.id = id /\ p.pos = Lerp(pa.pos, pb.pos, num, den)
          /\ p.hp = pa.hp \/ p.hp = pb.hp
      <4>1. ASSUME NEW r, r = [id |-> r.id, pos |-> r.pos, hp |-> r.hp],
                   NEW z, p = [r EXCEPT !.pos = z]
            PROVE  p.id = r.id /\ p.pos = z /\ p.hp = r.hp
        BY <4>1, Zenon
      <4>2. CASE 2 * num < den
        BY <1>6, <1>11, <2>1, <2>3, <4>1, <4>2, Zenon
      <4>3. CASE ~(2 * num < den)
        BY <1>7, <1>11, <2>1, <2>3, <4>1, <4>3, Zenon
      <4>. QED  BY <4>2, <4>3, Zenon
    <3>2. At(published[m]) <= render /\ render <= At(published[n])
      BY <1>4, <1>5, <2>4, Zenon
    <3>3. published[n].tick <= Newest.tick
      BY <1>5, Zenon
    <3>4. /\ pa = FindPlayer(Rounded(published[m]), id)
          /\ pb = FindPlayer(Rounded(published[n]), id)
          /\ HasPlayer(Rounded(published[m]), id)
          /\ HasPlayer(Rounded(published[n]), id)
      BY <1>6, <1>7, <1>11, Zenon
    <3>. QED  BY <2>2, <2>3, <3>1, <3>2, <3>3, <3>4, ShownBetween, Zenon
  <2>5. CASE num = 0
    <3>1. 2 * num < den
      BY <2>2, <2>5
    <3>2. Lerp(pa.pos, pb.pos, num, den) = pa.pos
      <4>1. pa.pos \in Int /\ pb.pos \in Int
        BY <2>3
      <4>. QED  BY <2>2, <2>5, <4>1, LerpBetween, Zenon
    <3>3. p = [pa EXCEPT !.pos = pa.pos]
      BY <2>1, <3>1, <3>2, Zenon
    <3>4. [pa EXCEPT !.pos = pa.pos] = pa
      BY <1>6, <1>11, Zenon
    <3>. QED  BY <3>3, <3>4, Zenon
  <2>. QED  BY <2>2, <2>4, <2>5, Zenon
<1>. QED  BY <1>4, <1>5, <1>8, <1>9, <1>10, <1>11, Zenon DEF p

(* A remote player is drawn only where the server has put it, or on the    *)
(* way between two such places around the time drawn, and with no other    *)
(* player's place or health, but for a player 0 whom sample() misses, who  *)
(* is drawn as a PlayerState{}: for any ring, delay, frames, rates,        *)
(* worlds, wire resolution and keyframe interval.                          *)
THEOREM DrawnSafe == PlaybackSpec => []DrawnFromPublishes
<1>1. Stream /\ Held /\ Play /\ RingIs => DrawnFromPublishes
  <2>. SUFFICES ASSUME Stream, Held, Play, RingIs, ring # <<>>,
                       NEW i \in 1 .. cache.count
                PROVE  LET raw == cache.slots[i]
                       IN  IF raw.id = 0 /\ Missing(0) THEN Drawn(raw) = Blank
                           ELSE \E m, n \in DOMAIN published :
                                  Shown(Drawn(raw), raw.id, m, n)
    BY Zenon DEF DrawnFromPublishes
  <2>1. PICK k \in DOMAIN published : /\ cache = Rounded(published[k])
                                      /\ cache.tick <= ring[Len(ring)].tick
    BY Zenon DEF RingIs
  <2>. DEFINE q == published[k]
              raw == cache.slots[i]
              id == raw.id
  <2>2. q \in Snapshot(Positions) /\ Distinct(q)
    BY Zenon DEF Held
  <2>3. cache.count = q.count /\ cache.tick = q.tick
    BY <2>1, Zenon DEF Rounded
  <2>4. i \in 1 .. q.count /\ q.tick <= Newest.tick
    BY <2>1, <2>3, Zenon DEF Newest
  <2>5. id \in Ids
    <3>1. q.slots[i].id \in Ids
      BY <2>2, <2>4, Zenon DEF Distinct
    <3>2. i \in Slots
      <4>1. q.count \in 0 .. Cardinality(Ids) /\ Cardinality(Ids) \in Nat
        BY <2>2, DeltaAssumption, FS_CardinalityType, Zenon DEF Snapshot
      <4>. QED  BY <2>4, <4>1 DEF Slots
    <3>3. Rounded(q).slots[i].id = q.slots[i].id
      BY <3>2, Zenon DEF Rounded
    <3>. QED  BY <2>1, <3>1, <3>3, Zenon
  <2>. HIDE DEF q, raw, id
  <2>6. /\ FindPlayer(Rounded(q), id) = raw /\ HasPlayer(Rounded(q), id)
        /\ raw.pos \in Nat
    <3>1. raw = Rounded(q).slots[i] /\ raw.id = id /\ i \in 1 .. Rounded(q).count
      BY <2>1, Zenon DEF raw, q, id
    <3>2. HasPlayer(Rounded(q), id)
      BY <3>1, Zenon DEF HasPlayer, SlotsOf
    <3>3. /\ FindPlayer(Rounded(q), id).pos \in Nat
          /\ \A j \in 1 .. q.count : Rounded(q).slots[j].id = id =>
               FindPlayer(Rounded(q), id) = Rounded(q).slots[j]
      BY <2>2, <2>5, <3>2, FindFact, Zenon
    <3>. QED  BY <2>4, <3>1, <3>2, <3>3, Zenon
  <2>7. CASE ~Missing(id)
    <3>1. PICK m, n \in DOMAIN published : Shown(Sample(id), id, m, n)
      BY <2>5, <2>7, SampleShown, Zenon
    <3>2. Sample(id).id = id
      BY <3>1, Zenon DEF Shown
    <3>3. Drawn(raw) = Sample(id)
      BY <3>2, Zenon DEF Drawn, id
    <3>4. ~(id = 0 /\ Missing(0))
      BY <2>7, Zenon
    <3>. QED  BY <3>1, <3>3, <3>4, Zenon DEF raw, id
  <2>8. CASE Missing(id)
    <3>1. Sample(id) = Blank /\ Blank.id = 0
      BY <2>8, Zenon DEF Sample, Missing, Blank
    <3>2. CASE id = 0
      <4>1. Drawn(raw) = Blank /\ Missing(0)
        BY <2>8, <3>1, <3>2, Zenon DEF Drawn, id
      <4>. QED  BY <3>2, <4>1, Zenon DEF raw, id
    <3>3. CASE id # 0
      <4>1. Drawn(raw) = raw /\ raw.id = id
        BY <3>1, <3>3, Zenon DEF Drawn, id
      <4>2. /\ published[k].tick <= Newest.tick
            /\ raw = FindPlayer(Rounded(published[k]), id)
            /\ HasPlayer(Rounded(published[k]), id)
        BY <2>4, <2>6, Zenon DEF q
      <4>3. Shown(raw, id, k, k)
        BY <2>5, <2>6, <4>1, <4>2, ShownAlone, Zenon
      <4>. QED  BY <3>3, <4>1, <4>3, Zenon DEF raw, id
    <3>. QED  BY <3>2, <3>3, Zenon
  <2>. QED  BY <2>7, <2>8, Zenon
<1>2. PlaybackInit => RingIs
  <2>1. PlaybackInit => ring = <<>> /\ DOMAIN ring = {}
    BY DEF PlaybackInit
  <2>. QED  BY <2>1, Zenon DEF RingIs
<1>3. Stream /\ CacheIsPublished /\ Play /\ RingIs /\ [PlaybackNext]_playVars
        => RingIs'
  BY RingStep, Zenon
<1>. QED  BY <1>1, <1>2, <1>3, PlayInvariance, PTL DEF PlaybackSpec
=============================================================================
