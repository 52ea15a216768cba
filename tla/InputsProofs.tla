---------------------------- MODULE InputsProofs -----------------------------
(***************************************************************************)
(* Theorems about Inputs, for any redundancy, any ring sizes, any map and  *)
(* any number of inputs, deaths and datagrams.                             *)
(***************************************************************************)
EXTENDS Inputs, SequenceTheorems, FiniteSetTheorems, TLAPS

-----------------------------------------------------------------------------
(* Loops over a sequence *)

(* A set of naturals that is not empty has a least element.                *)
LEMMA Least ==
  ASSUME NEW T \in SUBSET Nat, T # {}
  PROVE  \E x \in T : \A y \in T : x <= y
<1>1. PICK x \in T : \A y \in T : ~(<<y, x>> \in OpToRel(<, Nat))
  BY NatLessThanWellFounded, WFMin, Zenon
<1>2. \A y \in T : ~(y < x)
  BY <1>1, Zenon DEF OpToRel
<1>. QED  BY <1>2

(* A set with 0 and with n + 1 for each n in it has all the numbers up to  *)
(* L: the induction behind the loops of Replay and Unacked.                *)
LEMMA Induct ==
  ASSUME NEW L \in Nat, NEW G, 0 \in G,
         \A n \in 0 .. L - 1 : n \in G => n + 1 \in G
  PROVE  \A n \in 0 .. L : n \in G
<1>. DEFINE T == {n \in 0 .. L : n \notin G}
<1>. SUFFICES ASSUME T # {}  PROVE FALSE
  BY Zenon
<1>1. T \in SUBSET Nat
  OBVIOUS
<1>2. PICK x \in T : \A y \in T : x <= y
  BY <1>1, Least, Zenon
<1>3. x \in 0 .. L /\ x # 0 /\ x \notin G
  BY Zenon
<1>4. x - 1 \in 0 .. L - 1 /\ (x - 1) + 1 = x /\ ~(x <= x - 1)
  BY <1>3
<1>5. x - 1 \in G
  BY <1>2, <1>4
<1>. QED  BY <1>3, <1>4, <1>5, Zenon

(* The positions on the way of Replay, one after each input. *)
Way(p, h) == CHOOSE g : g = [n \in 0 .. Len(h) |->
  IF n = 0 THEN p ELSE MovementStep(g[n - 1], h[n].input)]

(* Replay ends where its way ends.                                         *)
LEMMA ReplayIsWay ==
  ASSUME NEW p, NEW h  PROVE Replay(p, h) = Way(p, h)[Len(h)]
BY Zenon DEF Replay, Way

(* The equation of Replay's loop has a solution: there is one for each     *)
(* prefix of the history.                                                  *)
LEMMA WayEquation ==
  ASSUME NEW p, NEW h, NEW L \in Nat, Len(h) = L
  PROVE  /\ Way(p, h)[0] = p
         /\ \A n \in 1 .. L :
              Way(p, h)[n] = MovementStep(Way(p, h)[n - 1], h[n].input)
<1>. DEFINE Solves(g, k) == g = [n \in 0 .. k |->
              IF n = 0 THEN p ELSE MovementStep(g[n - 1], h[n].input)]
            G == {k \in 0 .. L : \E g : Solves(g, k)}
<1>1. 0 \in G
  <2>. DEFINE g == [n \in 0 .. 0 |-> p]
  <2>1. Solves(g, 0)
    OBVIOUS
  <2>. HIDE DEF g, Solves
  <2>2. \E x : Solves(x, 0)
    BY <2>1, Zenon
  <2>. QED  BY <2>2
<1>2. ASSUME NEW k \in 0 .. L - 1, k \in G  PROVE k + 1 \in G
  <2>1. PICK g : Solves(g, k)
    BY <1>2, Zenon
  <2>. DEFINE f == [n \in 0 .. k + 1 |->
                 IF n <= k THEN g[n] ELSE MovementStep(g[k], h[n].input)]
  <2>2. \A n \in 0 .. k + 1 : f[n] =
          IF n = 0 THEN p ELSE MovementStep(f[n - 1], h[n].input)
    <3>. SUFFICES ASSUME NEW n \in 0 .. k + 1
                  PROVE  f[n] = IF n = 0 THEN p
                                ELSE MovementStep(f[n - 1], h[n].input)
      BY Zenon
    <3>1. CASE n = 0
      BY <2>1, <3>1
    <3>2. CASE n \in 1 .. k
      <4>1. f[n] = g[n] /\ f[n - 1] = g[n - 1]
        BY <3>2
      <4>2. g[n] = MovementStep(g[n - 1], h[n].input)
        BY <2>1, <3>2
      <4>. QED  BY <3>2, <4>1, <4>2
    <3>3. CASE n = k + 1
      <4>1. f[n] = MovementStep(g[k], h[n].input) /\ f[n - 1] = g[k]
        BY <3>3
      <4>. QED  BY <3>3, <4>1
    <3>. QED  BY <3>1, <3>2, <3>3
  <2>3. Solves(f, k + 1)
    <3>. HIDE DEF f
    <3>1. f = [n \in 0 .. k + 1 |-> f[n]]
      BY Zenon DEF f
    <3>. QED  BY <2>2, <3>1, Zenon
  <2>. HIDE DEF f, Solves
  <2>4. \E x : Solves(x, k + 1)
    BY <2>3, Zenon
  <2>. QED  BY <2>4
<1>3. L \in G
  <2>. HIDE DEF G
  <2>1. \A n \in 0 .. L : n \in G
    BY <1>1, <1>2, Induct, Zenon
  <2>. QED  BY <2>1
<1>4. PICK g : Solves(g, L)
  BY <1>3, Zenon
<1>5. Solves(Way(p, h), L)
  BY <1>4, Zenon DEF Way
<1>. QED  BY <1>5

(* Replaying inputs leaves the player between the walls.                   *)
LEMMA ReplayType ==
  ASSUME NEW p \in 0 .. Width, NEW S, NEW h \in Seq(S)
  PROVE  Replay(p, h) \in 0 .. Width
<1>. DEFINE L == Len(h)
            w == Way(p, h)
            G == {n \in 0 .. L : w[n] \in 0 .. Width}
<1>1. L \in Nat
  OBVIOUS
<1>2. w[0] = p /\ \A n \in 1 .. L : w[n] = MovementStep(w[n - 1], h[n].input)
  BY <1>1, WayEquation
<1>. HIDE DEF L, w
<1>3. 0 \in G
  BY <1>1, <1>2
<1>4. ASSUME NEW n \in 0 .. L - 1, n \in G  PROVE n + 1 \in G
  <2>1. n + 1 \in 1 .. L /\ (n + 1) - 1 = n
    BY <1>1
  <2>2. w[n + 1] = MovementStep(w[n], h[n + 1].input)
    BY <1>2, <2>1, Zenon
  <2>3. w[n] \in 0 .. Width
    BY <1>4, Zenon
  <2>4. w[n + 1] \in 0 .. Width
    BY <2>2, <2>3, Zenon DEF MovementStep
  <2>. QED  BY <1>1, <2>1, <2>4
<1>5. L \in G
  <2>. HIDE DEF G
  <2>1. \A n \in 0 .. L : n \in G
    BY <1>1, <1>3, <1>4, Induct, Zenon
  <2>. QED  BY <1>1, <2>1
<1>. QED  BY <1>5, ReplayIsWay, Zenon DEF L, w

(* The entries kept after each one that remove_if looks at.                *)
Kept(h, n) ==
  CHOOSE g : g = [k \in 0 .. Len(h) |->
    IF k = 0 THEN <<>>
    ELSE IF h[k].seq > n THEN Append(g[k - 1], h[k]) ELSE g[k - 1]]

(* Unacked is the last step of the loop.                                   *)
LEMMA UnackedIsKept ==
  ASSUME NEW h, NEW n
  PROVE  Unacked(h, n) = Kept(h, n)[Len(h)]
BY Zenon DEF Unacked, Kept

(* The equation of remove_if's loop has a solution.                        *)
LEMMA KeptEquation ==
  ASSUME NEW h, NEW n, NEW L \in Nat, Len(h) = L
  PROVE  /\ Kept(h, n)[0] = <<>>
         /\ \A k \in 1 .. L :
              Kept(h, n)[k] = IF h[k].seq > n
                              THEN Append(Kept(h, n)[k - 1], h[k])
                              ELSE Kept(h, n)[k - 1]
<1>. DEFINE Do(s, k) == IF h[k].seq > n THEN Append(s, h[k]) ELSE s
            Solves(g, m) ==
              g = [k \in 0 .. m |-> IF k = 0 THEN <<>> ELSE Do(g[k - 1], k)]
            G == {m \in 0 .. L : \E g : Solves(g, m)}
<1>1. 0 \in G
  <2>. DEFINE g == [k \in 0 .. 0 |-> <<>>]
  <2>. HIDE DEF Do
  <2>1. Solves(g, 0)
    OBVIOUS
  <2>. HIDE DEF g, Solves
  <2>2. \E x : Solves(x, 0)
    BY <2>1
  <2>. QED  BY <2>2
<1>2. ASSUME NEW m \in 0 .. L - 1, m \in G  PROVE m + 1 \in G
  <2>. HIDE DEF Do
  <2>1. PICK g : Solves(g, m)
    BY <1>2, Zenon
  <2>. DEFINE f == [k \in 0 .. m + 1 |->
                      IF k <= m THEN g[k] ELSE Do(g[m], k)]
  <2>2. \A k \in 0 .. m + 1 :
          f[k] = IF k = 0 THEN <<>> ELSE Do(f[k - 1], k)
    <3>. SUFFICES ASSUME NEW k \in 0 .. m + 1
                  PROVE  f[k] = IF k = 0 THEN <<>> ELSE Do(f[k - 1], k)
      BY Zenon
    <3>1. CASE k = 0
      BY <2>1, <3>1
    <3>2. CASE k \in 1 .. m
      <4>1. f[k] = g[k] /\ f[k - 1] = g[k - 1]
        BY <3>2
      <4>2. g[k] = Do(g[k - 1], k)
        BY <2>1, <3>2
      <4>. QED  BY <3>2, <4>1, <4>2
    <3>3. CASE k = m + 1
      <4>1. f[k] = Do(g[m], k) /\ f[k - 1] = g[m]
        BY <3>3
      <4>. QED  BY <3>3, <4>1
    <3>. QED  BY <3>1, <3>2, <3>3
  <2>3. Solves(f, m + 1)
    <3>. HIDE DEF f
    <3>1. f = [k \in 0 .. m + 1 |-> f[k]]
      BY Zenon DEF f
    <3>. QED  BY <2>2, <3>1, Zenon
  <2>. HIDE DEF f, Solves
  <2>4. \E x : Solves(x, m + 1)
    BY <2>3
  <2>. QED  BY <2>4
<1>3. L \in G
  <2>. HIDE DEF G
  <2>1. \A m \in 0 .. L : m \in G
    BY <1>1, <1>2, Induct
  <2>. QED  BY <2>1
<1>4. PICK g : Solves(g, L)
  <2>. HIDE DEF Solves
  <2>. QED  BY <1>3, Zenon
<1>5. Solves(Kept(h, n), L)
  BY <1>4, Zenon DEF Kept
<1>. DEFINE K == Kept(h, n)
<1>6. K[0] = <<>> /\ \A k \in 1 .. L : K[k] = Do(K[k - 1], k)
  <2>. HIDE DEF Do, K
  <2>1. K = [k \in 0 .. L |-> IF k = 0 THEN <<>> ELSE Do(K[k - 1], k)]
    BY <1>5, Zenon DEF K
  <2>. QED  BY <2>1
<1>. QED  BY <1>6, Zenon

(* An entry of the history.                                                *)
Entry == [seq : 1 .. MaxSeq, input : Dirs]

(* u is the end of h.                                                      *)
IsEnd(u, h) ==
  /\ Len(u) <= Len(h)
  /\ \A i \in 1 .. Len(u) : u[i] = h[Len(h) - Len(u) + i]

(* What remove_if leaves of a history in order is the end of it.           *)
LEMMA UnackedIsEnd ==
  ASSUME NEW h \in Seq(Entry), NEW n \in Int, NEW c \in Int,
         \A k \in 1 .. Len(h) : h[k].seq = c + k
  PROVE  Unacked(h, n) \in Seq(Entry) /\ IsEnd(Unacked(h, n), h)
<1>. DEFINE L == Len(h)
            K == Kept(h, n)
            Good(k) == /\ K[k] \in Seq(Entry)
                       /\ Len(K[k]) <= k
                       /\ \A i \in 1 .. Len(K[k]) :
                            K[k][i] = h[k - Len(K[k]) + i]
                       /\ K[k] # <<>> => c + k > n
            G == {k \in 0 .. L : Good(k)}
<1>1. L \in Nat
  OBVIOUS
<1>2. K[0] = <<>>
  BY <1>1, KeptEquation, Zenon
<1>3. \A k \in 1 .. L :
        K[k] = IF h[k].seq > n THEN Append(K[k - 1], h[k]) ELSE K[k - 1]
  BY <1>1, KeptEquation
<1>4. \A k \in 1 .. L : h[k] \in Entry /\ h[k].seq = c + k
  BY ElementOfSeq, Zenon
<1>. HIDE DEF L, K
<1>5. 0 \in G
  <2>1. K[0] \in Seq(Entry) /\ Len(K[0]) = 0 /\ ~(K[0] # <<>>)
    BY <1>2, EmptySeq, Zenon
  <2>2. Good(0)
    BY <2>1
  <2>. QED  BY <1>1, <2>2
<1>6. ASSUME NEW k \in 0 .. L - 1, k \in G  PROVE k + 1 \in G
  <2>. DEFINE j == k + 1
  <2>1. j \in 1 .. L /\ j - 1 = k
    BY <1>1
  <2>0. j \in 0 .. L
    BY <1>1
  <2>2. K[j] = IF c + j > n THEN Append(K[k], h[j]) ELSE K[k]
    BY <1>3, <1>4, <2>1, Zenon
  <2>3. Good(k) /\ h[j] \in Entry
    BY <1>4, <1>6, <2>1, Zenon
  <2>4. CASE c + j > n
    <3>1. K[j] = Append(K[k], h[j])
      BY <2>2, <2>4, Zenon
    <3>. DEFINE m == Len(K[k])
    <3>2. m \in Nat /\ m <= k /\ \A i \in 1 .. m : K[k][i] = h[k - m + i]
      <4>1. m \in Nat
        BY <2>3, LenProperties, Zenon
      <4>2. m <= k
        BY <2>3, Zenon
      <4>3. \A i \in 1 .. m : K[k][i] = h[k - m + i]
        BY <2>3, Zenon
      <4>. QED  BY <4>1, <4>2, <4>3, Zenon
    <3>3. /\ K[j] \in Seq(Entry) /\ Len(K[j]) = m + 1
          /\ K[j][m + 1] = h[j]
          /\ \A i \in 1 .. m : K[j][i] = K[k][i]
      BY <2>3, <3>1, AppendProperties
    <3>. HIDE DEF m
    <3>4. \A i \in 1 .. m + 1 : K[j][i] = h[j - (m + 1) + i]
      BY <2>1, <3>2, <3>3
    <3>5. Good(j)
      BY <2>4, <3>2, <3>3, <3>4
    <3>. QED  BY <2>0, <3>5, Zenon
  <2>5. CASE ~(c + j > n)
    <3>1. K[j] = K[k]
      BY <2>2, <2>5, Zenon
    <3>2. ~(c + k > n)
      BY <2>5
    <3>3. K[k] = <<>>
      BY <2>3, <3>2, Zenon
    <3>4. Good(j)
      BY <3>1, <3>3
    <3>. QED  BY <2>0, <3>4, Zenon
  <2>. QED  BY <2>4, <2>5, Zenon
<1>7. L \in G
  <2>. HIDE DEF G
  <2>1. \A k \in 0 .. L : k \in G
    BY <1>1, <1>5, <1>6, Induct, Zenon
  <2>. QED  BY <1>1, <2>1
<1>. QED  BY <1>7, UnackedIsKept, Zenon DEF L, K, IsEnd

-----------------------------------------------------------------------------
(* Sequences *)

(* The last n entries of a history are the end of it.                      *)
LEMMA LastIsEnd ==
  ASSUME NEW S, NEW h \in Seq(S), NEW n \in Nat
  PROVE  /\ Last(h, n) \in Seq(S) /\ IsEnd(Last(h, n), h)
         /\ Len(Last(h, n)) = IF Len(h) > n THEN n ELSE Len(h)
<1>. DEFINE m == IF Len(h) > n THEN Len(h) - n + 1 ELSE 1
            L == Len(h)
<1>1. L \in Nat /\ m \in 1 .. L + 1
  OBVIOUS
<1>2. /\ SubSeq(h, m, L) \in Seq(S)
      /\ Len(SubSeq(h, m, L)) = IF m <= L THEN L - m + 1 ELSE 0
      /\ \A i \in 1 .. L - m + 1 : SubSeq(h, m, L)[i] = h[m + i - 1]
  BY <1>1, SubSeqProperties
<1>3. Last(h, n) = SubSeq(h, m, L)
  BY Zenon DEF Last
<1>. DEFINE u == SubSeq(h, m, L)
<1>4. L - m + 1 = IF L > n THEN n ELSE L
  BY <1>1
<1>. HIDE DEF L, m, u
<1>5. u \in Seq(S) /\ Len(u) = L - m + 1
  BY <1>1, <1>2 DEF u
<1>6. \A i \in 1 .. L - m + 1 : u[i] = h[m + i - 1]
  BY <1>2, Zenon DEF u
<1>7. \A i \in 1 .. Len(u) : u[i] = h[L - Len(u) + i]
  BY <1>1, <1>5, <1>6
<1>8. Len(u) <= L /\ Len(u) = IF L > n THEN n ELSE L
  BY <1>1, <1>4, <1>5
<1>9. Last(h, n) = u
  BY <1>3, Zenon DEF u
<1>. QED  BY <1>5, <1>7, <1>8, <1>9, Zenon DEF IsEnd, L

(* RingBuffer::push_back into a buffer of n entries.                       *)
PushBack(r, e, n) == Append(IF Len(r) = n THEN Tail(r) ELSE r, e)

(* q holds e after the last entries of r.                                  *)
Extends(q, r, e) ==
  /\ Len(q) <= Len(r) + 1
  /\ q[Len(q)] = e
  /\ \A i \in 1 .. Len(q) - 1 : /\ Len(r) + 1 - Len(q) + i \in 1 .. Len(r)
                                /\ q[i] = r[Len(r) + 1 - Len(q) + i]

(* A full buffer loses its oldest entry to a new one.                      *)
LEMMA PushBackFact ==
  ASSUME NEW S, NEW r \in Seq(S), NEW e \in S, NEW n \in Nat \ {0},
         Len(r) <= n
  PROVE  /\ PushBack(r, e, n) \in Seq(S)
         /\ Len(PushBack(r, e, n)) \in 1 .. n
         /\ Extends(PushBack(r, e, n), r, e)
<1>. DEFINE q == PushBack(r, e, n)
<1>0. q = Append(IF Len(r) = n THEN Tail(r) ELSE r, e)
  BY Zenon DEF PushBack
<1>. HIDE DEF q
<1>. SUFFICES q \in Seq(S) /\ Len(q) \in 1 .. n /\ Extends(q, r, e)
  BY Zenon DEF q
<1>1. CASE Len(r) = n
  <2>1. r # <<>> /\ q = Append(Tail(r), e)
    BY <1>0, <1>1, Zenon
  <2>2. /\ Tail(r) \in Seq(S) /\ Len(Tail(r)) = n - 1
        /\ \A i \in 1 .. n - 1 : Tail(r)[i] = r[i + 1]
    BY <1>1, <2>1, HeadTailProperties, Zenon
  <2>3. /\ q \in Seq(S) /\ Len(q) = n /\ q[n] = e
        /\ \A i \in 1 .. n - 1 : q[i] = Tail(r)[i]
    BY <2>1, <2>2, AppendProperties
  <2>. QED  BY <1>1, <2>2, <2>3 DEF Extends
<1>2. CASE Len(r) # n
  <2>1. q = Append(r, e)
    BY <1>0, <1>2, Zenon
  <2>. DEFINE L == Len(r)
  <2>2. L \in Nat /\ L < n
    BY <1>2
  <2>3. /\ q \in Seq(S) /\ Len(q) = L + 1 /\ q[L + 1] = e
        /\ \A i \in 1 .. L : q[i] = r[i]
    BY <2>1, AppendProperties
  <2>. HIDE DEF L
  <2>4. Len(q) \in 1 .. n /\ Len(q) <= L + 1 /\ q[Len(q)] = e
    BY <2>2, <2>3
  <2>5. \A i \in 1 .. Len(q) - 1 : /\ L + 1 - Len(q) + i \in 1 .. L
                                   /\ q[i] = r[L + 1 - Len(q) + i]
    <3>1. \A i \in 1 .. (L + 1) - 1 : L + 1 - (L + 1) + i = i /\ i \in 1 .. L
      BY <2>2
    <3>2. \A i \in 1 .. (L + 1) - 1 : /\ L + 1 - (L + 1) + i \in 1 .. L
                                    /\ q[i] = r[L + 1 - (L + 1) + i]
      BY <2>3, <3>1, Zenon
    <3>. QED  BY <2>3, <3>2, Zenon
  <2>. QED  BY <2>3, <2>4, <2>5, Zenon DEF Extends, L
<1>. QED  BY <1>1, <1>2, Zenon

-----------------------------------------------------------------------------
(* The inputs of an earlier life *)

(* A ring whose numbers ascend.                                            *)
Ascending(r) ==
  \A m, n \in 1 .. Len(r) : m < n => r[m].seq < r[n].seq

(* The inputs up to a number are the first of an ascending ring.           *)
LEMMA LeftoverFirst ==
  ASSUME NEW r \in Seq(Cmd), Ascending(r), NEW n \in Int
  PROVE  \E m \in 0 .. Len(r) : Leftover(r, n) = 1 .. m
<1>. DEFINE L == Len(r)
            T == {k \in 1 .. L + 1 : k = L + 1 \/ r[k].seq > n}
<1>1. L \in Nat
  OBVIOUS
<1>2. \A k \in 1 .. L : r[k].seq \in Int
  <2>1. \A k \in 1 .. L : r[k] \in Cmd
    BY ElementOfSeq, Zenon
  <2>. QED  BY <2>1, Zenon DEF Cmd
<1>3. PICK x \in T : \A y \in T : x <= y
  <2>1. T \in SUBSET Nat /\ L + 1 \in T
    BY <1>1
  <2>. HIDE DEF T
  <2>. QED  BY <2>1, Least, Zenon
<1>. HIDE DEF L
<1>4. x - 1 \in 0 .. L /\ x \in 1 .. L + 1
  BY <1>1
<1>5. \A k \in 1 .. L : k < x => r[k].seq <= n
  BY <1>1, <1>2, <1>3
<1>6. \A k \in 1 .. L : k >= x => r[k].seq > n
  <2>. SUFFICES ASSUME NEW k \in 1 .. L, k >= x  PROVE r[k].seq > n
    BY Zenon
  <2>1. x \in 1 .. L /\ r[x].seq > n
    BY <1>1, <1>4
  <2>2. k = x \/ r[x].seq < r[k].seq
    BY <2>1 DEF Ascending, L
  <2>. QED  BY <1>2, <2>1, <2>2
<1>7. DOMAIN r = 1 .. L
  BY LenProperties, Zenon DEF L
<1>8. Leftover(r, n) = 1 .. x - 1
  BY <1>1, <1>2, <1>4, <1>5, <1>6, <1>7 DEF Leftover
<1>. QED  BY <1>4, <1>8, Zenon DEF L

(* As many inputs are left over as the last position of one.               *)
LEMMA LeftoverCount ==
  ASSUME NEW r \in Seq(Cmd), Ascending(r), NEW n \in Int
  PROVE  /\ Cardinality(Leftover(r, n)) \in 0 .. Len(r)
         /\ Leftover(r, n) = 1 .. Cardinality(Leftover(r, n))
<1>1. PICK m \in 0 .. Len(r) : Leftover(r, n) = 1 .. m
  BY LeftoverFirst, Zenon
<1>2. Cardinality(1 .. m) = m
  BY FS_Interval
<1>. QED  BY <1>1, <1>2, Zenon

(* The rest of an ascending ring ascends, and has one input less left      *)
(* over, if there was any.                                                 *)
LEMMA LeftoverTail ==
  ASSUME NEW r \in Seq(Cmd), Ascending(r), r # <<>>, NEW n \in Int
  PROVE  /\ Ascending(Tail(r))
         /\ Leftover(r, n) = {} => Leftover(Tail(r), n) = {}
         /\ Leftover(r, n) # {} =>
              Cardinality(Leftover(Tail(r), n)) =
              Cardinality(Leftover(r, n)) - 1
<1>. DEFINE L == Len(r)
            t == Tail(r)
<1>1. L \in Nat \ {0} /\ t \in Seq(Cmd) /\ Len(t) = L - 1
  BY HeadTailProperties
<1>2. \A k \in 1 .. L - 1 : t[k] = r[k + 1]
  BY HeadTailProperties, Zenon
<1>3. DOMAIN r = 1 .. L /\ DOMAIN t = 1 .. L - 1
  BY <1>1, LenProperties, Zenon
<1>4. Ascending(t)
  BY <1>1, <1>2 DEF Ascending
<1>5. PICK m \in 0 .. L : Leftover(r, n) = 1 .. m
  BY LeftoverFirst, Zenon
<1>. HIDE DEF L, t
<1>6. \A k \in 1 .. L : r[k].seq <= n <=> k \in 1 .. m
  BY <1>3, <1>5, Zenon DEF Leftover
<1>7. Leftover(t, n) = 1 .. m - 1
  BY <1>1, <1>2, <1>3, <1>6 DEF Leftover
<1>8. CASE m = 0
  BY <1>4, <1>5, <1>7, <1>8 DEF t
<1>9. CASE m # 0
  <2>1. Cardinality(1 .. m) = m /\ Cardinality(1 .. m - 1) = m - 1
    BY <1>5, <1>9, FS_Interval
  <2>2. 1 .. m # {}
    <3>1. 1 \in 1 .. m
      BY <1>9
    <3>. QED  BY <3>1, Zenon
  <2>. QED  BY <1>4, <1>5, <1>7, <2>1, <2>2, Zenon DEF t
<1>. QED  BY <1>8, <1>9, Zenon

(* A newer input is no leftover.                                           *)
LEMMA LeftoverAppend ==
  ASSUME NEW r \in Seq(Cmd), NEW e \in Cmd, NEW n \in Int, e.seq > n
  PROVE  Leftover(Append(r, e), n) = Leftover(r, n)
<1>. DEFINE L == Len(r)
            q == Append(r, e)
<1>1. L \in Nat /\ Len(q) = L + 1 /\ q \in Seq(Cmd)
  BY AppendProperties
<1>2. q[L + 1] = e /\ \A k \in 1 .. L : q[k] = r[k]
  BY AppendProperties
<1>3. DOMAIN r = 1 .. L /\ DOMAIN q = 1 .. L + 1
  BY <1>1, LenProperties, Zenon
<1>4. e.seq \in Int
  BY Zenon DEF Cmd
<1>. HIDE DEF L, q
<1>5. ~(q[L + 1].seq <= n)
  BY <1>2, <1>4
<1>6. Leftover(q, n) = Leftover(r, n)
  BY <1>1, <1>2, <1>3, <1>5 DEF Leftover
<1>. QED  BY <1>6, Zenon DEF q

-----------------------------------------------------------------------------
(* The client's history *)

(* The history h ends with the input numbered n and has none missing.      *)
Contiguous(h, n) == \A k \in 1 .. Len(h) : h[k].seq = n - Len(h) + k

(* The inputs of h are the ones issued under their numbers.                *)
Names(h, is) == \A k \in 1 .. Len(h) : h[k].input = is[h[k].seq]

(* Contiguity and names are kept by trimming the front.                    *)
LEMMA EndOfHistory ==
  ASSUME NEW h \in Seq(Entry), NEW u \in Seq(Entry), IsEnd(u, h),
         NEW n \in Int, NEW is, Contiguous(h, n), Names(h, is)
  PROVE  Contiguous(u, n) /\ Names(u, is)
<1>. DEFINE L == Len(h)
            U == Len(u)
<1>1. L \in Nat /\ U \in Nat /\ U <= L
  BY LenProperties, Zenon DEF IsEnd
<1>2. \A k \in 1 .. U : u[k] = h[L - U + k]
  BY Zenon DEF IsEnd
<1>3. \A k \in 1 .. L : h[k].seq = n - L + k /\ h[k].input = is[h[k].seq]
  BY Zenon DEF Contiguous, Names
<1>. HIDE DEF L, U
<1>4. \A k \in 1 .. U : L - U + k \in 1 .. L /\ n - L + (L - U + k) = n - U + k
  BY <1>1
<1>5. \A k \in 1 .. U : u[k].seq = n - U + k /\ u[k].input = is[u[k].seq]
  BY <1>2, <1>3, <1>4
<1>. QED  BY <1>5, Zenon DEF Contiguous, Names, U

(* A new input is remembered under the next number.                        *)
LEMMA RememberFact ==
  ASSUME NEW h \in Seq(Entry), Len(h) <= HistorySize, NEW n \in Nat,
         n + 1 <= MaxSeq, NEW is \in Seq(Dirs), Len(is) = n,
         Contiguous(h, n), Names(h, is), NEW dir \in Dirs
  PROVE  /\ Remember(h, [seq |-> n + 1, input |-> dir]) \in Seq(Entry)
         /\ Len(Remember(h, [seq |-> n + 1, input |-> dir])) <= HistorySize
         /\ Contiguous(Remember(h, [seq |-> n + 1, input |-> dir]), n + 1)
         /\ Names(Remember(h, [seq |-> n + 1, input |-> dir]),
                  Append(is, dir))
<1>. DEFINE e == [seq |-> n + 1, input |-> dir]
            q == Remember(h, e)
            L == Len(h)
            Q == Len(q)
            js == Append(is, dir)
<1>1. e \in Entry /\ e.seq = n + 1 /\ e.input = dir
  BY InputsAssumption DEF Entry
<1>2. q = PushBack(h, e, HistorySize)
  BY Zenon DEF Remember, PushBack
<1>. HIDE DEF e, q
<1>3. HistorySize \in Nat \ {0}
  BY InputsAssumption, Zenon
<1>4. /\ q \in Seq(Entry) /\ Q \in 1 .. HistorySize /\ Q <= L + 1
      /\ q[Q] = e
      /\ \A i \in 1 .. Q - 1 : /\ L + 1 - Q + i \in 1 .. L
                               /\ q[i] = h[L + 1 - Q + i]
  <2>1. q \in Seq(Entry) /\ Q \in 1 .. HistorySize /\ Extends(q, h, e)
    BY <1>1, <1>2, <1>3, PushBackFact, Zenon
  <2>. QED  BY <2>1, Zenon DEF Extends
<1>5. L \in Nat /\ Q \in Nat
  BY <1>4, LenProperties, Zenon
<1>6. \A k \in 1 .. L : h[k].seq = n - L + k /\ h[k].input = is[h[k].seq]
  BY Zenon DEF Contiguous, Names
<1>6a. \A k \in 1 .. L : h[k].seq \in 1 .. MaxSeq
  <2>1. \A k \in 1 .. L : h[k] \in Entry
    BY ElementOfSeq, Zenon
  <2>. QED  BY <2>1, Zenon DEF Entry
<1>7. js[n + 1] = dir /\ \A k \in 1 .. n : js[k] = is[k]
  BY AppendProperties
<1>. HIDE DEF L, Q, js
<1>8. \A i \in 1 .. Q - 1 : q[i].seq = n + 1 - Q + i
  <2>1. \A i \in 1 .. Q - 1 : n - L + (L + 1 - Q + i) = n + 1 - Q + i
    BY <1>5
  <2>. QED  BY <1>4, <1>6, <2>1, Zenon
<1>9. \A i \in 1 .. Q - 1 : q[i].input = js[q[i].seq]
  <2>. SUFFICES ASSUME NEW i \in 1 .. Q - 1  PROVE q[i].input = js[q[i].seq]
    BY Zenon
  <2>1. q[i].input = is[q[i].seq] /\ q[i].seq \in 1 .. MaxSeq
    BY <1>4, <1>6, <1>6a, Zenon
  <2>2. n + 1 - Q + i <= n
    BY <1>5
  <2>3. q[i].seq \in 1 .. n
    BY <1>8, <2>1, <2>2
  <2>. QED  BY <1>7, <2>1, <2>3, Zenon
<1>10. q[Q].seq = n + 1 - Q + Q /\ q[Q].input = js[q[Q].seq]
  BY <1>1, <1>4, <1>5, <1>7
<1>11. \A i \in 1 .. Q : i = Q \/ i \in 1 .. Q - 1
  BY <1>5
<1>12. \A i \in 1 .. Q : q[i].seq = n + 1 - Q + i /\ q[i].input = js[q[i].seq]
  BY <1>8, <1>9, <1>10, <1>11, Zenon
<1>13. Contiguous(q, n + 1) /\ Names(q, js)
  <2>1. Contiguous(q, n + 1)
    BY <1>12 DEF Contiguous, Q
  <2>2. Names(q, js)
    BY <1>12, Zenon DEF Names, Q
  <2>. QED  BY <2>1, <2>2, Zenon
<1>14. Q <= HistorySize
  BY <1>3, <1>4
<1>. QED  BY <1>4, <1>13, <1>14, Zenon DEF q, e, Q, js

(* The commands of a packet carry the inputs issued under their numbers.   *)
LEMMA PacketFact ==
  ASSUME NEW h \in Seq(Entry), NEW n \in 0 .. MaxSeq, NEW is,
         Contiguous(h, n), Names(h, is), NEW d, d = Packet(n, h)
  PROVE  /\ d.base \in 0 .. MaxSeq
         /\ d.inputs \in Seq(Dirs \cup {0})
         /\ Len(d.inputs) \in 1 .. Redundancy
         /\ \A k \in DOMAIN d.inputs :
              /\ Numbered(d)[k].seq <= n
              /\ Numbered(d)[k].seq > 0 =>
                   Numbered(d)[k].input = is[Numbered(d)[k].seq]
<1>0. Redundancy \in Nat \ {0} /\ MaxSeq \in Nat
  BY InputsAssumption, Zenon
<1>1. CASE h = <<>>
  <2>1. d.base = 0 /\ d.inputs = <<0>>
    BY <1>1, Zenon DEF Packet
  <2>2. d.inputs \in Seq(Dirs \cup {0}) /\ Len(d.inputs) = 1
        /\ DOMAIN d.inputs = {1}
    BY <2>1
  <2>3. Numbered(d)[1].seq = 0
    BY <2>1, <2>2 DEF Numbered
  <2>. QED  BY <1>0, <2>1, <2>2, <2>3
<1>2. CASE h # <<>>
  <2>. DEFINE u == Last(h, Redundancy)
              U == Len(u)
              in == d.inputs
  <2>1. d.base = n /\ in = [k \in DOMAIN u |-> u[k].input]
    BY <1>2, Zenon DEF Packet
  <2>2. u \in Seq(Entry) /\ IsEnd(u, h)
        /\ U = IF Len(h) > Redundancy THEN Redundancy ELSE Len(h)
    BY <1>0, LastIsEnd, Zenon
  <2>3. U \in 1 .. Redundancy
    BY <1>0, <1>2, <2>2, EmptySeq
  <2>4. Contiguous(u, n) /\ Names(u, is)
    BY <2>2, EndOfHistory
  <2>5. DOMAIN u = 1 .. U /\ U \in Nat
    BY <2>2, LenProperties, Zenon
  <2>6. \A k \in 1 .. U : u[k].seq = n - U + k /\ u[k].input = is[u[k].seq]
    BY <2>4, Zenon DEF Contiguous, Names
  <2>7. \A k \in 1 .. U : u[k].input \in Dirs \cup {0}
    <3>1. \A k \in 1 .. U : u[k] \in Entry
      BY <2>2, ElementOfSeq, Zenon
    <3>. QED  BY <3>1, Zenon DEF Entry
  <2>. HIDE DEF u, U, in
  <2>8. in = [k \in 1 .. U |-> u[k].input]
    BY <2>1, <2>5, Zenon
  <2>9. in \in Seq(Dirs \cup {0}) /\ Len(in) = U /\ DOMAIN in = 1 .. U
    BY <2>5, <2>7, <2>8
  <2>10. \A k \in 1 .. U : /\ Numbered(d)[k].seq = n - U + k
                          /\ Numbered(d)[k].input = u[k].input
    BY <2>1, <2>8, <2>9, Zenon DEF Numbered, in
  <2>11. \A k \in 1 .. U : n - U + k <= n
    BY <2>5
  <2>12. \A k \in 1 .. U :
           /\ Numbered(d)[k].seq <= n
           /\ Numbered(d)[k].input = is[Numbered(d)[k].seq]
    BY <2>6, <2>10, <2>11
  <2>. QED  BY <2>1, <2>3, <2>9, <2>12, Zenon DEF in
<1>. QED  BY <1>1, <1>2, Zenon

-----------------------------------------------------------------------------
(* The inductive invariant *)

ClientType ==
  /\ seq \in 0 .. MaxSeq
  /\ history \in Seq(Entry) /\ Len(history) <= HistorySize
  /\ local \in 0 .. Width
  /\ issued \in Seq(Dirs) /\ Len(issued) = seq

(* The history is contiguous and true to what was issued.                  *)
HistoryTrue == Contiguous(history, seq) /\ Names(history, issued)

FlagType == selfAlive \in BOOLEAN /\ alive \in BOOLEAN

DownType == down \in SUBSET Snapshot /\ lastAge \in 0 .. MaxAge + 1

UpType ==
  \A d \in up : /\ d.base \in 0 .. MaxSeq
                /\ d.inputs \in Seq(Dirs \cup {0})
                /\ Len(d.inputs) \in 1 .. Redundancy

QueueType == pushing \in Seq(Cmd) /\ inbound \in Seq(Cmd)

SimType ==
  /\ pos \in 0 .. Width
  /\ newest \in 0 .. MaxSeq
  /\ ring \in Seq(Cmd) /\ Len(ring) <= RingSize
  /\ ack \in 0 .. MaxSeq
  /\ deaths \in 0 .. MaxDeaths

(* The command carries the input the client issued under its number, if it *)
(* has one; zero numbers the idle input of an empty history.               *)
Genuine(c) == c.seq <= seq /\ (c.seq > 0 => c.input = issued[c.seq])

(* Every command on its way to the ring is genuine.                        *)
UpGenuine == \A d \in up : \A k \in DOMAIN d.inputs : Genuine(Numbered(d)[k])

QueueGenuine ==
  /\ \A k \in 1 .. Len(pushing) : Genuine(pushing[k])
  /\ \A k \in 1 .. Len(inbound) : Genuine(inbound[k])

RingGenuine == \A k \in 1 .. Len(ring) : Genuine(ring[k])

(* RingOrdered over the positions of the ring.                             *)
RingAscends ==
  /\ \A k \in 1 .. Len(ring) : ring[k].seq > ack /\ ring[k].seq <= newest
  /\ Ascending(ring)
  /\ ack <= newest
  /\ newest <= seq

Life ==
  /\ diedAt \in 0 .. newest
  /\ lived \in Nat
  /\ IF diedAt = 0 THEN lived = 0
     ELSE lived + Cardinality(Leftover(ring, diedAt)) < RingSize

IndInv ==
  /\ ClientType /\ HistoryTrue /\ FlagType /\ DownType /\ UpType /\ QueueType
  /\ SimType /\ UpGenuine /\ QueueGenuine /\ RingGenuine /\ RingAscends
  /\ Life

(* Initially the invariant holds.                                          *)
LEMMA InitInv == Init => IndInv
<1>. SUFFICES ASSUME Init  PROVE IndInv
  BY Zenon
<1>. USE InputsAssumption
<1>1. ClientType /\ HistoryTrue
  BY DEF Init, ClientType, HistoryTrue, Contiguous, Names, Entry
<1>2. FlagType
  BY Zenon DEF Init, FlagType
<1>3. DownType /\ UpType /\ QueueType
  BY DEF Init, DownType, UpType, QueueType
<1>4. SimType
  BY DEF Init, SimType
<1>5. UpGenuine /\ QueueGenuine /\ RingGenuine
  BY DEF Init, UpGenuine, QueueGenuine, RingGenuine
<1>6. RingAscends /\ Life
  BY DEF Init, RingAscends, Ascending, Life
<1>. QED  BY <1>1, <1>2, <1>3, <1>4, <1>5, <1>6, Zenon DEF IndInv

(* No step changes what a number means.                                    *)
LEMMA GenuineStays ==
  ASSUME ClientType,
         \/ UNCHANGED <<seq, issued>>
         \/ seq' = seq + 1 /\ \E dir \in Dirs : issued' = Append(issued, dir),
         NEW c, c.seq \in Int, Genuine(c)
  PROVE  Genuine(c)'
<1>1. CASE UNCHANGED <<seq, issued>>
  BY <1>1, Zenon DEF Genuine
<1>2. CASE seq' = seq + 1 /\ \E dir \in Dirs : issued' = Append(issued, dir)
  <2>1. PICK dir \in Dirs : issued' = Append(issued, dir)
    BY <1>2, Zenon
  <2>2. \A k \in 1 .. seq : issued'[k] = issued[k]
    BY <2>1, AppendProperties DEF ClientType
  <2>3. seq \in Nat /\ c.seq <= seq
    BY InputsAssumption DEF ClientType, Genuine
  <2>4. c.seq <= seq'
    BY <1>2, <2>3
  <2>5. ASSUME c.seq > 0  PROVE c.input = issued'[c.seq]
    <3>1. c.seq \in 1 .. seq
      BY <2>3, <2>5
    <3>2. c.input = issued[c.seq]
      BY <2>5, Zenon DEF Genuine
    <3>. QED  BY <2>2, <3>1, <3>2, Zenon
  <2>. QED  BY <2>4, <2>5, Zenon DEF Genuine
<1>. QED  BY <1>1, <1>2, Zenon

(* What on_player_input makes of a packet.                                 *)
LEMMA NumberedType ==
  ASSUME NEW d, d.base \in Int, d.inputs \in Seq(Dirs \cup {0})
  PROVE  /\ Numbered(d) \in Seq(Cmd) /\ Len(Numbered(d)) = Len(d.inputs)
         /\ \A k \in DOMAIN d.inputs : Numbered(d)[k].seq \in Int
<1>. DEFINE L == Len(d.inputs)
<1>1. DOMAIN d.inputs = 1 .. L /\ L \in Nat
  BY LenProperties, Zenon
<1>2. \A k \in 1 .. L : d.inputs[k] \in Dirs \cup {0}
  BY ElementOfSeq, Zenon
<1>. HIDE DEF L
<1>3. Numbered(d) = [k \in 1 .. L |-> [seq |-> d.base - L + k,
                                       input |-> d.inputs[k]]]
  BY <1>1, Zenon DEF Numbered, L
<1>4. \A k \in 1 .. L :
        [seq |-> d.base - L + k, input |-> d.inputs[k]] \in Cmd
  BY <1>1, <1>2 DEF Cmd
<1>5. Numbered(d) \in Seq(Cmd) /\ Len(Numbered(d)) = L
  BY <1>1, <1>3, <1>4
<1>6. \A k \in 1 .. L : Numbered(d)[k].seq \in Int
  BY <1>1, <1>3
<1>. QED  BY <1>1, <1>5, <1>6, Zenon DEF L

(* The numbers of the commands of a queue.                                 *)
LEMMA CmdNumbers ==
  ASSUME NEW q \in Seq(Cmd)
  PROVE  \A k \in 1 .. Len(q) : q[k] \in Cmd /\ q[k].seq \in Int
<1>1. \A k \in 1 .. Len(q) : q[k] \in Cmd
  BY ElementOfSeq, Zenon
<1>. QED  BY <1>1, Zenon DEF Cmd

(* A number keeps its meaning for everything that a step leaves in place.  *)
LEMMA AllStayGenuine ==
  ASSUME IndInv,
         \/ UNCHANGED <<seq, issued>>
         \/ seq' = seq + 1 /\ \E dir \in Dirs : issued' = Append(issued, dir)
  PROVE  /\ \A d \in up : \A k \in DOMAIN d.inputs : Genuine(Numbered(d)[k])'
         /\ \A k \in 1 .. Len(pushing) :
              pushing[k].seq <= seq' /\
              (pushing[k].seq > 0 => pushing[k].input = issued'[pushing[k].seq])
         /\ \A k \in 1 .. Len(inbound) :
              inbound[k].seq <= seq' /\
              (inbound[k].seq > 0 => inbound[k].input = issued'[inbound[k].seq])
         /\ \A k \in 1 .. Len(ring) :
              ring[k].seq <= seq' /\
              (ring[k].seq > 0 => ring[k].input = issued'[ring[k].seq])
<1>1. \A c : c.seq \in Int /\ Genuine(c) => Genuine(c)'
  BY GenuineStays, Zenon DEF IndInv
<1>2. \A c : c.seq \in Int /\ Genuine(c) =>
        c.seq <= seq' /\ (c.seq > 0 => c.input = issued'[c.seq])
  BY <1>1, Zenon DEF Genuine
<1>3. \A d \in up : \A k \in DOMAIN d.inputs : Genuine(Numbered(d)[k])'
  <2>. SUFFICES ASSUME NEW d \in up, NEW k \in DOMAIN d.inputs
                PROVE  Genuine(Numbered(d)[k])'
    BY Zenon
  <2>1. d.base \in Int /\ d.inputs \in Seq(Dirs \cup {0})
    BY InputsAssumption DEF IndInv, UpType
  <2>2. Numbered(d)[k].seq \in Int
    BY <2>1, NumberedType, Zenon
  <2>3. Genuine(Numbered(d)[k])
    BY Zenon DEF IndInv, UpGenuine
  <2>4. PICK c : c = Numbered(d)[k]
    BY Zenon
  <2>5. Genuine(c)'
    BY <1>1, <2>2, <2>3, <2>4, Zenon
  <2>. QED  BY <2>4, <2>5, Zenon DEF Genuine, Numbered
<1>4. /\ \A k \in 1 .. Len(pushing) : pushing[k].seq \in Int /\ Genuine(pushing[k])
      /\ \A k \in 1 .. Len(inbound) : inbound[k].seq \in Int /\ Genuine(inbound[k])
      /\ \A k \in 1 .. Len(ring) : ring[k].seq \in Int /\ Genuine(ring[k])
  BY CmdNumbers, Zenon DEF IndInv, QueueType, SimType, QueueGenuine, RingGenuine
<1>. QED  BY <1>2, <1>3, <1>4, Zenon

(* The simulation does not see what the client does.                       *)
LEMMA SimUnchanged ==
  ASSUME IndInv, UNCHANGED simVars, seq' \in Nat, seq' >= seq
  PROVE  SimType' /\ RingAscends' /\ Life'
<1>. USE DEF simVars, lifeVars
<1>1. SimType'
  BY Zenon DEF IndInv, SimType
<1>2. RingAscends'
  <2>1. seq \in Int /\ newest \in Int
    BY InputsAssumption DEF IndInv, ClientType, SimType
  <2>. QED  BY <2>1 DEF IndInv, RingAscends, Ascending
<1>3. Life'
  BY Zenon DEF IndInv, Life, Leftover
<1>. QED  BY <1>1, <1>2, <1>3, Zenon

(* A client tick keeps the invariant.                                      *)
LEMMA ClientTickStep ==
  ASSUME IndInv, NEW dir \in Dirs, ClientTick(dir)
  PROVE  IndInv'
<1>0. /\ UNCHANGED <<lastAge, selfAlive, down, pushing, inbound, simVars>>
      /\ up' = up \cup {Packet(seq', history')}
  BY Zenon DEF ClientTick
<1>1. ClientType' /\ HistoryTrue' /\ seq' >= seq
      /\ \/ UNCHANGED <<seq, issued>>
         \/ seq' = seq + 1 /\ issued' = Append(issued, dir)
  <2>. USE InputsAssumption
  <2>1. CASE selfAlive
    <3>1. /\ seq < MaxSeq /\ seq' = seq + 1
          /\ local' = MovementStep(local, dir)
          /\ history' = Remember(history, [seq |-> seq + 1, input |-> dir])
          /\ issued' = Append(issued, dir)
      BY <2>1, Zenon DEF ClientTick
    <3>2. seq \in Nat /\ seq + 1 <= MaxSeq /\ seq' \in 0 .. MaxSeq
      BY <3>1 DEF IndInv, ClientType
    <3>3. /\ history' \in Seq(Entry) /\ Len(history') <= HistorySize
          /\ Contiguous(history', seq') /\ Names(history', issued')
      BY <3>1, <3>2, RememberFact, Zenon DEF IndInv, ClientType, HistoryTrue
    <3>4. local' \in 0 .. Width
      BY <3>1, Zenon DEF MovementStep, IndInv, ClientType
    <3>5. issued' \in Seq(Dirs) /\ Len(issued') = seq'
      BY <3>1, AppendProperties, Zenon DEF IndInv, ClientType
    <3>6. ClientType'
      BY <3>2, <3>3, <3>4, <3>5, Zenon DEF ClientType
    <3>7. HistoryTrue'
      BY <3>3, Zenon DEF HistoryTrue, Contiguous, Names
    <3>8. seq' >= seq
      BY <3>1, <3>2
    <3>. QED  BY <3>1, <3>6, <3>7, <3>8, Zenon
  <2>2. CASE ~selfAlive
    <3>1. UNCHANGED <<seq, local, history, issued>>
      BY <2>2, Zenon DEF ClientTick
    <3>. QED  BY <3>1
              DEF IndInv, ClientType, HistoryTrue, Contiguous, Names
  <2>. QED  BY <2>1, <2>2, Zenon
<1>2. /\ \A d \in up : \A k \in DOMAIN d.inputs : Genuine(Numbered(d)[k])'
      /\ QueueGenuine' /\ RingGenuine'
  <2>1. \/ UNCHANGED <<seq, issued>>
        \/ seq' = seq + 1 /\ \E dd \in Dirs : issued' = Append(issued, dd)
    BY <1>1, Zenon
  <2>2. UNCHANGED <<pushing, inbound, ring>>
    BY <1>0, Zenon DEF simVars
  <2>. QED  BY <2>1, <2>2, AllStayGenuine, Zenon
            DEF QueueGenuine, RingGenuine, Genuine
<1>3. UpType' /\ UpGenuine'
  <2>1. PICK p : p = Packet(seq', history')
    BY Zenon
  <2>2. /\ history' \in Seq(Entry) /\ seq' \in 0 .. MaxSeq
        /\ Contiguous(history', seq') /\ Names(history', issued')
    BY <1>1, Zenon DEF ClientType, HistoryTrue, Contiguous, Names
  <2>3. /\ p.base \in 0 .. MaxSeq
        /\ p.inputs \in Seq(Dirs \cup {0})
        /\ Len(p.inputs) \in 1 .. Redundancy
        /\ \A k \in DOMAIN p.inputs :
             /\ Numbered(p)[k].seq <= seq'
             /\ Numbered(p)[k].seq > 0 =>
                  Numbered(p)[k].input = issued'[Numbered(p)[k].seq]
    BY <2>1, <2>2, PacketFact
  <2>4. \A k \in DOMAIN p.inputs : Genuine(Numbered(p)[k])'
    BY <2>3, Zenon DEF Genuine, Numbered
  <2>5. up' = up \cup {p}
    BY <1>0, <2>1, Zenon
  <2>6. UpType'
    BY <2>3, <2>5, Zenon DEF IndInv, UpType
  <2>7. UpGenuine'
    BY <1>2, <2>4, <2>5, Zenon DEF UpGenuine
  <2>. QED  BY <2>6, <2>7, Zenon
<1>4. FlagType'
  BY <1>0, Zenon DEF IndInv, FlagType, simVars
<1>5. DownType' /\ QueueType'
  BY <1>0, Zenon DEF IndInv, DownType, QueueType
<1>6. SimType' /\ RingAscends' /\ Life'
  <2>1. seq' \in Nat
    BY <1>1, InputsAssumption DEF ClientType
  <2>. QED  BY <1>0, <1>1, <2>1, SimUnchanged, Zenon
<1>. QED  BY <1>1, <1>2, <1>3, <1>4, <1>5, <1>6, Zenon DEF IndInv

(* A snapshot keeps the invariant: what is trimmed from the history is the *)
(* front of it.                                                            *)
LEMMA OnSnapshotStep ==
  ASSUME IndInv, NEW s \in down, OnSnapshot(s)
  PROVE  IndInv'
<1>0. UNCHANGED <<seq, issued, up, down, pushing, inbound, simVars>>
  BY Zenon DEF OnSnapshot
<1>1. s \in Snapshot
  BY Zenon DEF IndInv, DownType
<1>2. ClientType' /\ HistoryTrue' /\ lastAge' \in 0 .. MaxAge + 1
  <2>1. CASE Stale(s)
    <3>1. UNCHANGED <<history, local, lastAge>>
      BY <2>1, Zenon DEF OnSnapshot
    <3>. QED  BY <1>0, <3>1, Zenon
                 DEF IndInv, ClientType, HistoryTrue, Contiguous,
                                Names, DownType
  <2>2. CASE ~Stale(s)
    <3>1. /\ lastAge' = s.age
          /\ history' = Unacked(history, s.ack)
          /\ local' = Replay(s.pos, history')
      BY <2>2, Zenon DEF OnSnapshot, Reconcile
    <3>2. s.age \in 0 .. MaxAge /\ s.ack \in Int /\ s.pos \in 0 .. Width
      BY <1>1, InputsAssumption DEF Snapshot
    <3>. DEFINE L == Len(history)
    <3>3. /\ history \in Seq(Entry) /\ L \in Nat /\ seq \in Int
          /\ Contiguous(history, seq) /\ Names(history, issued)
      BY InputsAssumption, LenProperties DEF IndInv, ClientType, HistoryTrue
    <3>4. seq - L \in Int /\ \A k \in 1 .. L : history[k].seq = (seq - L) + k
      BY <3>3 DEF Contiguous
    <3>5. history' \in Seq(Entry) /\ IsEnd(history', history)
      BY <3>1, <3>2, <3>3, <3>4, UnackedIsEnd, Zenon
    <3>6. Contiguous(history', seq) /\ Names(history', issued)
      BY <3>3, <3>5, EndOfHistory, Zenon
    <3>7. Len(history') <= HistorySize
      BY <3>3, <3>5, LenProperties, InputsAssumption
      DEF IsEnd, IndInv, ClientType
    <3>8. local' \in 0 .. Width
      BY <3>1, <3>2, <3>5, ReplayType, Zenon
    <3>9. lastAge' \in 0 .. MaxAge + 1
      BY <3>1, <3>2, InputsAssumption
    <3>. QED  BY <1>0, <3>5, <3>6, <3>7, <3>8, <3>9, Zenon
              DEF IndInv, ClientType, HistoryTrue, Contiguous, Names
  <2>. QED  BY <2>1, <2>2, Zenon
<1>3. FlagType'
  <2>1. s.alive \in BOOLEAN
    BY <1>1, Zenon DEF Snapshot
  <2>2. selfAlive' = s.alive /\ alive' = alive
    BY <1>0, Zenon DEF OnSnapshot, simVars
  <2>. QED  BY <2>1, <2>2, Zenon DEF IndInv, FlagType
<1>4. DownType' /\ UpType' /\ QueueType'
  BY <1>0, <1>2, Zenon DEF IndInv, DownType, UpType, QueueType
<1>5. UpGenuine' /\ QueueGenuine' /\ RingGenuine'
  BY <1>0, ZenonT(30)
     DEF IndInv, UpGenuine, QueueGenuine, RingGenuine, Genuine, Numbered,
              simVars
<1>6. SimType' /\ RingAscends' /\ Life'
  <2>1. seq' \in Nat /\ seq' >= seq
    BY <1>0, InputsAssumption DEF IndInv, ClientType
  <2>. QED  BY <1>0, <2>1, SimUnchanged, Zenon
<1>. QED  BY <1>2, <1>3, <1>4, <1>5, <1>6, Zenon DEF IndInv

(* The network thread keeps the invariant.                                 *)
LEMMA NetworkStep ==
  ASSUME IndInv, (\E d \in up : OnPlayerInput(d)) \/ Push
  PROVE  IndInv'
<1>0. UNCHANGED <<clientVars, up, down, simVars>>
  BY Zenon DEF OnPlayerInput, Push
<1>1. QueueType' /\ QueueGenuine'
  <2>1. ASSUME NEW d \in up, OnPlayerInput(d)  PROVE QueueType' /\ QueueGenuine'
    <3>1. pushing' = Numbered(d) /\ inbound' = inbound
      BY <2>1, Zenon DEF OnPlayerInput
    <3>2. d.base \in Int /\ d.inputs \in Seq(Dirs \cup {0})
      BY InputsAssumption DEF IndInv, UpType
    <3>3. pushing' \in Seq(Cmd) /\ Len(pushing') = Len(d.inputs)
      BY <3>1, <3>2, NumberedType, Zenon
    <3>4. DOMAIN d.inputs = 1 .. Len(d.inputs)
      BY <3>2, LenProperties, Zenon
    <3>5. \A k \in 1 .. Len(pushing') : Genuine(Numbered(d)[k])
      BY <3>3, <3>4, Zenon DEF IndInv, UpGenuine
    <3>6. \A k \in 1 .. Len(pushing') :
            /\ pushing'[k].seq <= seq
            /\ pushing'[k].seq > 0 =>
                 pushing'[k].input = issued[pushing'[k].seq]
      BY <3>1, <3>5, Zenon DEF Genuine
    <3>. QED  BY <1>0, <3>1, <3>3, <3>6, Zenon
              DEF IndInv, QueueType, QueueGenuine, Genuine, clientVars
  <2>2. ASSUME Push  PROVE QueueType' /\ QueueGenuine'
    <3>1. /\ pushing # <<>> /\ pushing' = Tail(pushing)
          /\ inbound' = Append(inbound, Head(pushing))
      BY <2>2, Zenon DEF Push
    <3>. DEFINE P == Len(pushing)
                I == Len(inbound)
    <3>2. /\ pushing \in Seq(Cmd) /\ inbound \in Seq(Cmd)
          /\ \A k \in 1 .. P : Genuine(pushing[k])
          /\ \A k \in 1 .. I : Genuine(inbound[k])
      BY Zenon DEF IndInv, QueueType, QueueGenuine
    <3>3. /\ P \in Nat \ {0} /\ pushing' \in Seq(Cmd) /\ Len(pushing') = P - 1
          /\ \A k \in 1 .. P - 1 : pushing'[k] = pushing[k + 1]
          /\ Head(pushing) = pushing[1] /\ Head(pushing) \in Cmd
      BY <3>1, <3>2, HeadTailProperties
    <3>4. /\ I \in Nat /\ inbound' \in Seq(Cmd) /\ Len(inbound') = I + 1
          /\ inbound'[I + 1] = pushing[1]
          /\ \A k \in 1 .. I : inbound'[k] = inbound[k]
      BY <3>1, <3>2, <3>3, AppendProperties
    <3>. HIDE DEF P, I
    <3>5. \A k \in 1 .. P - 1 : k + 1 \in 1 .. P
      BY <3>3
    <3>6. \A k \in 1 .. Len(pushing') :
            /\ pushing'[k].seq <= seq
            /\ pushing'[k].seq > 0 =>
                 pushing'[k].input = issued[pushing'[k].seq]
      BY <3>2, <3>3, <3>5, SMTT(30) DEF Genuine
    <3>7. Genuine(pushing[1])
      BY <3>2, <3>3
    <3>8. \A k \in 1 .. I + 1 : k = I + 1 \/ k \in 1 .. I
      BY <3>4
    <3>9. \A k \in 1 .. Len(inbound') :
            /\ inbound'[k].seq <= seq
            /\ inbound'[k].seq > 0 =>
                 inbound'[k].input = issued[inbound'[k].seq]
      BY <3>2, <3>4, <3>7, <3>8, ZenonT(30) DEF Genuine
    <3>. QED  BY <1>0, <3>3, <3>4, <3>6, <3>9, Zenon
              DEF QueueType, QueueGenuine, Genuine, clientVars
  <2>. QED  BY <2>1, <2>2, Zenon
<1>2. ClientType' /\ HistoryTrue'
  BY <1>0, Zenon
     DEF IndInv, ClientType, HistoryTrue, Contiguous, Names, clientVars
<1>3. FlagType'
  BY <1>0, Zenon DEF IndInv, FlagType, clientVars, simVars
<1>4. DownType' /\ UpType'
  BY <1>0, Zenon DEF IndInv, DownType, UpType, clientVars
<1>5. UpGenuine' /\ RingGenuine'
  BY <1>0, ZenonT(30)
     DEF IndInv, UpGenuine, RingGenuine, Genuine, Numbered, clientVars,
              simVars
<1>6. SimType' /\ RingAscends' /\ Life'
  <2>1. seq' \in Nat /\ seq' >= seq
    BY <1>0, InputsAssumption DEF IndInv, ClientType, clientVars
  <2>. QED  BY <1>0, <2>1, SimUnchanged, Zenon
<1>. QED  BY <1>1, <1>2, <1>3, <1>4, <1>5, <1>6, Zenon DEF IndInv

(* A fresh input joins the ring behind all others and adds nothing to what *)
(* is left over of an earlier life.                                        *)
LEMMA FreshInput ==
  ASSUME IndInv, NEW c \in Cmd, Genuine(c), Fresh(c), QueueInput(c),
         newest' = c.seq, UNCHANGED <<seq, issued, ack, diedAt, lived>>
  PROVE  /\ ring' \in Seq(Cmd) /\ Len(ring') <= RingSize
         /\ newest' \in 0 .. MaxSeq
         /\ RingGenuine' /\ RingAscends' /\ Life'
<1>. DEFINE R == Len(ring)
            Q == Len(ring')
<1>0. /\ RingSize \in Nat \ {0} /\ MaxSeq \in Nat
      /\ ring \in Seq(Cmd) /\ R <= RingSize /\ R \in Nat
      /\ newest \in Nat /\ seq \in 0 .. MaxSeq /\ ack \in Nat /\ c.seq \in Int
  BY InputsAssumption, LenProperties DEF IndInv, SimType, ClientType, Cmd
<1>1. /\ ring' \in Seq(Cmd) /\ Q \in 1 .. RingSize
      /\ Extends(ring', ring, c)
  <2>1. ring' = PushBack(ring, c, RingSize)
    BY Zenon DEF QueueInput, PushBack
  <2>. QED  BY <1>0, <2>1, PushBackFact, Zenon
<1>2. /\ Q <= R + 1 /\ ring'[Q] = c
      /\ \A k \in 1 .. Q - 1 : /\ R + 1 - Q + k \in 1 .. R
                               /\ ring'[k] = ring[R + 1 - Q + k]
  BY <1>1, Zenon DEF Extends
<1>3. Q \in Nat /\ Q <= RingSize
  BY <1>0, <1>1
<1>4. c.seq > newest /\ c.seq <= seq /\ c.input = issued[c.seq]
  BY <1>0 DEF Genuine, Fresh
<1>5. /\ \A k \in 1 .. R : /\ ring[k].seq \in Int
                           /\ ring[k].seq > ack /\ ring[k].seq <= newest
                           /\ Genuine(ring[k])
      /\ \A m, n \in 1 .. R : m < n => ring[m].seq < ring[n].seq
      /\ ack <= newest
  BY <1>0, CmdNumbers, Zenon DEF IndInv, RingAscends, Ascending, RingGenuine
<1>. HIDE DEF R, Q
<1>6. \A k \in 1 .. Q : k = Q \/ k \in 1 .. Q - 1
  BY <1>3
<1>7. \A k \in 1 .. Q : /\ ring'[k].seq <= seq
                        /\ ring'[k].seq > 0 =>
                             ring'[k].input = issued[ring'[k].seq]
  BY <1>2, <1>4, <1>5, <1>6, Zenon DEF Genuine
<1>8. RingGenuine'
  BY <1>7, Zenon DEF RingGenuine, Genuine, Q
<1>9. \A k \in 1 .. Q - 1 : ring'[k].seq \in Int /\ ring'[k].seq > ack
                            /\ ring'[k].seq <= newest
  BY <1>2, <1>5, Zenon
<1>10. \A k \in 1 .. Q : ring'[k].seq > ack /\ ring'[k].seq <= newest'
  <2>. SUFFICES ASSUME NEW k \in 1 .. Q
                PROVE  ring'[k].seq > ack /\ ring'[k].seq <= newest'
    BY Zenon
  <2>1. /\ newest' = c.seq /\ c.seq \in Int /\ newest \in Int /\ ack \in Int
        /\ c.seq > newest /\ ack <= newest
    BY <1>0, <1>4, <1>5
  <2>2. CASE k = Q
    BY <1>2, <2>1, <2>2
  <2>3. CASE k \in 1 .. Q - 1
    <3>1. ring'[k].seq \in Int /\ ring'[k].seq > ack /\ ring'[k].seq <= newest
      BY <1>9, <2>3, Zenon
    <3>. QED  BY <2>1, <3>1
  <2>. QED  BY <1>6, <2>2, <2>3, Zenon
<1>11. \A m, n \in 1 .. Q : m < n => ring'[m].seq < ring'[n].seq
  <2>. SUFFICES ASSUME NEW m \in 1 .. Q, NEW n \in 1 .. Q, m < n
                PROVE  ring'[m].seq < ring'[n].seq
    BY Zenon
  <2>1. m \in 1 .. Q - 1
    BY <1>3
  <2>2. CASE n = Q
    <3>1. /\ ring'[m].seq \in Int /\ ring'[m].seq <= newest
          /\ ring'[n] = c /\ c.seq > newest
      BY <1>2, <1>4, <1>9, <2>1, <2>2, Zenon
    <3>2. newest \in Int /\ c.seq \in Int
      BY <1>0
    <3>. QED  BY <3>1, <3>2
  <2>3. CASE n \in 1 .. Q - 1
    <3>1. R + 1 - Q + m < R + 1 - Q + n
      BY <1>0, <1>3
    <3>. QED  BY <1>2, <1>5, <2>1, <2>3, <3>1, Zenon
  <2>. QED  BY <1>6, <2>2, <2>3, Zenon
<1>12. RingAscends'
  BY <1>0, <1>4, <1>5, <1>10, <1>11 DEF RingAscends, Ascending, Q
<1>13. Life'
  <2>1. diedAt \in 0 .. newest /\ diedAt' \in 0 .. newest' /\ lived \in Nat
    BY <1>0, <1>4 DEF IndInv, Life
  <2>2. CASE diedAt = 0
    BY <2>1, <2>2, Zenon DEF IndInv, Life
  <2>3. CASE diedAt # 0
    <3>. DEFINE C(r) == Cardinality(Leftover(r, diedAt))
    <3>1. lived + C(ring) < RingSize
      BY <2>3, Zenon DEF IndInv, Life
    <3>2. diedAt \in Int /\ c.seq > diedAt
      BY <1>0, <1>4, <2>1
    <3>3. Ascending(ring)
      BY Zenon DEF IndInv, RingAscends
    <3>4. C(ring) \in Nat
      BY <1>0, <3>2, <3>3, LeftoverCount
    <3>5. C(ring') <= C(ring) /\ C(ring') \in Nat
      <4>1. CASE R = RingSize
        <5>1. ring # <<>> /\ ring' = Append(Tail(ring), c)
          BY <1>0, <4>1, Zenon DEF QueueInput, R
        <5>2. Tail(ring) \in Seq(Cmd)
          BY <1>0, <5>1, HeadTailProperties, Zenon
        <5>3. C(ring') = C(Tail(ring))
          BY <3>2, <5>1, <5>2, LeftoverAppend, Zenon
        <5>4. Leftover(ring, diedAt) = {} => Leftover(Tail(ring), diedAt) = {}
          BY <1>0, <3>2, <3>3, <5>1, LeftoverTail, Zenon
        <5>5. Leftover(ring, diedAt) # {} => C(Tail(ring)) = C(ring) - 1
          BY <1>0, <3>2, <3>3, <5>1, LeftoverTail, Zenon
        <5>6. C(Tail(ring)) \in Nat
          <6>1. Ascending(Tail(ring))
            BY <1>0, <3>2, <3>3, <5>1, LeftoverTail, Zenon
          <6>2. C(Tail(ring)) \in 0 .. Len(Tail(ring))
            BY <3>2, <5>2, <6>1, LeftoverCount, Zenon
          <6>. QED  BY <6>2
        <5>. QED  BY <3>4, <5>3, <5>4, <5>5, <5>6
      <4>2. CASE R # RingSize
        <5>1. ring' = Append(ring, c)
          BY <4>2, Zenon DEF QueueInput, R
        <5>2. C(ring') = C(ring)
          BY <1>0, <3>2, <5>1, LeftoverAppend, Zenon
        <5>. QED  BY <3>4, <5>2
      <4>. QED  BY <4>1, <4>2, Zenon
    <3>. HIDE DEF C
    <3>6. lived + C(ring') < RingSize
      BY <1>0, <2>1, <3>1, <3>4, <3>5
    <3>. QED  BY <2>1, <2>3, <3>6, Zenon DEF Life, C
  <2>. QED  BY <2>2, <2>3, Zenon
<1>14. newest' \in 0 .. MaxSeq
  BY <1>0, <1>4
<1>. QED  BY <1>1, <1>3, <1>8, <1>12, <1>13, <1>14, Zenon DEF Q

(* Taking a command from the inbound queue keeps the invariant.            *)
LEMMA DrainInputStep ==
  ASSUME IndInv, DrainInput
  PROVE  IndInv'
<1>0. UNCHANGED <<clientVars, up, down, pushing, alive, pos, ack, deaths,
                  lifeVars>>
  BY Zenon DEF DrainInput
<1>. DEFINE I == Len(inbound)
            c == Head(inbound)
<1>1. inbound \in Seq(Cmd) /\ inbound # <<>> /\ inbound' = Tail(inbound)
  BY Zenon DEF DrainInput, IndInv, QueueType
<1>2. /\ I \in Nat \ {0} /\ inbound' \in Seq(Cmd) /\ Len(inbound') = I - 1
      /\ \A k \in 1 .. I - 1 : inbound'[k] = inbound[k + 1]
      /\ c = inbound[1] /\ c \in Cmd
  BY <1>1, HeadTailProperties
<1>3. \A k \in 1 .. I : Genuine(inbound[k])
  BY Zenon DEF IndInv, QueueGenuine
<1>. HIDE DEF I
<1>4. QueueType' /\ QueueGenuine'
  <2>1. \A k \in 1 .. I - 1 : k + 1 \in 1 .. I
    BY <1>2
  <2>2. \A k \in 1 .. Len(inbound') :
          /\ inbound'[k].seq <= seq
          /\ inbound'[k].seq > 0 =>
               inbound'[k].input = issued[inbound'[k].seq]
    BY <1>2, <1>3, <2>1 DEF Genuine
  <2>. QED  BY <1>0, <1>2, <2>2, Zenon
            DEF IndInv, QueueType, QueueGenuine, Genuine, clientVars
<1>5. SimType' /\ RingGenuine' /\ RingAscends' /\ Life'
  <2>1. CASE alive /\ Fresh(c)
    <3>1. Genuine(c)
      BY <1>2, <1>3
    <3>2. newest' = c.seq /\ QueueInput(c)
      BY <2>1, Zenon DEF DrainInput
    <3>. HIDE DEF c
    <3>3. UNCHANGED <<seq, issued, ack, diedAt, lived>>
      BY <1>0, Zenon DEF clientVars, lifeVars
    <3>4. /\ ring' \in Seq(Cmd) /\ Len(ring') <= RingSize
          /\ newest' \in 0 .. MaxSeq
          /\ RingGenuine' /\ RingAscends' /\ Life'
      BY <1>2, <2>1, <3>1, <3>2, <3>3, FreshInput, Zenon
    <3>. QED  BY <1>0, <3>4, Zenon DEF IndInv, SimType
  <2>2. CASE ~(alive /\ Fresh(c))
    <3>1. UNCHANGED <<newest, ring>>
      BY <2>2, Zenon DEF DrainInput
    <3>. QED  BY <1>0, <3>1, Zenon DEF IndInv, SimType, RingGenuine, Genuine,
                RingAscends, Ascending, Life, Leftover, clientVars, lifeVars
  <2>. QED  BY <2>1, <2>2, Zenon
<1>6. ClientType' /\ HistoryTrue'
  BY <1>0, Zenon
     DEF IndInv, ClientType, HistoryTrue, Contiguous, Names, clientVars
<1>7. FlagType'
  BY <1>0, Zenon DEF IndInv, FlagType, clientVars
<1>8. DownType' /\ UpType' /\ UpGenuine'
  BY <1>0, Zenon DEF IndInv, DownType, UpType, UpGenuine, Genuine, Numbered,
              clientVars
<1>. QED  BY <1>4, <1>5, <1>6, <1>7, <1>8, Zenon DEF IndInv

(* Popping the head keeps the ring ascending and moves the ack up to it.   *)
LEMMA PopRing ==
  ASSUME IndInv, PopAndMove, UNCHANGED <<seq, issued, newest>>
  PROVE  /\ ring' \in Seq(Cmd) /\ Len(ring') <= RingSize
         /\ alive => Len(ring') < RingSize
         /\ ack' \in 0 .. MaxSeq
         /\ RingGenuine' /\ RingAscends'
<1>. DEFINE R == Len(ring)
<1>0. /\ RingSize \in Nat \ {0} /\ MaxSeq \in Nat
      /\ ring \in Seq(Cmd) /\ R <= RingSize /\ R \in Nat
      /\ newest \in 0 .. MaxSeq /\ seq \in 0 .. MaxSeq /\ ack \in 0 .. MaxSeq
  BY InputsAssumption, LenProperties, Zenon DEF IndInv, SimType, ClientType
<1>1. /\ \A k \in 1 .. R : /\ ring[k].seq \in Int
                           /\ ring[k].seq > ack /\ ring[k].seq <= newest
                           /\ Genuine(ring[k])
      /\ \A m, n \in 1 .. R : m < n => ring[m].seq < ring[n].seq
      /\ ack <= newest /\ newest <= seq
  BY <1>0, CmdNumbers, Zenon DEF IndInv, RingAscends, Ascending, RingGenuine
<1>2. CASE alive /\ ring # <<>>
  <2>1. ring' = Tail(ring) /\ ack' = Head(ring).seq
    BY <1>2, Zenon DEF PopAndMove
  <2>2. /\ R \in Nat \ {0} /\ ring' \in Seq(Cmd) /\ Len(ring') = R - 1
        /\ \A k \in 1 .. R - 1 : ring'[k] = ring[k + 1]
        /\ Head(ring) = ring[1]
    BY <1>0, <1>2, <2>1, HeadTailProperties
  <2>. HIDE DEF R
  <2>3. 1 \in 1 .. R /\ \A k \in 1 .. R - 1 : k + 1 \in 1 .. R /\ 1 < k + 1
    BY <2>2
  <2>4. ack' = ring[1].seq /\ ack' \in Int /\ ack' > ack /\ ack' <= newest
    BY <1>1, <2>1, <2>2, <2>3, Zenon
  <2>5. ack' \in 0 .. MaxSeq
    BY <1>0, <2>4
  <2>6. \A k \in 1 .. R - 1 : ring'[k].seq > ack' /\ ring'[k].seq <= newest
    BY <1>1, <2>2, <2>3, <2>4, Zenon
  <2>7. \A m, n \in 1 .. R - 1 : m < n => ring'[m].seq < ring'[n].seq
    <3>1. \A m, n \in 1 .. R - 1 : m < n => m + 1 < n + 1
      BY <2>2
    <3>. QED  BY <1>1, <2>2, <2>3, <3>1, Zenon
  <2>8. RingAscends'
    BY <1>1, <2>2, <2>4, <2>6, <2>7, Zenon DEF RingAscends, Ascending
  <2>9. \A k \in 1 .. R - 1 : /\ ring'[k].seq <= seq
                              /\ ring'[k].seq > 0 =>
                                   ring'[k].input = issued[ring'[k].seq]
    BY <1>1, <2>2, <2>3, SMTT(30) DEF Genuine
  <2>10. RingGenuine'
    BY <2>2, <2>9, Zenon DEF RingGenuine, Genuine
  <2>11. R - 1 < RingSize /\ R - 1 <= RingSize
    BY <1>0, <2>2
  <2>. QED  BY <2>2, <2>5, <2>8, <2>10, <2>11, Zenon
<1>3. CASE ~(alive /\ ring # <<>>)
  <2>1. UNCHANGED <<ring, ack>>
    BY <1>3, Zenon DEF PopAndMove
  <2>2. alive => Len(ring) < RingSize
    BY <1>0, <1>3, EmptySeq
  <2>. QED  BY <1>0, <2>1, <2>2, Zenon
            DEF IndInv, RingGenuine, Genuine, RingAscends, Ascending
<1>. QED  BY <1>2, <1>3, Zenon

(* A tick of the new life uses up one input of the old one.                *)
LEMMA LifeTick ==
  ASSUME IndInv, PopAndMove, NEW hit \in BOOLEAN, hit => alive,
         RecordLife(hit), UNCHANGED <<seq, issued, newest>>
  PROVE  Life'
<1>0. /\ RingSize \in Nat \ {0} /\ newest \in Nat
      /\ ring \in Seq(Cmd) /\ Ascending(ring)
      /\ diedAt \in 0 .. newest /\ lived \in Nat
  BY InputsAssumption DEF IndInv, SimType, RingAscends, Life
<1>1. /\ ring' \in Seq(Cmd) /\ Len(ring') <= RingSize
      /\ alive => Len(ring') < RingSize
      /\ Ascending(ring')
  BY PopRing, Zenon DEF RingAscends, Ascending
<1>. DEFINE last == IF hit THEN newest ELSE diedAt
            C(r) == Cardinality(Leftover(r, last))
<1>2. /\ diedAt' = IF Leftover(ring', last) = {} THEN 0 ELSE last
      /\ lived' = IF alive /\ ~hit /\ diedAt' # 0 THEN lived + 1 ELSE 0
  BY Zenon DEF RecordLife
<1>3. last \in 0 .. newest /\ last \in Int
  BY <1>0
<1>4. C(ring') \in 0 .. Len(ring') /\ C(ring) \in 0 .. Len(ring)
  BY <1>0, <1>1, <1>3, LeftoverCount, Zenon
<1>5. diedAt' \in 0 .. newest' /\ lived' \in Nat
  BY <1>0, <1>2, <1>3
<1>6. CASE diedAt' = 0
  BY <1>2, <1>5, <1>6, Zenon DEF Life
<1>7. CASE diedAt' # 0
  <2>1. diedAt' = last /\ Leftover(ring', last) # {}
    BY <1>2, <1>7, Zenon
  <2>2. CASE hit
    <3>1. lived' = 0 /\ Len(ring') < RingSize
      BY <1>1, <1>2, <2>2, Zenon
    <3>2. C(ring') < RingSize
      BY <1>0, <1>1, <1>4, <3>1
    <3>. HIDE DEF last
    <3>. QED  BY <1>4, <1>5, <1>7, <2>1, <3>1, <3>2 DEF Life
  <2>3. CASE ~hit
    <3>1. last = diedAt /\ diedAt # 0
      BY <1>7, <2>1, <2>3, Zenon
    <3>2. lived + C(ring) < RingSize
      BY <3>1, Zenon DEF IndInv, Life
    <3>3. CASE alive /\ ring # <<>>
      <4>1. ring' = Tail(ring)
        BY <3>3, Zenon DEF PopAndMove
      <4>2. C(ring') = C(ring) - 1
        <5>1. Leftover(ring, last) = {} => Leftover(ring', last) = {}
          BY <1>0, <1>3, <3>3, <4>1, LeftoverTail, Zenon
        <5>2. Leftover(ring, last) # {}
          BY <2>1, <5>1, Zenon
        <5>. QED  BY <1>0, <1>3, <3>3, <4>1, <5>2, LeftoverTail, Zenon
      <4>3. lived' = lived + 1
        BY <1>2, <1>7, <2>3, <3>3, Zenon
      <4>. HIDE DEF C, last
      <4>4. lived' + C(ring') < RingSize
        BY <1>0, <1>4, <3>2, <4>2, <4>3
      <4>. QED  BY <1>5, <1>7, <2>1, <4>4, Zenon DEF Life, C
    <3>4. CASE ~alive
      <4>1. ring' = ring /\ lived' = 0
        BY <1>2, <3>4, Zenon DEF PopAndMove
      <4>. HIDE DEF C, last
      <4>2. lived' + C(ring') < RingSize
        BY <1>0, <1>4, <3>2, <4>1
      <4>. QED  BY <1>5, <1>7, <2>1, <4>2 DEF Life, C
    <3>5. CASE alive /\ ring = <<>>
      <4>1. ring' = <<>>
        BY <3>5, Zenon DEF PopAndMove
      <4>2. Leftover(ring', last) = {}
        BY <4>1 DEF Leftover
      <4>. QED  BY <2>1, <4>2, Zenon
    <3>. QED  BY <3>3, <3>4, <3>5, Zenon
  <2>. QED  BY <2>2, <2>3, Zenon
<1>. QED  BY <1>6, <1>7, Zenon

(* The position sent is between the walls, rounded down as it is.          *)
LEMMA OnWireType ==
  ASSUME NEW p \in 0 .. Width
  PROVE  OnWire(p) \in 0 .. Width
BY InputsAssumption DEF OnWire

(* A tick keeps the invariant.                                             *)
LEMMA TickStep ==
  ASSUME IndInv, NEW hit \in BOOLEAN, NEW back \in BOOLEAN, Tick(hit, back)
  PROVE  IndInv'
<1>0. /\ UNCHANGED <<seq, history, local, selfAlive, issued, up, pushing,
                     inbound, newest>>
      /\ PopAndMove /\ RecordLife(hit)
      /\ hit => alive /\ deaths < MaxDeaths
  BY Zenon DEF Tick
<1>1. /\ ring' \in Seq(Cmd) /\ Len(ring') <= RingSize /\ ack' \in 0 .. MaxSeq
      /\ RingGenuine' /\ RingAscends'
  BY <1>0, PopRing, Zenon
<1>2. Life'
  BY <1>0, LifeTick, Zenon
<1>3. FlagType'
  <2>1. alive' \in BOOLEAN
    BY Zenon DEF Tick
  <2>2. selfAlive' \in BOOLEAN
    BY <1>0, Zenon DEF IndInv, FlagType
  <2>. QED  BY <2>1, <2>2, Zenon DEF FlagType
<1>4. pos' \in 0 .. Width
  <2>1. Moved \in 0 .. Width
    BY Zenon DEF Moved, MovementStep, IndInv, SimType
  <2>2. pos' = IF back THEN Spawn ELSE Moved
    BY Zenon DEF Tick
  <2>. HIDE DEF Moved
  <2>. QED  BY <2>1, <2>2, InputsAssumption, Zenon
<1>5. deaths' \in 0 .. MaxDeaths
  <2>1. deaths' = (IF hit THEN deaths + 1 ELSE deaths) /\ deaths \in 0 .. MaxDeaths
    BY Zenon DEF Tick, IndInv, SimType
  <2>2. MaxDeaths \in Nat
    BY InputsAssumption, Zenon
  <2>. QED  BY <1>0, <2>1, <2>2
<1>6. SimType'
  BY <1>0, <1>1, <1>4, <1>5, Zenon DEF IndInv, SimType
<1>7. DownType'
  <2>. DEFINE old == {t \in down : t.age < MaxAge}
              new == [age |-> 0, ack |-> ack', pos |-> OnWire(pos'),
                      alive |-> alive']
  <2>1. /\ down' = {[t EXCEPT !.age = @ + 1] : t \in old} \cup {new}
        /\ lastAge' = IF lastAge <= MaxAge THEN lastAge + 1 ELSE lastAge
    BY Zenon DEF Tick
  <2>2. new \in Snapshot
    <3>1. OnWire(pos') \in 0 .. Width
      BY <1>4, OnWireType, Zenon
    <3>2. alive' \in BOOLEAN
      BY <1>3, Zenon DEF FlagType
    <3>3. 0 \in 0 .. MaxAge
      BY InputsAssumption
    <3>. QED  BY <1>1, <3>1, <3>2, <3>3, Zenon DEF Snapshot
  <2>3. \A t \in old : [t EXCEPT !.age = @ + 1] \in Snapshot
    <3>1. \A t \in old : t \in Snapshot /\ t.age + 1 \in 0 .. MaxAge
      BY InputsAssumption DEF IndInv, DownType, Snapshot
    <3>. QED  BY <3>1, Zenon DEF Snapshot
  <2>4. lastAge' \in 0 .. MaxAge + 1
    BY <2>1, InputsAssumption DEF IndInv, DownType
  <2>. HIDE DEF old, new
  <2>. QED  BY <2>1, <2>2, <2>3, <2>4, Zenon DEF DownType
<1>8. ClientType' /\ HistoryTrue'
  BY <1>0, Zenon DEF IndInv, ClientType, HistoryTrue, Contiguous, Names
<1>9. UpType' /\ QueueType' /\ UpGenuine' /\ QueueGenuine'
  BY <1>0, Zenon
     DEF IndInv, UpType, QueueType, UpGenuine, QueueGenuine, Genuine,
              Numbered
<1>. QED  BY <1>1, <1>2, <1>3, <1>6, <1>7, <1>8, <1>9, Zenon DEF IndInv

(* The invariant holds in every behaviour, whatever the network does.      *)
THEOREM Invariance == Spec => []IndInv
<1>1. Init => IndInv
  BY InitInv, Zenon
<1>2. IndInv /\ [Next]_vars => IndInv'
  <2>. SUFFICES ASSUME IndInv, [Next]_vars  PROVE IndInv'
    BY Zenon
  <2>1. ASSUME NEW dir \in Dirs, ClientTick(dir)  PROVE IndInv'
    BY <2>1, ClientTickStep, Zenon
  <2>2. ASSUME NEW s \in down, OnSnapshot(s)  PROVE IndInv'
    BY <2>2, OnSnapshotStep, Zenon
  <2>3. ASSUME (\E d \in up : OnPlayerInput(d)) \/ Push  PROVE IndInv'
    BY <2>3, NetworkStep, Zenon
  <2>4. CASE DrainInput
    BY <2>4, DrainInputStep, Zenon
  <2>5. ASSUME NEW hit \in BOOLEAN, NEW back \in BOOLEAN, Tick(hit, back)
        PROVE  IndInv'
    BY <2>5, TickStep, Zenon
  <2>6. CASE UNCHANGED vars
    <3>1. UNCHANGED <<clientVars, up, down, pushing, inbound, simVars>>
      BY <2>6, Zenon DEF vars
    <3>2. ClientType' /\ HistoryTrue' /\ DownType' /\ UpType' /\ QueueType'
      BY <3>1, Zenon DEF IndInv, ClientType, HistoryTrue, Contiguous, Names,
                  DownType, UpType, QueueType, clientVars
    <3>3. FlagType'
      BY <3>1, Zenon DEF IndInv, FlagType, clientVars, simVars
    <3>4. UpGenuine' /\ QueueGenuine' /\ RingGenuine'
      BY <3>1, ZenonT(30) DEF IndInv, UpGenuine, QueueGenuine, RingGenuine, Genuine,
                  Numbered, clientVars, simVars
    <3>5. seq' \in Nat /\ seq' >= seq
      BY <3>1, InputsAssumption DEF IndInv, ClientType, clientVars
    <3>6. SimType' /\ RingAscends' /\ Life'
      BY <3>1, <3>5, SimUnchanged, Zenon
    <3>. QED  BY <3>2, <3>3, <3>4, <3>6, Zenon DEF IndInv
  <2>. QED  BY <2>1, <2>2, <2>3, <2>4, <2>5, <2>6, Zenon DEF Next
<1>. QED  BY <1>1, <1>2, PTL DEF Spec

(* The types hold: in particular the history and the ring never outgrow    *)
(* their buffers, every packet carries at least one input and at most      *)
(* kInputRedundancy, and what is predicted stays between the walls.        *)
THEOREM TypeCorrect == Spec => []TypeOK
<1>1. IndInv => TypeOK
  <2>. SUFFICES ASSUME IndInv  PROVE TypeOK
    BY Zenon
  <2>1. /\ seq \in 0 .. MaxSeq
        /\ history \in Seq([seq : 1 .. MaxSeq, input : Dirs])
        /\ Len(history) <= HistorySize
        /\ local \in 0 .. Width
        /\ issued \in Seq(Dirs) /\ Len(issued) = seq
    BY Zenon DEF IndInv, ClientType, Entry
  <2>2. selfAlive \in BOOLEAN /\ alive \in BOOLEAN
    BY Zenon DEF IndInv, FlagType
  <2>3. /\ diedAt \in 0 .. MaxSeq /\ lived \in 0 .. RingSize
    <3>1. newest \in 0 .. MaxSeq /\ diedAt \in 0 .. newest /\ lived \in Nat
      BY Zenon DEF IndInv, SimType, Life
    <3>2. diedAt \in 0 .. MaxSeq /\ diedAt \in Int
      BY <3>1, InputsAssumption
    <3>3. Cardinality(Leftover(ring, diedAt)) \in Nat
      <4>1. Cardinality(Leftover(ring, diedAt)) \in 0 .. Len(ring)
        BY <3>2, LeftoverCount, Zenon DEF IndInv, SimType, RingAscends
      <4>. QED  BY <4>1
    <3>4. lived <= RingSize
      BY <3>1, <3>3, InputsAssumption DEF IndInv, Life
    <3>. QED  BY <3>1, <3>2, <3>4, InputsAssumption
  <2>. QED  BY <2>1, <2>2, <2>3, Zenon
            DEF IndInv, DownType, UpType, QueueType, SimType, TypeOK
<1>. QED  BY <1>1, Invariance, PTL

(* No input is applied twice, out of order or before it was issued,        *)
(* however the network repeats, delays and reorders datagrams.             *)
THEOREM RingSafe == Spec => []RingOrdered
<1>1. IndInv => RingOrdered
  <2>. SUFFICES ASSUME IndInv  PROVE RingOrdered
    OBVIOUS
  <2>1. DOMAIN ring = 1 .. Len(ring)
    BY LenProperties, Zenon DEF IndInv, SimType
  <2>. QED  BY <2>1, Zenon DEF IndInv, RingAscends, Ascending, RingOrdered
<1>. QED  BY <1>1, Invariance, PTL

(* A number means one input: packed by position and numbered back from     *)
(* base_seq, each input arrives under the number it was issued with.       *)
THEOREM NamesSafe == Spec => []SeqNamesInput
<1>1. IndInv => SeqNamesInput
  <2>. SUFFICES ASSUME IndInv  PROVE SeqNamesInput
    OBVIOUS
  <2>1. DOMAIN ring = 1 .. Len(ring)
    BY LenProperties DEF IndInv, SimType
  <2>2. \A k \in 1 .. Len(ring) : ring[k].seq > 0
    <3>1. ack \in Nat /\ \A k \in 1 .. Len(ring) : ring[k].seq \in Int
      BY CmdNumbers, InputsAssumption DEF IndInv, SimType
    <3>. QED  BY <3>1 DEF IndInv, RingAscends
  <2>3. \A k \in 1 .. Len(ring) : ring[k].input = issued[ring[k].seq]
    BY <2>2, Zenon DEF IndInv, RingGenuine, Genuine
  <2>4. \A d \in up : \A k \in DOMAIN d.inputs :
          Numbered(d)[k].seq > 0 =>
            Numbered(d)[k].input = issued[Numbered(d)[k].seq]
    BY Zenon DEF IndInv, UpGenuine, Genuine
  <2>. QED  BY <2>1, <2>3, <2>4, Zenon DEF SeqNamesInput
<1>. QED  BY <1>1, Invariance, PTL

(* The history ends with the last input and misses none before it, however *)
(* acks trim it and new inputs push out the oldest.                        *)
THEOREM HistorySafe == Spec => []HistoryContiguous
<1>1. IndInv => HistoryContiguous
  <2>. SUFFICES ASSUME IndInv  PROVE HistoryContiguous
    OBVIOUS
  <2>1. DOMAIN history = 1 .. Len(history)
    BY LenProperties, Zenon DEF IndInv, ClientType
  <2>. QED  BY <2>1, Zenon
               DEF IndInv, HistoryTrue, Contiguous, HistoryContiguous
<1>. QED  BY <1>1, Invariance, PTL

(* The inputs of an old life are used up in fewer ticks of the new one     *)
(* than the ring has entries, for every size of the ring.                  *)
THEOREM DrainSafe == Spec => []OldLifeDrains
<1>1. IndInv => OldLifeDrains
  BY Zenon DEF IndInv, Life, OldLifeDrains
<1>. QED  BY <1>1, Invariance, PTL
=============================================================================
