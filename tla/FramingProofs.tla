---------------------------- MODULE FramingProofs ----------------------------
(***************************************************************************)
(* The frames come out of the stream as they went in: for any messages and *)
(* wherever the stream is cut.                                             *)
(***************************************************************************)
EXTENDS Framing, SequenceTheorems, TLAPS

Message == [type : Nat, body : Seq(Nat)]

(* What send_frame_generic writes and where recv_framed looks for it.      *)
LEMMA FrameFact ==
  ASSUME NEW m \in Message
  PROVE  /\ Frame(m) \in Seq(Nat) /\ Len(Frame(m)) = 3 + Len(m.body)
         /\ Frame(m)[1] * 256 + Frame(m)[2] = Len(m.body)
         /\ Frame(m)[3] = m.type
         /\ \A j \in 1 .. Len(m.body) : Frame(m)[3 + j] = m.body[j]
<1>. DEFINE L == Len(m.body)
            h == <<L \div 256, L % 256, m.type>>
<1>1. m.body \in Seq(Nat) /\ m.type \in Nat
  BY Zenon DEF Message
<1>2. L \in Nat
  BY <1>1, LenProperties, Zenon
<1>3. Frame(m) = h \o m.body
  BY Zenon DEF Frame
<1>. HIDE DEF L
<1>4. L \div 256 \in Nat /\ L % 256 \in Nat /\ (L \div 256) * 256 + (L % 256) = L
  BY <1>2
<1>5. h \in Seq(Nat) /\ Len(h) = 3
  BY <1>1, <1>4
<1>6. h[1] = L \div 256 /\ h[2] = L % 256 /\ h[3] = m.type
  BY Zenon
<1>. HIDE DEF h
<1>. DEFINE f == h \o m.body
<1>7. /\ f \in Seq(Nat) /\ Len(f) = 3 + L
      /\ \A j \in 1 .. 3 + L : f[j] = IF j <= 3 THEN h[j] ELSE m.body[j - 3]
  <2>1. /\ f \in Seq(Nat) /\ Len(f) = Len(h) + Len(m.body)
        /\ \A j \in 1 .. Len(h) + Len(m.body) :
             f[j] = IF j <= Len(h) THEN h[j] ELSE m.body[j - Len(h)]
    BY <1>1, <1>5, ConcatProperties, Zenon
  <2>. QED  BY <1>5, <2>1, Zenon DEF L
<1>. HIDE DEF f
<1>8. /\ f[1] = h[1] /\ f[2] = h[2] /\ f[3] = h[3]
      /\ \A j \in 1 .. L : f[3 + j] = m.body[j]
  BY <1>2, <1>7
<1>9. f[1] * 256 + f[2] = L
  BY <1>4, <1>6, <1>8
<1>10. Frame(m) = f
  BY <1>3, Zenon DEF f
<1>. QED  BY <1>6, <1>7, <1>8, <1>9, <1>10, Zenon DEF L

(* The bytes q are the ones of b after the first k.                        *)
Holds(q, b, k) ==
  /\ k + Len(q) <= Len(b)
  /\ \A j \in 1 .. Len(q) : q[j] = b[k + j]

(* b is the stream of the messages ms, with the ends of their frames at c. *)
Cuts(b, ms, c) ==
  /\ b \in Seq(Nat)
  /\ c \in [0 .. Len(ms) -> 0 .. Len(b)]
  /\ c[0] = 0 /\ c[Len(ms)] = Len(b)
  /\ \A i \in 1 .. Len(ms) :
       /\ c[i] = c[i - 1] + Len(Frame(ms[i]))
       /\ \A j \in 1 .. Len(Frame(ms[i])) : b[c[i - 1] + j] = Frame(ms[i])[j]

(* The empty stream.                                                       *)
LEMMA CutsEmpty == Cuts(<<>>, <<>>, [i \in 0 .. 0 |-> 0])
BY DEF Cuts

(* Writing a frame behind the others.                                      *)
LEMMA CutsAppend ==
  ASSUME NEW ms \in Seq(Message), NEW b, NEW c, Cuts(b, ms, c),
         NEW m \in Message
  PROVE  \E d : /\ Cuts(b \o Frame(m), Append(ms, m), d)
                /\ \A i \in 0 .. Len(ms) : d[i] = c[i]
<1>. DEFINE L == Len(ms)
            B == Len(b)
            f == Frame(m)
            F == Len(f)
            nb == b \o f
            ns == Append(ms, m)
            d == [i \in 0 .. L + 1 |-> IF i <= L THEN c[i] ELSE B + F]
<1>1. /\ b \in Seq(Nat) /\ c \in [0 .. L -> 0 .. B]
      /\ c[0] = 0 /\ c[L] = B
      /\ \A i \in 1 .. L : c[i] = c[i - 1] + Len(Frame(ms[i]))
      /\ \A i \in 1 .. L : \A j \in 1 .. Len(Frame(ms[i])) :
           b[c[i - 1] + j] = Frame(ms[i])[j]
  BY Zenon DEF Cuts
<1>2. f \in Seq(Nat) /\ F \in Nat /\ B \in Nat /\ L \in Nat
  BY <1>1, FrameFact, LenProperties
<1>3. /\ nb \in Seq(Nat) /\ Len(nb) = B + F
      /\ \A j \in 1 .. B + F : nb[j] = IF j <= B THEN b[j] ELSE f[j - B]
  BY <1>1, <1>2, ConcatProperties
<1>4. /\ ns \in Seq(Message) /\ Len(ns) = L + 1 /\ ns[L + 1] = m
      /\ \A i \in 1 .. L : ns[i] = ms[i]
  BY AppendProperties
<1>5. \A i \in 1 .. L : Len(Frame(ms[i])) \in Nat
  <2>1. \A i \in 1 .. L : ms[i] \in Message
    BY ElementOfSeq, Zenon
  <2>. QED  BY <2>1, FrameFact, LenProperties, Zenon
<1>. HIDE DEF L, B, f, F, nb, ns
<1>6. d \in [0 .. L + 1 -> 0 .. B + F] /\ d[0] = 0 /\ d[L + 1] = B + F
  BY <1>1, <1>2
<1>7. \A i \in 0 .. L : d[i] = c[i]
  BY <1>2
<1>. HIDE DEF d
<1>8. \A i \in 1 .. L : i \in 0 .. L /\ i - 1 \in 0 .. L
  BY <1>2
<1>9. ASSUME NEW i \in 1 .. L + 1
      PROVE  /\ d[i] = d[i - 1] + Len(Frame(ns[i]))
             /\ \A j \in 1 .. Len(Frame(ns[i])) :
                  nb[d[i - 1] + j] = Frame(ns[i])[j]
  <2>1. CASE i \in 1 .. L
    <3>1. ns[i] = ms[i] /\ d[i] = c[i] /\ d[i - 1] = c[i - 1]
      BY <1>4, <1>7, <1>8, <2>1, Zenon
    <3>2. c[i] = c[i - 1] + Len(Frame(ms[i]))
      BY <1>1, <2>1, Zenon
    <3>3. c[i] \in 0 .. B /\ c[i - 1] \in 0 .. B
      BY <1>1, <1>8, <2>1, Zenon
    <3>. DEFINE n == Len(Frame(ms[i]))
    <3>4. n \in Nat /\ c[i - 1] + n <= B
      BY <1>2, <1>5, <2>1, <3>2, <3>3
    <3>. HIDE DEF n
    <3>5. \A j \in 1 .. n : /\ c[i - 1] + j \in 1 .. B + F
                            /\ c[i - 1] + j <= B
      BY <1>2, <3>3, <3>4
    <3>6. \A j \in 1 .. n : nb[c[i - 1] + j] = b[c[i - 1] + j]
      BY <1>3, <3>5, Zenon
    <3>7. \A j \in 1 .. n : b[c[i - 1] + j] = Frame(ms[i])[j]
      BY <1>1, <2>1, Zenon DEF n
    <3>. QED  BY <3>1, <3>2, <3>6, <3>7, Zenon DEF n
  <2>2. CASE i = L + 1
    <3>1. Frame(ns[i]) = f /\ d[i] = B + F /\ d[i - 1] = B
      BY <1>1, <1>2, <1>4, <1>6, <1>7, <2>2 DEF f
    <3>2. \A j \in 1 .. F : /\ B + j \in 1 .. B + F /\ ~(B + j <= B)
                            /\ (B + j) - B = j
      BY <1>2
    <3>3. \A j \in 1 .. F : nb[B + j] = f[j]
      BY <1>3, <3>2, Zenon
    <3>. QED  BY <3>1, <3>3, Zenon DEF F
  <2>. QED  BY <1>2, <2>1, <2>2
<1>10. Cuts(nb, ns, d)
  BY <1>3, <1>4, <1>6, <1>9, Zenon DEF Cuts
<1>. QED  BY <1>7, <1>10, Zenon DEF nb, ns, f, L

(* The bytes of a buffer after the first a and up to z.                    *)
LEMMA Slice ==
  ASSUME NEW p \in Seq(Nat), NEW a \in Nat, NEW z \in Nat, a <= z,
         z <= Len(p)
  PROVE  /\ SubSeq(p, a + 1, z) \in Seq(Nat)
         /\ Len(SubSeq(p, a + 1, z)) = z - a
         /\ \A j \in 1 .. z - a : SubSeq(p, a + 1, z)[j] = p[a + j]
<1>. DEFINE s == SubSeq(p, a + 1, z)
<1>1. Len(p) \in Nat
  BY LenProperties, Zenon
<1>2. a + 1 \in 1 .. Len(p) + 1 /\ z \in (a + 1) - 1 .. Len(p)
  BY <1>1
<1>3. /\ s \in Seq(Nat) /\ Len(s) = z - (a + 1) + 1
      /\ \A j \in 1 .. z - (a + 1) + 1 : s[j] = p[(a + 1) + j - 1]
  BY <1>2, SubSeqProperties
<1>. HIDE DEF s
<1>4. z - (a + 1) + 1 = z - a /\ \A j \in 1 .. z - a : (a + 1) + j - 1 = a + j
  OBVIOUS
<1>5. Len(s) = z - a /\ \A j \in 1 .. z - a : s[j] = p[a + j]
  BY <1>3, <1>4, Zenon
<1>. QED  BY <1>3, <1>5, Zenon DEF s

(* What recv_framed finds at the end of the nth frame: nothing, unless     *)
(* there is a next one; then that one, once all of it has arrived.         *)
LEMMA NextFrame ==
  ASSUME NEW ms \in Seq(Message), NEW b, NEW c, Cuts(b, ms, c),
         NEW n \in 0 .. Len(ms), NEW p \in Seq(Nat), Holds(p, b, c[n]),
         HasFrame(p)
  PROVE  /\ n < Len(ms)
         /\ FirstFrame(p) = ms[n + 1]
         /\ Header + PayloadLen(p) \in 3 .. Len(p)
         /\ c[n + 1] = c[n] + (Header + PayloadLen(p))
<1>. DEFINE L == Len(ms)
            B == Len(b)
            P == Len(p)
            k == c[n]
<1>1. /\ b \in Seq(Nat) /\ c \in [0 .. L -> 0 .. B] /\ c[L] = B
      /\ \A i \in 1 .. L : c[i] = c[i - 1] + Len(Frame(ms[i]))
      /\ \A i \in 1 .. L : \A j \in 1 .. Len(Frame(ms[i])) :
           b[c[i - 1] + j] = Frame(ms[i])[j]
  BY Zenon DEF Cuts
<1>2. B \in Nat /\ P \in Nat /\ L \in Nat /\ k \in 0 .. B
  BY <1>1, LenProperties, Zenon
<1>3. k + P <= B /\ \A j \in 1 .. P : p[j] = b[k + j]
  BY Zenon DEF Holds
<1>4. P >= 3 /\ P >= 3 + PayloadLen(p)
  BY Zenon DEF HasFrame, Header
<1>. HIDE DEF L, B, P
<1>5. n # L
  BY <1>1, <1>2, <1>3, <1>4
<1>6. n + 1 \in 1 .. L /\ (n + 1) - 1 = n
  BY <1>2, <1>5 DEF L
<1>. DEFINE m == ms[n + 1]
            f == Frame(m)
            M == Len(m.body)
<1>7. m \in Message
  BY <1>6, ElementOfSeq, Zenon DEF L
<1>. HIDE DEF m
<1>8. /\ Len(f) = 3 + M /\ f[1] * 256 + f[2] = M /\ f[3] = m.type
      /\ \A j \in 1 .. M : f[3 + j] = m.body[j]
  BY <1>7, FrameFact, Zenon
<1>9. m.body \in Seq(Nat) /\ M \in Nat
      /\ m = [type |-> m.type, body |-> m.body]
  BY <1>7, LenProperties, Zenon DEF Message
<1>10. c[n + 1] = k + (3 + M) /\ \A j \in 1 .. 3 + M : b[k + j] = f[j]
  <2>1. f = Frame(ms[n + 1])
    BY Zenon DEF m
  <2>. HIDE DEF f, M
  <2>2. c[n + 1] = c[(n + 1) - 1] + Len(f)
    BY <1>1, <1>6, <2>1, Zenon
  <2>3. \A j \in 1 .. Len(f) : b[c[(n + 1) - 1] + j] = f[j]
    BY <1>1, <1>6, <2>1, Zenon
  <2>. QED  BY <1>6, <1>8, <2>2, <2>3
<1>. HIDE DEF f, M, k
<1>10a. \A j \in 1 .. P : j \in 1 .. 3 + M => p[j] = f[j]
  BY <1>3, <1>10, Zenon
<1>11. p[1] = f[1] /\ p[2] = f[2] /\ p[3] = f[3]
  <2>1. {1, 2, 3} \subseteq 1 .. P /\ {1, 2, 3} \subseteq 1 .. 3 + M
    BY <1>2, <1>4, <1>9
  <2>. QED  BY <1>10a, <2>1, Zenon
<1>12. PayloadLen(p) = M
  BY <1>8, <1>11, Zenon DEF PayloadLen
<1>13. \A j \in 1 .. M : p[3 + j] = m.body[j]
  <2>1. \A j \in 1 .. M : 3 + j \in 1 .. P /\ 3 + j \in 1 .. 3 + M
    BY <1>2, <1>4, <1>9, <1>12
  <2>. QED  BY <1>8, <1>10a, <2>1
<1>14. SubSeq(p, 4, 3 + M) = m.body
  <2>. DEFINE s == SubSeq(p, 4, 3 + M)
  <2>1. /\ s \in Seq(Nat) /\ Len(s) = M
        /\ \A j \in 1 .. M : s[j] = p[3 + j]
    <3>1. 3 + M \in Nat /\ 3 <= 3 + M /\ (3 + M) - 3 = M
      BY <1>9
    <3>2. 3 + M <= P
      BY <1>4, <1>12, Zenon
    <3>3. /\ SubSeq(p, 3 + 1, 3 + M) \in Seq(Nat)
          /\ Len(SubSeq(p, 3 + 1, 3 + M)) = (3 + M) - 3
          /\ \A j \in 1 .. (3 + M) - 3 :
               SubSeq(p, 3 + 1, 3 + M)[j] = p[3 + j]
      <4>1. \A a, z \in Nat : a <= z /\ z <= P =>
              /\ SubSeq(p, a + 1, z) \in Seq(Nat)
              /\ Len(SubSeq(p, a + 1, z)) = z - a
              /\ \A j \in 1 .. z - a : SubSeq(p, a + 1, z)[j] = p[a + j]
        BY Slice, Zenon DEF P
      <4>. QED  BY <3>1, <3>2, <4>1, Zenon
    <3>4. SubSeq(p, 3 + 1, 3 + M) = s
      OBVIOUS
    <3>. HIDE DEF s
    <3>. QED  BY <3>1, <3>3, <3>4, Zenon
  <2>. HIDE DEF s
  <2>2. \A j \in 1 .. M : s[j] = m.body[j]
    BY <1>13, <2>1, Zenon
  <2>3. s = m.body
    BY <1>9, <2>1, <2>2, SeqEqual, Zenon DEF M
  <2>. QED  BY <2>3, Zenon DEF s
<1>15. FirstFrame(p) = m
  BY <1>8, <1>9, <1>11, <1>12, <1>14 DEF FirstFrame, Header
<1>16. n < L
  BY <1>2, <1>5 DEF L
<1>17. Header + PayloadLen(p) \in 3 .. P
  BY <1>2, <1>4, <1>9, <1>12 DEF Header
<1>. QED  BY <1>10, <1>12, <1>15, <1>16, <1>17, Zenon DEF L, P, m, k, Header

(* What was read of a stream stays at its place when more is read.         *)
LEMMA HoldsPrefix ==
  ASSUME NEW p \in Seq(Nat), NEW w \in Seq(Nat), NEW b \in Seq(Nat),
         NEW k \in Nat, Holds(p \o w, b, k)
  PROVE  Holds(p, b, k)
<1>. DEFINE q == p \o w
<1>1. /\ Len(q) = Len(p) + Len(w)
      /\ \A j \in 1 .. Len(p) + Len(w) :
           q[j] = IF j <= Len(p) THEN p[j] ELSE w[j - Len(p)]
  BY ConcatProperties, Zenon
<1>2. k + Len(q) <= Len(b) /\ \A j \in 1 .. Len(q) : q[j] = b[k + j]
  BY Zenon DEF Holds
<1>. HIDE DEF q
<1>3. Len(p) \in Nat /\ Len(w) \in Nat /\ Len(b) \in Nat
  BY LenProperties, Zenon
<1>4. \A j \in 1 .. Len(p) : /\ j \in 1 .. Len(p) + Len(w) /\ j <= Len(p)
                             /\ j \in 1 .. Len(q)
  BY <1>1, <1>3
<1>5. \A j \in 1 .. Len(p) : p[j] = b[k + j]
  BY <1>1, <1>2, <1>4, Zenon
<1>6. k + Len(p) <= Len(b)
  BY <1>1, <1>2, <1>3
<1>. QED  BY <1>5, <1>6, Zenon DEF Holds

(* The bytes after the first n.                                            *)
Erased(p, n) == SubSeq(p, n + 1, Len(p))

(* Erasing the first n bytes of a buffer moves it on by n.                 *)
LEMMA HoldsAfter ==
  ASSUME NEW p \in Seq(Nat), NEW w \in Seq(Nat), NEW b \in Seq(Nat),
         NEW k \in Nat, Holds(p \o w, b, k), NEW n \in 0 .. Len(p)
  PROVE  /\ Erased(p, n) \in Seq(Nat)
         /\ Holds(Erased(p, n) \o w, b, k + n)
         /\ k + n + Len(Erased(p, n) \o w) = k + Len(p \o w)
<1>. DEFINE q == p \o w
            P == Len(p)
            s == SubSeq(p, n + 1, P)
            t == s \o w
<1>0. P \in Nat /\ Len(w) \in Nat /\ Len(b) \in Nat /\ n \in Nat /\ n <= P
  BY LenProperties
<1>1. /\ Len(q) = P + Len(w)
      /\ \A j \in 1 .. P + Len(w) : q[j] = IF j <= P THEN p[j] ELSE w[j - P]
  BY ConcatProperties, Zenon
<1>2. k + Len(q) <= Len(b) /\ \A j \in 1 .. Len(q) : q[j] = b[k + j]
  BY Zenon DEF Holds
<1>3. /\ s \in Seq(Nat) /\ Len(s) = P - n
      /\ \A j \in 1 .. P - n : s[j] = p[n + j]
  BY <1>0, Slice
<1>4. /\ t \in Seq(Nat) /\ Len(t) = Len(s) + Len(w)
      /\ \A j \in 1 .. Len(s) + Len(w) :
           t[j] = IF j <= Len(s) THEN s[j] ELSE w[j - Len(s)]
  BY <1>3, ConcatProperties, Zenon
<1>. HIDE DEF q, s, t, P
<1>5. Len(t) = Len(q) - n /\ Len(t) \in Nat
  BY <1>0, <1>1, <1>3, <1>4
<1>6. \A j \in 1 .. Len(t) : t[j] = q[n + j]
  <2>. SUFFICES ASSUME NEW j \in 1 .. Len(t)  PROVE t[j] = q[n + j]
    BY Zenon
  <2>0. j \in Nat /\ j >= 1 /\ j <= Len(q) - n
    BY <1>5
  <2>1. n + j \in 1 .. P + Len(w) /\ j \in 1 .. Len(s) + Len(w)
    BY <1>0, <1>1, <1>3, <2>0
  <2>2. CASE j <= P - n
    <3>1. j \in 1 .. P - n /\ n + j <= P
      BY <1>0, <1>5, <2>2
    <3>. QED  BY <1>1, <1>3, <1>4, <2>1, <2>2, <3>1, Zenon
  <2>3. CASE ~(j <= P - n)
    <3>1. ~(n + j <= P) /\ (n + j) - P = j - (P - n)
      BY <1>0, <1>5, <2>3
    <3>2. t[j] = w[j - (P - n)]
      BY <1>3, <1>4, <2>1, <2>3, Zenon
    <3>3. q[n + j] = w[(n + j) - P]
      BY <1>1, <2>1, <3>1, Zenon
    <3>. QED  BY <3>1, <3>2, <3>3, Zenon
  <2>. QED  BY <2>2, <2>3, Zenon
<1>7. \A j \in 1 .. Len(t) : t[j] = b[(k + n) + j]
  <2>1. \A j \in 1 .. Len(t) : /\ n + j \in 1 .. Len(q)
                               /\ k + (n + j) = (k + n) + j
    BY <1>0, <1>5
  <2>. QED  BY <1>2, <1>6, <2>1, Zenon
<1>8. (k + n) + Len(t) = k + Len(q) /\ (k + n) + Len(t) <= Len(b)
  BY <1>0, <1>1, <1>2, <1>5
<1>. QED  BY <1>3, <1>7, <1>8, Zenon DEF Holds, t, s, q, P, Erased

(* A frame written behind everything that is under way.                    *)
LEMMA HoldsAppend ==
  ASSUME NEW q \in Seq(Nat), NEW f \in Seq(Nat), NEW b \in Seq(Nat),
         NEW k \in Nat, Holds(q, b, k), k + Len(q) = Len(b)
  PROVE  /\ Holds(q \o f, b \o f, k)
         /\ k + Len(q \o f) = Len(b \o f)
<1>. DEFINE qf == q \o f
            bf == b \o f
            Q == Len(q)
            F == Len(f)
            B == Len(b)
            QF == Len(qf)
            BF == Len(bf)
<1>0. Q \in Nat /\ F \in Nat /\ B \in Nat /\ k + Q = B
  BY LenProperties, Zenon
<1>1. /\ QF = Q + F
      /\ \A j \in 1 .. Q + F :
           qf[j] = IF j <= Q THEN q[j] ELSE f[j - Q]
  BY ConcatProperties
<1>2. /\ BF = B + F
      /\ \A j \in 1 .. B + F :
           bf[j] = IF j <= B THEN b[j] ELSE f[j - B]
  BY ConcatProperties
<1>3. \A j \in 1 .. Q : q[j] = b[k + j]
  BY Zenon DEF Holds
<1>. HIDE DEF qf, bf, Q, F, B, QF, BF
<1>4. k + QF = BF
  BY <1>0, <1>1, <1>2
<1>5. \A j \in 1 .. QF : qf[j] = bf[k + j]
  <2>. SUFFICES ASSUME NEW j \in 1 .. Q + F
                PROVE  qf[j] = bf[k + j]
    BY <1>1, Zenon
  <2>1. k + j \in 1 .. B + F
    BY <1>0
  <2>2. CASE j <= Q
    <3>1. j \in 1 .. Q /\ k + j <= B
      BY <1>0, <2>2
    <3>. QED  BY <1>1, <1>2, <1>3, <2>1, <2>2, <3>1, Zenon
  <2>3. CASE ~(j <= Q)
    <3>1. ~(k + j <= B) /\ (k + j) - B = j - Q
      BY <1>0, <2>3
    <3>2. qf[j] = f[j - Q]
      BY <1>1, <2>3, Zenon
    <3>3. bf[k + j] = f[(k + j) - B]
      BY <1>2, <2>1, <3>1, Zenon
    <3>. QED  BY <3>1, <3>2, <3>3, Zenon
  <2>. QED  BY <2>2, <2>3, Zenon
<1>6. k + QF <= BF
  BY <1>0, <1>1, <1>4
<1>. QED  BY <1>4, <1>5, <1>6, Zenon DEF Holds, qf, bf, QF, BF

(* Three pieces of a stream one behind the other.                          *)
LEMMA Associative ==
  ASSUME NEW r \in Seq(Nat), NEW s \in Seq(Nat), NEW t \in Seq(Nat)
  PROVE  (r \o s) \o t = r \o (s \o t)
OBVIOUS

(* Reading k bytes takes them from the one end to the other.               *)
LEMMA ReadOn ==
  ASSUME NEW p \in Seq(Nat), NEW w \in Seq(Nat), NEW k \in 0 .. Len(w)
  PROVE  /\ SubSeq(w, 1, k) \in Seq(Nat)
         /\ SubSeq(w, k + 1, Len(w)) \in Seq(Nat)
         /\ p \o SubSeq(w, 1, k) \in Seq(Nat)
         /\ (p \o SubSeq(w, 1, k)) \o SubSeq(w, k + 1, Len(w)) = p \o w
<1>. DEFINE W == Len(w)
            u == SubSeq(w, 1, k)
            v == SubSeq(w, k + 1, W)
<1>0. W \in Nat /\ k \in Nat /\ k <= W /\ 0 \in Nat /\ 0 <= k /\ W <= W
  BY LenProperties
<1>1. /\ u \in Seq(Nat) /\ Len(u) = k /\ \A j \in 1 .. k : u[j] = w[j]
  <2>1. /\ SubSeq(w, 0 + 1, k) \in Seq(Nat)
        /\ Len(SubSeq(w, 0 + 1, k)) = k - 0
        /\ \A j \in 1 .. k - 0 : SubSeq(w, 0 + 1, k)[j] = w[0 + j]
    BY <1>0, Slice, Zenon
  <2>2. SubSeq(w, 0 + 1, k) = u /\ k - 0 = k
    BY <1>0
  <2>. HIDE DEF u
  <2>3. \A j \in 1 .. k : u[j] = w[0 + j] /\ 0 + j = j
    BY <2>1, <2>2
  <2>. QED  BY <2>1, <2>2, <2>3, Zenon
<1>2. /\ v \in Seq(Nat) /\ Len(v) = W - k
      /\ \A j \in 1 .. W - k : v[j] = w[k + j]
  BY <1>0, Slice, Zenon
<1>. HIDE DEF u, v
<1>3. p \o u \in Seq(Nat) /\ (p \o u) \o v = p \o (u \o v)
  <2>1. p \o u \in Seq(Nat)
    BY <1>1, ConcatProperties, Zenon
  <2>2. (p \o u) \o v = p \o (u \o v)
    BY <1>1, <1>2, Associative, Zenon
  <2>. QED  BY <2>1, <2>2, Zenon
<1>4. u \o v = w
  <2>. DEFINE z == u \o v
  <2>1. /\ z \in Seq(Nat) /\ Len(z) = Len(u) + Len(v)
        /\ \A j \in 1 .. Len(u) + Len(v) :
             z[j] = IF j <= Len(u) THEN u[j] ELSE v[j - Len(u)]
    BY <1>1, <1>2, ConcatProperties, Zenon
  <2>. HIDE DEF z
  <2>2. Len(z) = W /\ \A j \in 1 .. W : z[j] = IF j <= k THEN u[j] ELSE v[j - k]
    <3>. HIDE DEF W
    <3>1. k + (W - k) = W
      BY <1>0
    <3>. QED  BY <1>1, <1>2, <2>1, <3>1, Zenon
  <2>3. \A j \in 1 .. W : z[j] = w[j]
    <3>. SUFFICES ASSUME NEW j \in 1 .. W  PROVE z[j] = w[j]
      BY Zenon
    <3>1. CASE j <= k
      BY <1>0, <1>1, <2>2, <3>1
    <3>2. CASE ~(j <= k)
      <4>1. j - k \in 1 .. W - k /\ k + (j - k) = j
        BY <1>0, <3>2
      <4>. QED  BY <1>2, <2>2, <3>2, <4>1, Zenon
    <3>. QED  BY <3>1, <3>2, Zenon
  <2>4. z = w
    BY <2>1, <2>2, <2>3, SeqEqual, Zenon
  <2>. QED  BY <2>4, Zenon DEF z
<1>. QED  BY <1>1, <1>2, <1>3, <1>4, Zenon DEF u, v

(* Bytes that never leave the sender are missing at the end.               *)
LEMMA HoldsCut ==
  ASSUME NEW p \in Seq(Nat), NEW w \in Seq(Nat), NEW b \in Seq(Nat),
         NEW k \in Nat, Holds(p \o w, b, k), NEW n \in 0 .. Len(w)
  PROVE  SubSeq(w, 1, n) \in Seq(Nat) /\ Holds(p \o SubSeq(w, 1, n), b, k)
<1>. DEFINE u == SubSeq(w, 1, n)
            v == SubSeq(w, n + 1, Len(w))
<1>1. /\ u \in Seq(Nat) /\ v \in Seq(Nat) /\ p \o u \in Seq(Nat)
      /\ (p \o u) \o v = p \o w
  BY ReadOn, Zenon
<1>. HIDE DEF u, v
<1>2. Holds((p \o u) \o v, b, k)
  BY <1>1, Zenon
<1>3. Holds(p \o u, b, k)
  BY <1>1, <1>2, HoldsPrefix, Zenon
<1>. QED  BY <1>1, <1>3, Zenon DEF u
=============================================================================
