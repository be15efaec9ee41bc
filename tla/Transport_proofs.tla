-------------------------- MODULE Transport_proofs --------------------------
(***************************************************************************)
(* The transport of one voice, for any sounds, any block and any schedule: *)
(* a block reads inside its sound and its region, a stop is heard in time, *)
(* and nothing clicks.  What a block of any length does is an induction    *)
(* over its samples: the least number principle comes from                 *)
(* WellFoundedInduction (Least, Induction), and what holds from sample to  *)
(* sample is MixedOK of TransportInv.  The calls and the blocks are then   *)
(* steps that keep TransportIInv.                                          *)
(***************************************************************************)
EXTENDS TransportInv, WellFoundedInduction, TLAPS

-----------------------------------------------------------------------------
(* Induction: a set of natural numbers that is not empty has a least one.  *)

Less == {p \in Nat \X Nat : p[1] < p[2]}

LEMMA LessIsWellFounded == IsWellFoundedOn(Less, Nat)
BY Zenon, NatLessThanWellFounded DEF OpToRel, Less

LEMMA Least ==
    ASSUME NEW T, T \subseteq Nat, T # {}
    PROVE  \E x \in T : \A y \in T : x <= y
<1>1. PICK x \in T : \A y \in T : <<y, x>> \notin Less
  BY LessIsWellFounded, WFMin
<1>2. ASSUME NEW y \in T PROVE x <= y
  <2>1. <<y, x>> \in Nat \X Nat
    OBVIOUS
  <2> QED BY <1>1, <2>1 DEF Less
<1> QED BY <1>2

LEMMA Induction ==
    ASSUME NEW n \in Nat, NEW T, 0 \in T, \A k \in 0 .. n - 1 : k \in T => k + 1 \in T
    PROVE  0 .. n \subseteq T
<1> SUFFICES ASSUME NEW j \in 0 .. n, j \notin T PROVE FALSE
  OBVIOUS
<1>1. PICK x \in {i \in 0 .. n : i \notin T} : \A y \in {i \in 0 .. n : i \notin T} : x <= y
  <2>1. {i \in 0 .. n : i \notin T} \subseteq Nat /\ {i \in 0 .. n : i \notin T} # {}
    OBVIOUS
  <2> QED BY <2>1, Least
<1>2. x # 0 /\ x - 1 \in 0 .. n - 1 /\ x = (x - 1) + 1
  BY <1>1
<1>3. x - 1 \in T
  BY <1>1, <1>2
<1> QED BY <1>1, <1>2, <1>3

-----------------------------------------------------------------------------
(* Sizes, and the least and the greatest of a set.                         *)

LEMMA Sizes ==
    /\ Frames \in [Sounds -> Nat \ {0}]
    /\ Block \in Nat \ {0} /\ Ahead \in Nat /\ QueueCap \in Nat /\ Pitch \subseteq 1 .. 4
    /\ Uses \subseteq SUBSET CallNames
BY TransportAssumption

LEMMA MaxOfTwo ==
    ASSUME NEW a \in Int, NEW b \in Int
    PROVE  Max({a, b}) \in {a, b} /\ Max({a, b}) >= a /\ Max({a, b}) >= b
<1>1. \E x \in {a, b} : \A y \in {a, b} : x >= y
  <2>1. CASE a >= b
    BY <2>1
  <2>2. CASE b >= a
    BY <2>2
  <2> QED BY <2>1, <2>2
<1>2. Max({a, b}) \in {a, b} /\ \A y \in {a, b} : Max({a, b}) >= y
  BY <1>1, Zenon DEF Max
<1> QED BY <1>2

LEMMA MinOfTwo ==
    ASSUME NEW a \in Int, NEW b \in Int
    PROVE  Min({a, b}) \in {a, b} /\ Min({a, b}) <= a /\ Min({a, b}) <= b
<1>1. \E x \in {a, b} : \A y \in {a, b} : x <= y
  <2>1. CASE a <= b
    BY <2>1
  <2>2. CASE b <= a
    BY <2>2
  <2> QED BY <2>1, <2>2
<1>2. Min({a, b}) \in {a, b} /\ \A y \in {a, b} : Min({a, b}) <= y
  BY <1>1, Zenon DEF Min
<1> QED BY <1>2

LEMMA MinOf ==
    ASSUME NEW T, T \subseteq Nat, T # {}
    PROVE  Min(T) \in T /\ \A y \in T : Min(T) <= y
<1>1. \E x \in T : \A y \in T : x <= y
  BY Least
<1> QED BY <1>1, Zenon DEF Min

\* A region lies in its sound.
LEMMA RegionIn ==
    ASSUME NEW r \in VoiceRec, r.snd \in Sounds
    PROVE  /\ Frames[r.snd] \in Nat \ {0}
           /\ LoopBeg(r, Frames[r.snd]) \in Nat /\ LoopEnd(r, Frames[r.snd]) \in Nat
           /\ LoopBeg(r, Frames[r.snd]) < LoopEnd(r, Frames[r.snd])
           /\ LoopEnd(r, Frames[r.snd]) <= Frames[r.snd]
<1>1. r.beg \in Nat /\ r.end \in Nat /\ Frames[r.snd] \in Nat \ {0}
  BY Sizes DEF VoiceRec
<1>2. PICK f \in Nat \ {0} : f = Frames[r.snd]
  BY <1>1
<1>3. LoopEnd(r, f) \in Nat \ {0} /\ LoopEnd(r, f) <= f
  BY <1>1, <1>2 DEF LoopEnd
<1>4. LoopBeg(r, f) \in Nat /\ LoopBeg(r, f) < LoopEnd(r, f)
  BY <1>1, <1>3 DEF LoopBeg
<1> QED BY <1>2, <1>3, <1>4

\* A wrap lands in the region.
LEMMA WrappedIn ==
    ASSUME NEW c \in Nat, NEW b \in Nat, NEW e \in Nat, b < e, b <= c
    PROVE  Wrapped(c, b, e) \in b .. e - 1 /\ Wraps(c, b, e) \in Int
<1>1. PICK x \in Nat, L \in Nat \ {0} : x = c - b /\ L = e - b
  OBVIOUS
<1>2. x % L \in 0 .. L - 1 /\ x \div L \in Int
  BY <1>1
<1>3. Wrapped(c, b, e) \in b .. e - 1
  BY <1>1, <1>2 DEF Wrapped
<1>4. Wraps(c, b, e) \in Int
  BY <1>1, <1>2 DEF Wraps
<1> QED BY <1>3, <1>4

-----------------------------------------------------------------------------
(* One block, sample by sample.                                            *)

\* Mixing(r) is what its definition says: there is such a function, built up sample by sample.
LEMMA MixingIs ==
    ASSUME NEW r, Room(r) \in Nat
    PROVE  /\ Mixing(r)[0] = Started(r)
           /\ \A k \in 0 .. Room(r) - 1 : Mixing(r)[k + 1] = Sample(Mixing(r)[k])
<1> DEFINE G(n, g) == g = [k \in 0 .. n |-> IF k = 0 THEN Started(r) ELSE Sample(g[k - 1])]
           T == {n \in Nat : \E g : G(n, g)}
<1>1. PICK n : n = Room(r)
  OBVIOUS
<1>2. 0 \in T
  <2>1. PICK g : g = [k \in 0 .. 0 |-> Started(r)]
    OBVIOUS
  <2>2. G(0, g)
    BY <2>1
  <2> QED BY <2>2
<1>3. ASSUME NEW j \in 0 .. n - 1, j \in T PROVE j + 1 \in T
  <2>1. j \in Nat /\ j + 1 \in Nat
    OBVIOUS
  <2>2. PICK g : G(j, g)
    BY <1>3
  <2>3. PICK h : h = [k \in 0 .. j + 1 |-> IF k = 0 THEN Started(r) ELSE Sample(g[k - 1])]
    OBVIOUS
  <2>4. ASSUME NEW k \in 0 .. j PROVE h[k] = g[k]
    BY <2>1, <2>2, <2>3
  <2>5. ASSUME NEW k \in 0 .. j + 1, k # 0 PROVE h[k] = Sample(h[k - 1])
    <3>1. k - 1 \in 0 .. j
      BY <2>1, <2>5
    <3> QED BY <2>3, <2>4, <2>5, <3>1
  <2>6. G(j + 1, h)
    BY <2>3, <2>5
  <2> QED BY <2>1, <2>6
<1> HIDE DEF T
<1>4. n \in T
  <2>1. n \in Nat
    BY <1>1
  <2>2. 0 .. n \subseteq T
    BY <1>2, <1>3, <2>1, Induction
  <2> QED BY <2>1, <2>2
<1>5. PICK g : G(n, g)
  BY <1>4 DEF T
<1>6. G(n, Mixing(r))
  <2>1. Mixing(r) = CHOOSE m : m = [k \in 0 .. Room(r) |-> IF k = 0 THEN Started(r) ELSE Sample(m[k - 1])]
    BY Zenon DEF Mixing
  <2> QED BY <1>1, <1>5, <2>1, Zenon
<1>7. Mixing(r)[0] = Started(r)
  BY <1>1, <1>6
<1>8. ASSUME NEW k \in 0 .. n - 1 PROVE Mixing(r)[k + 1] = Sample(Mixing(r)[k])
  <2>1. k + 1 \in 0 .. n /\ k + 1 # 0 /\ (k + 1) - 1 = k
    BY <1>1
  <2> QED BY <1>6, <2>1
<1> QED BY <1>1, <1>7, <1>8

\* queue_pop_valid: the first entry that still has its sound.
LEMMA FirstIs ==
    ASSUME NEW q \in Seq(Entry), Valid(q) # {}
    PROVE  First(q).snd \in Sounds /\ First(q).loop \in BOOLEAN /\ AfterFirst(q) \in Seq(Entry)
<1>1. Valid(q) \subseteq Nat /\ Valid(q) \subseteq DOMAIN q
  BY DEF Valid
<1>2. PICK i : i = Min(Valid(q))
  OBVIOUS
<1>3. i \in DOMAIN q /\ q[i].snd # None
  BY <1>1, <1>2, MinOf DEF Valid
<1>4. q[i] \in Entry
  BY <1>3
<1>5. First(q) = q[i] /\ AfterFirst(q) = SubSeq(q, i + 1, Len(q))
  BY <1>1, <1>2, <1>3 DEF First, AfterFirst
<1>6. AfterFirst(q) \in Seq(Entry)
  BY <1>3, <1>5
<1>7. First(q).snd \in Sounds /\ First(q).loop \in BOOLEAN
  BY <1>3, <1>4, <1>5 DEF Entry
<1> QED BY <1>6, <1>7

\* What a sample changes keeps the state of a mixed block one.
LEMMA MixWraps ==
    ASSUME NEW m \in MixRec, NEW c \in Nat, NEW w \in Int
    PROVE  [m EXCEPT !.cur = c, !.looped = w] \in MixRec
BY Zenon DEF MixRec

LEMMA MixMovesOn ==
    ASSUME NEW m \in MixRec, NEW q, q.snd \in Sounds, q.loop \in BOOLEAN, NEW a \in Seq(Entry), NEW e \in Nat
    PROVE  [m EXCEPT !.snd = q.snd, !.loop = q.loop, !.queue = a, !.cur = 0, !.beg = 0, !.end = e] \in MixRec
BY DEF MixRec

LEMMA MixEnds ==
    ASSUME NEW m \in MixRec, NEW a \in Seq(Entry)
    PROVE  [m EXCEPT !.over = TRUE, !.queue = a] \in MixRec
BY DEF MixRec

LEMMA MixHears ==
    ASSUME NEW m \in MixRec, NEW h \in Seq(Played), NEW c \in Nat, NEW f \in Int
    PROVE  [m EXCEPT !.heard = h, !.cur = c, !.far = f] \in MixRec
BY DEF MixRec

LEMMA HeardOneMore ==
    ASSUME NEW m \in MixRec, NEW p \in Played
    PROVE  Append(m.heard, p) \in Seq(Played)
<1>1. PICK h \in Seq(Played) : h = m.heard
  BY DEF MixRec
<1> QED BY <1>1

\* A seam leaves the playhead in front of a region's end, or the voice at the end of its content; a
\* loop goes on in its region, a voice on its way out in its sound.
Placed(m) == m \in MixRec /\ m.beg < m.end /\ m.end <= Frames[m.snd]
LEMMA SeamIs ==
    ASSUME NEW m, Placed(m), NEW s, s = Seam(m)
    PROVE  /\ Placed(s) /\ s.heard = m.heard /\ s.far = m.far /\ s.rate = m.rate /\ s.stopping = m.stopping
           /\ ~s.over => s.cur < s.end
           /\ m.over \/ m.cur < m.end => s = m
           /\ m.loop => /\ s.loop /\ s.snd = m.snd /\ s.beg = m.beg /\ s.end = m.end /\ s.over = m.over
                        /\ s.cur = m.cur \/ s.cur >= m.beg
           /\ m.stopping # 0 => s.snd = m.snd
           /\ s.over => s.snd = m.snd /\ s.cur = m.cur /\ s.end = m.end
<1>1. /\ m \in MixRec /\ m.beg < m.end /\ m.end <= Frames[m.snd] /\ m.cur \in Nat /\ m.beg \in Nat /\ m.end \in Nat
      /\ m.queue \in Seq(Entry) /\ m.looped \in Int /\ m.loop \in BOOLEAN /\ m.over \in BOOLEAN
  BY DEF Placed, MixRec
<1>2. CASE m.over \/ m.cur < m.end
  <2>1. s = m
    BY <1>1, <1>2 DEF Seam
  <2> QED BY <1>1, <1>2, <2>1 DEF Placed
<1>3. CASE ~m.over /\ m.cur >= m.end /\ m.loop
  <2>1. PICK c, w : c = Wrapped(m.cur, m.beg, m.end) /\ w = m.looped + Wraps(m.cur, m.beg, m.end)
    OBVIOUS
  <2>2. c \in m.beg .. m.end - 1 /\ c \in Nat /\ w \in Int
    <3>1. m.beg <= m.cur
      BY <1>1, <1>3
    <3>2. Wrapped(m.cur, m.beg, m.end) \in m.beg .. m.end - 1 /\ Wraps(m.cur, m.beg, m.end) \in Int
      BY <1>1, <3>1, WrappedIn
    <3> QED BY <1>1, <2>1, <3>2
  <2>3. s = [m EXCEPT !.cur = c, !.looped = w]
    BY <1>1, <1>3, <2>1 DEF Seam
  <2>4. s \in MixRec
    <3>2. [m EXCEPT !.cur = c, !.looped = w] \in MixRec
      BY <1>1, <2>2, MixWraps
    <3> QED BY <2>3, <3>2, Zenon
  <2>5. /\ s.heard = m.heard /\ s.far = m.far /\ s.rate = m.rate /\ s.stopping = m.stopping
        /\ s.snd = m.snd /\ s.cur = c /\ s.end = m.end /\ s.beg = m.beg
    BY <1>1, <2>3, Zenon DEF MixRec
  <2>6. s.loop = m.loop /\ s.over = m.over
    BY <1>1, <2>3, Zenon DEF MixRec
  <2> QED BY <1>1, <1>3, <2>2, <2>4, <2>5, <2>6 DEF Placed
<1>4. CASE ~m.over /\ m.cur >= m.end /\ ~m.loop /\ m.stopping = 0 /\ Valid(m.queue) # {}
  <2>1. PICK q, a : q = First(m.queue) /\ a = AfterFirst(m.queue)
    OBVIOUS
  <2>2. q.snd \in Sounds /\ q.loop \in BOOLEAN /\ a \in Seq(Entry)
    BY <1>1, <1>4, <2>1, FirstIs
  <2>3. Frames[q.snd] \in Nat \ {0}
    BY <2>2, Sizes
  <2>4. s = [m EXCEPT !.snd = q.snd, !.loop = q.loop, !.queue = a, !.cur = 0, !.beg = 0, !.end = Frames[q.snd]]
    BY <1>1, <1>4, <2>1 DEF Seam
  <2>5. s \in MixRec
    <3>1. PICK e \in Nat : e = Frames[q.snd]
      BY <2>3
    <3>2. [m EXCEPT !.snd = q.snd, !.loop = q.loop, !.queue = a, !.cur = 0, !.beg = 0, !.end = e] \in MixRec
      BY <1>1, <2>2, <3>1, MixMovesOn
    <3> QED BY <2>4, <3>1, <3>2, Zenon
  <2>6. /\ s.heard = m.heard /\ s.far = m.far /\ s.rate = m.rate /\ s.stopping = m.stopping
        /\ s.snd = q.snd /\ s.cur = 0 /\ s.end = Frames[q.snd] /\ s.beg = 0
    BY <1>1, <2>4, Zenon DEF MixRec
  <2>7. s.over = m.over
    BY <1>1, <2>4, Zenon DEF MixRec
  <2> QED BY <1>1, <1>4, <2>3, <2>5, <2>6, <2>7 DEF Placed
<1>5. CASE ~m.over /\ m.cur >= m.end /\ ~m.loop /\ ~(m.stopping = 0 /\ Valid(m.queue) # {})
  <2>1. PICK a : a = IF m.stopping = 0 THEN <<>> ELSE m.queue
    OBVIOUS
  <2>2. a \in Seq(Entry)
    BY <1>1, <2>1
  <2>3. s = [m EXCEPT !.over = TRUE, !.queue = a]
    BY <1>1, <1>5, <2>1 DEF Seam
  <2>4. s \in MixRec
    <3>2. [m EXCEPT !.over = TRUE, !.queue = a] \in MixRec
      BY <1>1, <2>2, MixEnds
    <3> QED BY <2>3, <3>2, Zenon
  <2>5. /\ s.heard = m.heard /\ s.far = m.far /\ s.rate = m.rate /\ s.stopping = m.stopping
        /\ s.snd = m.snd /\ s.cur = m.cur /\ s.end = m.end /\ s.beg = m.beg
    BY <1>1, <2>3, Zenon DEF MixRec
  <2>6. s.over = TRUE
    BY <1>1, <2>3, Zenon DEF MixRec
  <2> QED BY <1>1, <1>5, <2>4, <2>5, <2>6 DEF Placed
<1> QED BY <1>1, <1>2, <1>3, <1>4, <1>5

\* What a pitched read blends in lies in the sound too.
LEMMA PartnerIn ==
    ASSUME NEW s, Placed(s), s.cur < s.end
    PROVE  Partner(s) \in Int /\ Partner(s) < Frames[s.snd]
<1>1. /\ s.cur \in Nat /\ s.beg \in Nat /\ s.end \in Nat /\ s.beg < s.end /\ s.end <= Frames[s.snd]
      /\ Frames[s.snd] \in Nat \ {0}
  BY Sizes DEF Placed, MixRec
<1>2. CASE s.loop
  BY <1>1, <1>2 DEF Partner
<1>3. CASE ~s.loop
  <2>1. PICK a \in Int, b \in Int : a = s.cur + 1 /\ b = Frames[s.snd] - 1
    BY <1>1
  <2>2. Partner(s) = Min({a, b})
    BY <1>3, <2>1 DEF Partner
  <2>3. Min({a, b}) <= b /\ Min({a, b}) \in {a, b}
    BY MinOfTwo
  <2> QED BY <1>1, <2>1, <2>2, <2>3
<1> QED BY <1>2, <1>3

\* One sample: the seam, then a read unless the content is over.
LEMMA SampleIs ==
    ASSUME NEW m, Placed(m), m.far < 0, NEW s, s = Seam(m)
    PROVE  /\ s.over => Sample(m) = s
           /\ ~s.over => /\ Sample(m) \in MixRec
                         /\ Sample(m).heard = Append(m.heard, [snd |-> s.snd, pos |-> s.cur])
                         /\ Sample(m).cur = s.cur + m.rate /\ Sample(m).far < 0
                         /\ Sample(m).snd = s.snd /\ Sample(m).loop = s.loop /\ Sample(m).rate = m.rate
                         /\ Sample(m).stopping = m.stopping /\ Sample(m).queue = s.queue
                         /\ Sample(m).beg = s.beg /\ Sample(m).end = s.end
                         /\ Sample(m).looped = s.looped /\ Sample(m).over = FALSE
<1>1. /\ Placed(s) /\ s.heard = m.heard /\ s.far = m.far /\ s.rate = m.rate /\ s.stopping = m.stopping
      /\ ~s.over => s.cur < s.end
  BY SeamIs
<1>2. CASE s.over
  BY <1>2 DEF Sample
<1>3. CASE ~s.over
  <2>1. Partner(s) \in Int /\ Partner(s) < Frames[s.snd] /\ Frames[s.snd] \in Nat /\ s.far \in Int
    BY <1>1, <1>3, PartnerIn, Sizes DEF Placed, MixRec
  <2>2. PICK a, f : a = Partner(s) - Frames[s.snd] /\ f = Max({s.far, a})
    OBVIOUS
  <2>3. f \in Int /\ f < 0
    <3>1. a \in Int /\ a < 0 /\ s.far \in Int /\ s.far < 0
      BY <1>1, <2>1, <2>2
    <3>2. Max({s.far, a}) \in {s.far, a}
      BY <3>1, MaxOfTwo
    <3> QED BY <2>2, <3>1, <3>2
  <2>4. PICK p : p = [snd |-> s.snd, pos |-> s.cur]
    OBVIOUS
  <2>5. p \in Played
    BY <1>1, <2>4 DEF Placed, MixRec, Played
  <2>6. PICK h \in Seq(Played) : h = Append(s.heard, p)
    <3>1. s \in MixRec
      BY <1>1 DEF Placed
    <3> QED BY <2>5, <3>1, HeardOneMore
  <2>7. PICK c \in Nat : c = s.cur + s.rate
    <3>1. s.cur \in Nat /\ s.rate \in 1 .. 4
      BY <1>1 DEF Placed, MixRec
    <3> QED BY <3>1
  <2>8. Sample(m) = [s EXCEPT !.heard = h, !.cur = c, !.far = f]
    BY <1>3, <2>2, <2>4, <2>6, <2>7 DEF Sample
  <2>9. s \in MixRec /\ s.over = FALSE
    BY <1>1, <1>3 DEF Placed, MixRec
  <2>10. Sample(m) \in MixRec
    <3>2. [s EXCEPT !.heard = h, !.cur = c, !.far = f] \in MixRec
      BY <2>3, <2>9, MixHears
    <3> QED BY <2>8, <3>2, Zenon
  <2>11. /\ Sample(m).heard = h /\ Sample(m).cur = c /\ Sample(m).far = f /\ Sample(m).snd = s.snd
         /\ Sample(m).rate = s.rate /\ Sample(m).stopping = s.stopping /\ Sample(m).queue = s.queue
         /\ Sample(m).beg = s.beg /\ Sample(m).end = s.end /\ Sample(m).looped = s.looped
    BY <2>8, <2>9, Zenon DEF MixRec
  <2>12. Sample(m).loop = s.loop /\ Sample(m).over = s.over
    BY <2>8, <2>9, Zenon DEF MixRec
  <2> QED BY <1>1, <1>3, <2>3, <2>4, <2>6, <2>7, <2>9, <2>10, <2>11, <2>12
<1> QED BY <1>2, <1>3

\* What Append does to a sequence.
LEMMA OneMore ==
    ASSUME NEW S, NEW h \in Seq(S), NEW p \in S, NEW g, g = Append(h, p)
    PROVE  /\ Len(h) \in Nat /\ DOMAIN h = 1 .. Len(h) /\ g # <<>> /\ Len(g) = Len(h) + 1 /\ DOMAIN g = 1 .. Len(h) + 1
           /\ g[Len(h) + 1] = p /\ \A i \in DOMAIN h : g[i] = h[i]
           /\ h = <<>> <=> Len(h) = 0
<1>1. g = Append(h, p) /\ Len(h) \in Nat
  OBVIOUS
<1>2. g \in Seq(S) /\ Len(g) = Len(h) + 1
  BY <1>1
<1>3. DOMAIN h = 1 .. Len(h) /\ DOMAIN g = 1 .. Len(h) + 1 /\ g # <<>>
  BY <1>1, <1>2
<1>4. g[Len(h) + 1] = p /\ \A i \in DOMAIN h : g[i] = h[i]
  BY <1>1, <1>3
<1>5. h = <<>> <=> Len(h) = 0
  OBVIOUS
<1> QED BY <1>1, <1>2, <1>3, <1>4, <1>5

\* What holds after some samples holds after one more.
LEMMA SampleKeeps ==
    ASSUME NEW r \in VoiceRec, r.snd \in Sounds, NEW m, MixedOK(r, m)
    PROVE  MixedOK(r, Sample(m))
<1> PICK s, n : s = Seam(m) /\ n = Sample(m)
  OBVIOUS
<1> PICK b, e : b = LoopBeg(r, Frames[r.snd]) /\ e = LoopEnd(r, Frames[r.snd])
  OBVIOUS
<1>1. /\ m \in MixRec /\ m.stopping = r.stopping /\ m.rate = r.rate
      /\ Inside(m) /\ RoundAndRound(r, m) /\ StaysOut(r, m) /\ StartsAt(r, m)
  BY DEF MixedOK
<1>2. Placed(m) /\ m.far < 0 /\ m.heard \in Seq(Played) /\ m.cur \in Nat /\ m.end \in Nat
  BY <1>1 DEF Inside, Placed, MixRec
<1>3. b \in Nat /\ e \in Nat /\ b < e /\ r.cursor \in Nat
  BY RegionIn DEF VoiceRec
<1>4. /\ Placed(s) /\ s.heard = m.heard /\ s.far = m.far /\ s.rate = m.rate /\ s.stopping = m.stopping
      /\ ~s.over => s.cur < s.end
      /\ m.over \/ m.cur < m.end => s = m
      /\ m.loop => /\ s.loop /\ s.snd = m.snd /\ s.beg = m.beg /\ s.end = m.end /\ s.over = m.over
                   /\ s.cur = m.cur \/ s.cur >= m.beg
      /\ m.stopping # 0 => s.snd = m.snd
      /\ s.over => s.snd = m.snd /\ s.cur = m.cur /\ s.end = m.end
  BY <1>2, SeamIs
<1>5. CASE s.over
  <2>1. n = s
    BY <1>2, <1>5, SampleIs
  <2>2. s \in MixRec /\ s.beg < s.end /\ s.end <= Frames[s.snd]
    BY <1>4 DEF Placed
  <2>3. Inside(s)
    BY <1>1, <1>4, <2>2 DEF Inside
  <2>4. RoundAndRound(r, s)
    BY <1>1, <1>4, <1>5 DEF RoundAndRound
  <2>5. StaysOut(r, s)
    BY <1>1, <1>4, <1>5 DEF StaysOut
  <2>6. StartsAt(r, s)
    BY <1>1, <1>4, <1>5 DEF StartsAt
  <2>7. s.stopping = r.stopping /\ s.rate = r.rate
    BY <1>1, <1>4
  <2> QED BY <2>1, <2>2, <2>3, <2>4, <2>5, <2>6, <2>7 DEF MixedOK
<1>6. CASE ~s.over
  <2> PICK h, p, l : h = m.heard /\ p = [snd |-> s.snd, pos |-> s.cur] /\ l = Len(m.heard)
    OBVIOUS
  <2>1. /\ n \in MixRec /\ n.heard = Append(h, p)
        /\ n.cur = s.cur + m.rate /\ n.far < 0
        /\ n.snd = s.snd /\ n.loop = s.loop /\ n.rate = m.rate
        /\ n.stopping = m.stopping
        /\ n.beg = s.beg /\ n.end = s.end
    BY <1>2, <1>6, SampleIs
  <2>2. p \in Played /\ s.cur < s.end /\ s.end <= Frames[s.snd] /\ s.beg < s.end /\ s.cur \in Nat /\ s.end \in Nat
    BY <1>4, <1>6 DEF Placed, MixRec, Played
  <2>3. /\ l \in Nat /\ DOMAIN h = 1 .. l /\ n.heard # <<>> /\ Len(n.heard) = l + 1 /\ DOMAIN n.heard = 1 .. l + 1
        /\ n.heard[l + 1] = p /\ \A i \in 1 .. l : n.heard[i] = h[i]
        /\ h = <<>> <=> l = 0
    <3>1. h \in Seq(Played)
      BY <1>2
    <3>2. PICK g : g = Append(h, p)
      OBVIOUS
    <3>3. /\ Len(h) \in Nat /\ DOMAIN h = 1 .. Len(h) /\ g # <<>> /\ Len(g) = Len(h) + 1
          /\ DOMAIN g = 1 .. Len(h) + 1
          /\ g[Len(h) + 1] = p /\ \A i \in DOMAIN h : g[i] = h[i]
          /\ h = <<>> <=> Len(h) = 0
      BY <2>2, <3>1, <3>2, OneMore
    <3>4. n.heard = g
      BY <2>1, <3>2
    <3>5. DOMAIN h = 1 .. l /\ l = Len(h)
      BY <3>3
    <3> QED BY <3>3, <3>4, <3>5
  <2>4. ASSUME NEW i \in DOMAIN n.heard PROVE i \in 1 .. l \/ i = l + 1
    BY <2>3
  <2>5. n.stopping = r.stopping /\ n.rate = r.rate
    BY <1>1, <2>1
  <2>6. p.snd = s.snd /\ p.pos = s.cur
    OBVIOUS
  <2>7. Frames[s.snd] \in Nat
    BY <1>4, Sizes DEF Placed, MixRec
  <2>8. Inside(n)
    <3>1. ASSUME NEW i \in DOMAIN n.heard PROVE n.heard[i].pos < Frames[n.heard[i].snd]
      <4>1. CASE i \in 1 .. l
        BY <1>1, <2>3, <4>1 DEF Inside
      <4>2. CASE i = l + 1
        BY <2>2, <2>3, <2>6, <2>7, <4>2
      <4> QED BY <2>4, <4>1, <4>2
    <3> QED BY <2>1, <2>2, <3>1 DEF Inside
  <2>9. RoundAndRound(r, n)
    <3> SUFFICES ASSUME r.loop PROVE RoundAndRound(r, n)
      BY DEF RoundAndRound
    <3>1. /\ m.loop /\ m.snd = r.snd /\ m.beg = b /\ m.end = e
          /\ h # <<>> => m.cur = h[l].pos + r.rate
          /\ \A i \in 1 .. l : /\ h[i].pos < e
                               /\ i > 1 /\ h[i].pos < b => h[i].pos = h[i - 1].pos + r.rate
      BY <1>1, <2>3 DEF RoundAndRound
    <3>2. s.loop /\ s.snd = r.snd /\ s.beg = b /\ s.end = e /\ (s.cur = m.cur \/ s.cur >= b)
      BY <1>4, <3>1
    <3>3. n.loop /\ n.snd = r.snd /\ n.beg = b /\ n.end = e /\ n.cur = n.heard[Len(n.heard)].pos + r.rate
      BY <1>1, <2>1, <2>3, <2>6, <3>2
    <3>4. ASSUME NEW i \in DOMAIN n.heard PROVE n.heard[i].pos < e
      <4>1. CASE i \in 1 .. l
        BY <2>3, <3>1, <4>1
      <4>2. CASE i = l + 1
        BY <2>2, <2>3, <2>6, <3>2, <4>2
      <4> QED BY <2>4, <4>1, <4>2
    <3>5. ASSUME NEW i \in DOMAIN n.heard, i > 1, n.heard[i].pos < b
          PROVE  n.heard[i].pos = n.heard[i - 1].pos + r.rate
      <4>1. CASE i \in 1 .. l
        <5>1. i - 1 \in 1 .. l
          BY <2>3, <3>5, <4>1
        <5> QED BY <2>3, <3>1, <3>5, <4>1, <5>1
      <4>2. CASE i = l + 1
        <5>1. l \in 1 .. l /\ h # <<>> /\ i - 1 = l
          BY <2>3, <3>5, <4>2
        <5>2. n.heard[i].pos = s.cur /\ s.cur = m.cur
          BY <1>3, <2>2, <2>3, <2>6, <3>2, <3>5, <4>2
        <5> QED BY <2>3, <3>1, <5>1, <5>2
      <4> QED BY <2>4, <4>1, <4>2
    <3> QED BY <3>3, <3>4, <3>5 DEF RoundAndRound
  <2>10. StaysOut(r, n)
    <3> SUFFICES ASSUME r.stopping # 0 PROVE StaysOut(r, n)
      BY DEF StaysOut
    <3>1. m.snd = r.snd /\ \A i \in 1 .. l : h[i].snd = r.snd
      BY <1>1, <2>3 DEF StaysOut
    <3>2. s.snd = r.snd /\ n.snd = r.snd
      BY <1>1, <1>4, <2>1, <3>1
    <3>3. ASSUME NEW i \in DOMAIN n.heard PROVE n.heard[i].snd = r.snd
      BY <2>3, <2>4, <2>6, <3>1, <3>2
    <3> QED BY <3>2, <3>3 DEF StaysOut
  <2>11. StartsAt(r, n)
    <3> SUFFICES ASSUME r.cursor < e PROVE n.heard[1].pos = r.cursor
      BY <2>3 DEF StartsAt
    <3>1. CASE h = <<>>
      <4>1. m.cur = r.cursor /\ m.end = e
        BY <1>1, <3>1 DEF StartsAt
      <4>2. s = m
        BY <1>3, <1>4, <4>1
      <4> QED BY <2>3, <2>6, <3>1, <4>1, <4>2
    <3>2. CASE h # <<>>
      <4>1. h[1].pos = r.cursor /\ 1 \in 1 .. l
        BY <1>1, <2>3, <3>2 DEF StartsAt
      <4> QED BY <2>3, <4>1
    <3> QED BY <3>1, <3>2
  <2> QED BY <2>1, <2>5, <2>8, <2>9, <2>10, <2>11 DEF MixedOK
<1> QED BY <1>5, <1>6

\* Before the first sample.
LEMMA StartedIs ==
    ASSUME NEW r \in VoiceRec, r.snd \in Sounds
    PROVE  MixedOK(r, Started(r))
<1> PICK m : m = Started(r)
  OBVIOUS
<1> PICK b, e : b = LoopBeg(r, Frames[r.snd]) /\ e = LoopEnd(r, Frames[r.snd])
  OBVIOUS
<1>1. b \in Nat /\ e \in Nat /\ b < e /\ e <= Frames[r.snd]
  BY RegionIn
<1>2. /\ r.cursor \in Nat /\ r.loop \in BOOLEAN /\ r.rate \in 1 .. 4 /\ r.stopping \in 0 .. 2 /\ r.queue \in Seq(Entry)
  BY DEF VoiceRec
<1>3. /\ m.snd = r.snd /\ m.cur = r.cursor /\ m.loop = r.loop /\ m.rate = r.rate /\ m.stopping = r.stopping
      /\ m.beg = b /\ m.end = e /\ m.heard = <<>> /\ m.far = -1
  BY DEF Started, Never
<1>4. m \in MixRec
  <2>1. m = [snd |-> r.snd, cur |-> r.cursor, loop |-> r.loop, rate |-> r.rate, stopping |-> r.stopping,
             queue |-> r.queue, beg |-> b, end |-> e, heard |-> <<>>, looped |-> 0, far |-> -1, over |-> FALSE]
    BY Zenon DEF Started, Never
  <2>2. <<>> \in Seq(Played)
    OBVIOUS
  <2> QED BY <1>1, <1>2, <2>1, <2>2 DEF MixRec
<1>5. DOMAIN m.heard = {}
  BY <1>3
<1>6. Inside(m)
  BY <1>1, <1>3, <1>5 DEF Inside
<1>7. RoundAndRound(r, m)
  BY <1>3, <1>5 DEF RoundAndRound
<1>8. StaysOut(r, m)
  BY <1>3, <1>5 DEF StaysOut
<1>9. StartsAt(r, m)
  BY <1>3 DEF StartsAt
<1> QED BY <1>3, <1>4, <1>6, <1>7, <1>8, <1>9 DEF MixedOK

\* A block, then: every number of samples.
LEMMA MixedIs ==
    ASSUME NEW r \in VoiceRec, r.snd \in Sounds, r.wait < Block
    PROVE  MixedOK(r, Mixed(r))
<1> DEFINE T == {k \in Nat : MixedOK(r, Mixing(r)[k])}
<1>1. PICK n \in Nat : n = Room(r)
  BY Sizes DEF Room, VoiceRec
<1>2. Mixing(r)[0] = Started(r) /\ \A k \in 0 .. n - 1 : Mixing(r)[k + 1] = Sample(Mixing(r)[k])
  BY <1>1, MixingIs
<1>3. 0 \in T
  BY <1>2, StartedIs
<1>4. ASSUME NEW k \in 0 .. n - 1, k \in T PROVE k + 1 \in T
  <2>1. MixedOK(r, Sample(Mixing(r)[k]))
    BY <1>4, SampleKeeps
  <2> QED BY <1>2, <2>1
<1>5. n \in T
  <2> HIDE DEF T
  <2>1. 0 .. n \subseteq T
    BY <1>3, <1>4, Induction
  <2> QED BY <2>1
<1> QED BY <1>1, <1>5 DEF Mixed

-----------------------------------------------------------------------------
(* The calls.                                                              *)

LEMMA Nothing == <<>> \in Seq(Entry)
OBVIOUS

LEMMA Unset == Never \in Time
BY DEF Time

\* What a call that only sets parameters leaves alone.
Same(r) == /\ r \in VoiceRec /\ r.active = v.active /\ r.playing = v.playing /\ r.snd = v.snd /\ r.wait = v.wait
           /\ r.stopAt = v.stopAt /\ r.stopping = v.stopping /\ r.gate = v.gate /\ r.level = v.level

LEMMA SilenceIs ==
    /\ Silence \in BlockRec /\ Silence.to = 0 /\ Silence.step = "silent" /\ Silence.ended = FALSE
    /\ \A x \in BOOLEAN : LET c == [Silence EXCEPT !.ended = x] IN
           c \in BlockRec /\ c.to = 0 /\ c.step = "silent" /\ c.ended = x
<1>1. Silence = [step |-> "silent", heard |-> <<>>, far |-> -1, from |-> 0, to |-> 0, looped |-> 0,
                 done |-> FALSE, ended |-> FALSE]
  BY Zenon DEF Silence, Never
<1>2. <<>> \in Seq(Played)
  OBVIOUS
<1>3. Silence \in BlockRec
  BY <1>1, <1>2 DEF BlockRec
<1>4. ASSUME NEW x \in BOOLEAN, NEW c, c = [Silence EXCEPT !.ended = x]
      PROVE  c \in BlockRec /\ c.to = 0 /\ c.step = "silent" /\ c.ended = x
  BY <1>1, <1>3, <1>4 DEF BlockRec
<1> QED BY <1>1, <1>3, <1>4

\* What a call makes of the last block's record.
LEMMA CalledIs ==
    ASSUME mix \in BlockRec
    PROVE  /\ Called \in BlockRec /\ [Called EXCEPT !.ended = TRUE] \in BlockRec
           /\ Called.to = mix.to /\ Called.done = mix.done /\ Called.step = "call"
           /\ [Called EXCEPT !.ended = TRUE].to = mix.to /\ [Called EXCEPT !.ended = TRUE].done = mix.done
           /\ [Called EXCEPT !.ended = TRUE].step = "call"
<1>1. mix.to \in 0 .. 1 /\ mix.done \in BOOLEAN
  BY DEF BlockRec
<1>2. PICK x \in 0 .. 1, y \in BOOLEAN : x = mix.to /\ y = mix.done
  BY <1>1
<1>3. Called = [Silence EXCEPT !.step = "call", !.to = x, !.done = y]
  BY <1>2 DEF Called
<1>4. Called \in BlockRec
  BY <1>3, SilenceIs DEF BlockRec
<1>5. [Called EXCEPT !.ended = TRUE] \in BlockRec
  BY <1>4 DEF BlockRec
<1>6. Called.to = x /\ Called.step = "call" /\ Called.done = y
  BY <1>3, SilenceIs DEF BlockRec
<1>7. PICK c : c = [Called EXCEPT !.ended = TRUE]
  OBVIOUS
<1>8. c.to = Called.to /\ c.done = Called.done /\ c.step = Called.step
  BY <1>4, <1>7 DEF BlockRec
<1> QED BY <1>2, <1>4, <1>5, <1>6, <1>7, <1>8

\* A call that leaves alone what is playing, when it starts and stops, and the gains.
LEMMA LeavesAlone ==
    ASSUME TransportIInv, Same(v'), use' = use, hold' \in BOOLEAN, mix' = Called, due' = due,
           since' = since \/ since' = since \cup {"region"}
    PROVE  TransportIInv'
<1>1. mix' \in BlockRec /\ mix'.to = mix.to /\ mix'.done = mix.done
  BY CalledIs DEF TransportIInv, TypeOK
<1>2. since' \subseteq {"cut", "region"} /\ ("cut" \in since' <=> "cut" \in since)
  BY DEF TransportIInv, TypeOK
<1>3. TypeOK'
  BY <1>1, <1>2 DEF TransportIInv, TypeOK, Same
<1>4. Levels'
  BY <1>1, <1>2 DEF TransportIInv, Levels, Same
<1>5. Deadlines'
  BY DEF TransportIInv, Deadlines, Same
<1> QED BY <1>3, <1>4, <1>5 DEF TransportIInv

LEMMA SeekIs == ASSUME TransportIInv, NEW f \in 0 .. Longest + 1, Seek(f) PROVE TransportIInv'
<1>1. v \in VoiceRec /\ hold \in BOOLEAN
  BY DEF TransportIInv, TypeOK
<1>2. v' = [v EXCEPT !.seek = f] /\ hold' = hold /\ due' = due /\ since' = since /\ mix' = Called /\ use' = use
  BY Zenon DEF Seek, Call
<1>3. f \in Time
  BY DEF Time
<1>4. v' \in VoiceRec
  BY <1>1, <1>2, <1>3 DEF VoiceRec
<1>5. Same(v')
  BY <1>1, <1>2, <1>4 DEF Same, VoiceRec
<1> QED BY <1>1, <1>2, <1>5, LeavesAlone

LEMMA SetRegionIs ==
    ASSUME TransportIInv, NEW b \in 0 .. Longest, NEW e \in 0 .. Longest, SetRegion(b, e) PROVE TransportIInv'
<1>1. v \in VoiceRec /\ hold \in BOOLEAN
  BY DEF TransportIInv, TypeOK
<1> PICK x, y : x = BegIn(v.snd, b) /\ y = EndIn(v.snd, e)
  OBVIOUS
<1>2. /\ v' = [v EXCEPT !.beg = x, !.end = y]
      /\ hold' = hold /\ due' = due /\ since' = since \cup {"region"} /\ mix' = Called /\ use' = use
  BY Zenon DEF SetRegion, Call
<1>3. x \in Nat /\ y \in Nat
  BY DEF BegIn, EndIn
<1>4. v' \in VoiceRec
  BY <1>1, <1>2, <1>3 DEF VoiceRec
<1>5. Same(v')
  BY <1>1, <1>2, <1>4 DEF Same, VoiceRec
<1> QED BY <1>1, <1>2, <1>5, LeavesAlone

LEMMA SetPausedIs == ASSUME TransportIInv, NEW on \in BOOLEAN, SetPaused(on) PROVE TransportIInv'
<1>1. v \in VoiceRec /\ hold \in BOOLEAN
  BY DEF TransportIInv, TypeOK
<1>2. v' = [v EXCEPT !.paused = on] /\ hold' = hold /\ due' = due /\ since' = since /\ mix' = Called /\ use' = use
  BY Zenon DEF SetPaused, Call
<1>3. v' \in VoiceRec
  BY <1>1, <1>2 DEF VoiceRec
<1>4. Same(v')
  BY <1>1, <1>2, <1>3 DEF Same, VoiceRec
<1> QED BY <1>1, <1>2, <1>4, LeavesAlone

LEMMA SetHoldIs == ASSUME TransportIInv, NEW on \in BOOLEAN, SetHold(on) PROVE TransportIInv'
<1>1. v \in VoiceRec
  BY DEF TransportIInv, TypeOK
<1>2. v' = v /\ hold' = on /\ due' = due /\ since' = since /\ mix' = Called /\ use' = use
  BY Zenon DEF SetHold, Call
<1>3. Same(v')
  BY <1>1, <1>2 DEF Same
<1> QED BY <1>2, <1>3, LeavesAlone

LEMMA SetPitchIs == ASSUME TransportIInv, NEW k \in Pitch, SetPitch(k) PROVE TransportIInv'
<1>1. v \in VoiceRec /\ hold \in BOOLEAN /\ k \in 1 .. 4
  BY Sizes DEF TransportIInv, TypeOK
<1>2. v' = [v EXCEPT !.rate = k] /\ hold' = hold /\ due' = due /\ since' = since /\ mix' = Called /\ use' = use
  BY Zenon DEF SetPitch, Call
<1>3. v' \in VoiceRec
  BY <1>1, <1>2 DEF VoiceRec
<1>4. Same(v')
  BY <1>1, <1>2, <1>3 DEF Same, VoiceRec
<1> QED BY <1>1, <1>2, <1>4, LeavesAlone

\* A chained sound more, or none: the queue is all that changes.
LEMMA NewQueue == ASSUME v \in VoiceRec, NEW q \in Seq(Entry), v' = [v EXCEPT !.queue = q] PROVE Same(v')
<1>1. v' \in VoiceRec
  BY DEF VoiceRec
<1> QED BY <1>1 DEF Same, VoiceRec

LEMMA QueueIs ==
    ASSUME TransportIInv, NEW s \in Sounds, NEW loop \in BOOLEAN, Queue(s, loop) PROVE TransportIInv'
<1>1. v \in VoiceRec /\ hold \in BOOLEAN
  BY DEF TransportIInv, TypeOK
<1> PICK x : x = [snd |-> s, loop |-> loop]
  OBVIOUS
<1>2. PICK q : q = Append(v.queue, x)
  OBVIOUS
<1>3. v' = [v EXCEPT !.queue = q] /\ hold' = hold /\ due' = due /\ since' = since /\ mix' = Called /\ use' = use
  BY <1>2 DEF Queue, Call
<1>4. q \in Seq(Entry)
  <2>1. x \in Entry
    BY DEF Entry
  <2>2. v.queue \in Seq(Entry)
    BY <1>1 DEF VoiceRec
  <2> QED BY <1>2, <2>1, <2>2
<1>5. Same(v')
  BY <1>1, <1>3, <1>4, NewQueue
<1> QED BY <1>1, <1>3, <1>5, LeavesAlone

LEMMA ClearQueueIs == ASSUME TransportIInv, ClearQueue PROVE TransportIInv'
<1>1. v \in VoiceRec /\ hold \in BOOLEAN
  BY DEF TransportIInv, TypeOK
<1>2. PICK q \in Seq(Entry) : q = <<>>
  BY Nothing, Zenon
<1>3. v' = [v EXCEPT !.queue = q] /\ hold' = hold /\ due' = due /\ since' = since /\ mix' = Called /\ use' = use
  BY <1>2, Zenon DEF ClearQueue, Call
<1>4. Same(v')
  BY <1>1, <1>3, NewQueue
<1> QED BY <1>1, <1>3, <1>4, LeavesAlone

\* CMD_PLAY: a play starts from silence, and one that is being stolen is due.
LEMMA PlayIs ==
    ASSUME TransportIInv, NEW s \in Sounds, NEW loop \in BOOLEAN, NEW t \in Nat, NEW b \in Nat, NEW e \in Nat,
           Play(s, loop, t, b, e), v.active, mix' = Called, use' = use
    PROVE  TransportIInv'
<1>1. v \in VoiceRec /\ hold \in BOOLEAN /\ v.stopping \in 0 .. 2 /\ mix \in BlockRec /\ Block \in Nat \ {0} /\ use \in Uses
  BY Sizes DEF TransportIInv, TypeOK, VoiceRec
<1> PICK x, y, k, q, z : x = BegIn(s, b) /\ y = EndIn(s, e) /\ k = (IF v.stopping = 2 THEN 2 ELSE 0) /\ q = <<>> /\ z = Never
  OBVIOUS
<1>2. v' = [v EXCEPT !.playing = TRUE, !.snd = s, !.cursor = 0, !.loop = loop, !.beg = x, !.end = y, !.wait = t,
                     !.stopAt = z, !.queue = q, !.paused = FALSE, !.gate = 1, !.level = 0, !.seek = z,
                     !.stopping = k]
  BY DEF Play
<1>3. /\ due' = (IF v.stopping = 2 THEN t + Block ELSE Never) /\ since' = {"cut"} /\ hold' = hold
  BY Zenon DEF Play
<1>4. x \in Nat /\ y \in Nat /\ k \in 0 .. 2 /\ q \in Seq(Entry) /\ z \in Time
  BY Nothing, Unset DEF BegIn, EndIn
<1>5. v' \in VoiceRec
  <2>1. PICK w : w = [v EXCEPT !.playing = TRUE, !.snd = s, !.cursor = 0, !.loop = loop, !.beg = x, !.end = y,
                               !.wait = t, !.stopAt = z, !.queue = q]
    OBVIOUS
  <2>2. w \in VoiceRec
    <3>1. PICK n \in Sounds \cup {None}, c \in Nat : n = s /\ c = 0
      OBVIOUS
    <3>2. PICK u : u = [v EXCEPT !.playing = TRUE, !.snd = n, !.cursor = c, !.loop = loop]
      OBVIOUS
    <3>3. u \in VoiceRec
      BY <1>1, <3>2, Zenon DEF VoiceRec
    <3>4. [u EXCEPT !.beg = x, !.end = y, !.wait = t, !.stopAt = z, !.queue = q] \in VoiceRec
      BY <1>4, <3>3, Zenon DEF VoiceRec
    <3>5. w = [u EXCEPT !.beg = x, !.end = y, !.wait = t, !.stopAt = z, !.queue = q]
      BY <2>1, <3>1, <3>2
    <3> QED BY <3>4, <3>5, Zenon
  <2>3. PICK g \in 0 .. 1, l \in 0 .. 1 : g = 1 /\ l = 0
    OBVIOUS
  <2>4. [w EXCEPT !.paused = FALSE, !.gate = g, !.level = l, !.seek = z, !.stopping = k] \in VoiceRec
    BY <1>4, <2>2, Zenon DEF VoiceRec
  <2>5. v' = [w EXCEPT !.paused = FALSE, !.gate = g, !.level = l, !.seek = z, !.stopping = k]
    BY <1>2, <2>1, <2>3
  <2> QED BY <2>4, <2>5, Zenon
<1>6. v'.active = v.active /\ v'.playing = TRUE
  BY <1>1, <1>2, Zenon DEF VoiceRec
<1>7. v'.snd = s /\ v'.wait = t /\ v'.stopAt = z /\ v'.gate = 1 /\ v'.level = 0 /\ v'.stopping = k
  BY <1>1, <1>2, Zenon DEF VoiceRec
<1>8. mix' \in BlockRec
  BY <1>1, CalledIs
<1>9. due' \in Time
  BY <1>1, <1>3 DEF Time
<1>10. TypeOK'
  BY <1>1, <1>3, <1>5, <1>6, <1>7, <1>8, <1>9 DEF TypeOK
<1>11. Levels'
  BY <1>3, <1>6, <1>7 DEF Levels
<1>12. Deadlines'
  BY <1>1, <1>3, <1>6, <1>7 DEF Deadlines, Never
<1> QED BY <1>10, <1>11, <1>12 DEF TransportIInv

\* A stop that begins now is due when the voice has started and faded; one that has begun stays due.
LEMMA StopsIs ==
    ASSUME TransportIInv, NEW k \in 1 .. 2, v.playing, v' \in VoiceRec,
           v'.active = v.active, v'.playing = v.playing, v'.snd = v.snd, v'.wait = v.wait, v'.stopping = k,
           v'.gate = v.gate, v'.level = v.level,
           due' = Earliest(v.wait + Block), mix' = Called, use' = use, hold' = hold, since' = since
    PROVE  TransportIInv'
<1>1. /\ v \in VoiceRec /\ hold \in BOOLEAN /\ v.stopping \in 0 .. 2 /\ mix \in BlockRec /\ Block \in Nat \ {0}
      /\ due \in Time /\ v.wait \in Nat /\ v.stopAt \in Time
  BY Sizes DEF TransportIInv, TypeOK, VoiceRec
<1>2. mix' \in BlockRec /\ mix'.to = mix.to /\ mix'.done = mix.done
  BY <1>1, CalledIs
<1> PICK t \in Nat : t = v.wait + Block
  BY <1>1
<1>3. CASE due = Never
  <2>1. due' = t
    BY <1>3 DEF Earliest
  <2>2. TypeOK'
    BY <1>1, <1>2, <2>1 DEF TransportIInv, TypeOK, Time
  <2>3. Levels'
    BY <1>2 DEF TransportIInv, Levels
  <2>4. Deadlines'
    BY <1>1, <2>1 DEF TransportIInv, Deadlines, Never
  <2> QED BY <2>2, <2>3, <2>4 DEF TransportIInv
<1>4. CASE due # Never
  <2>1. due \in Nat /\ due' = Min({due, t})
    BY <1>1, <1>4 DEF Earliest, Time
  <2>2. due' \in {due, t}
    BY <2>1, MinOfTwo
  <2>3. due >= t \/ (v.gate = 0 /\ v.wait = 0)
    BY <1>1, <1>4 DEF TransportIInv, Deadlines, Time, Never
  <2>4. due' >= t \/ (v.gate = 0 /\ v.wait = 0)
    BY <2>1, <2>2, <2>3
  <2>5. TypeOK'
    BY <1>1, <1>2, <2>1, <2>2 DEF TransportIInv, TypeOK, Time
  <2>6. Levels'
    BY <1>2 DEF TransportIInv, Levels
  <2>7. Deadlines'
    BY <1>1, <2>1, <2>2, <2>4 DEF Deadlines, Never
  <2> QED BY <2>5, <2>6, <2>7 DEF TransportIInv
<1> QED BY <1>3, <1>4

LEMMA StopIs == ASSUME TransportIInv, Stop PROVE TransportIInv'
<1>1. v \in VoiceRec
  BY DEF TransportIInv, TypeOK
<1>2. /\ v.playing /\ v' = [v EXCEPT !.stopping = 1] /\ due' = Earliest(v.wait + Block)
      /\ mix' = Called /\ use' = use /\ hold' = hold /\ since' = since
  BY Zenon DEF Stop, Call, CanStop
<1>3. v' \in VoiceRec
  BY <1>1, <1>2 DEF VoiceRec
<1>4. v'.active = v.active /\ v'.playing = v.playing /\ v'.snd = v.snd /\ v'.wait = v.wait /\ v'.stopping = 1
      /\ v'.gate = v.gate /\ v'.level = v.level
  BY <1>1, <1>2, Zenon DEF VoiceRec
<1> QED BY <1>2, <1>3, <1>4, StopsIs

LEMMA SweepIs == ASSUME TransportIInv, Sweep PROVE TransportIInv'
<1>1. v \in VoiceRec
  BY DEF TransportIInv, TypeOK
<1>2. PICK q \in Seq(Entry) : q = <<>>
  BY Nothing, Zenon
<1>3. /\ v.playing /\ v' = [v EXCEPT !.stopping = 1, !.stopAt = Never, !.queue = q] /\ due' = Earliest(v.wait + Block)
      /\ mix' = Called /\ use' = use /\ hold' = hold /\ since' = since
  BY <1>2, Zenon DEF Sweep, Call, CanStop
<1>4. v' \in VoiceRec
  <2>1. PICK k \in 0 .. 2 : k = 1
    OBVIOUS
  <2>2. [v EXCEPT !.stopping = k, !.stopAt = Never, !.queue = q] \in VoiceRec
    BY <1>1, Unset, Zenon DEF VoiceRec
  <2> QED BY <1>3, <2>1, <2>2, Zenon
<1>5. v'.active = v.active /\ v'.playing = v.playing /\ v'.snd = v.snd /\ v'.wait = v.wait /\ v'.stopping = 1
      /\ v'.gate = v.gate /\ v'.level = v.level
  BY <1>1, <1>3, Zenon DEF VoiceRec
<1> QED BY <1>3, <1>4, <1>5, StopsIs

LEMMA StealIs == ASSUME TransportIInv, Steal PROVE TransportIInv'
<1>1. v \in VoiceRec /\ mix \in BlockRec
  BY DEF TransportIInv, TypeOK
<1>2. CASE v.playing
  <2>1. /\ v' = [v EXCEPT !.stopping = 2] /\ due' = Earliest(v.wait + Block)
        /\ mix' = Called /\ use' = use /\ hold' = hold /\ since' = since
    BY <1>2, Zenon DEF Steal
  <2>2. v' \in VoiceRec
    BY <1>1, <2>1 DEF VoiceRec
  <2>3. v'.active = v.active /\ v'.playing = v.playing /\ v'.snd = v.snd /\ v'.wait = v.wait /\ v'.stopping = 2
        /\ v'.gate = v.gate /\ v'.level = v.level
    BY <1>1, <2>1, Zenon DEF VoiceRec
  <2> QED BY <1>2, <2>1, <2>2, <2>3, StopsIs
<1>3. CASE ~v.playing
  <2>1. /\ v' = [v EXCEPT !.stopping = 0, !.active = FALSE, !.snd = None] /\ due' = Never
        /\ mix' = [Called EXCEPT !.ended = TRUE] /\ use' = use /\ hold' = hold /\ since' = since
    BY <1>3, Zenon DEF Steal
  <2>2. v' \in VoiceRec
    <3>1. PICK n \in Sounds \cup {None} : n = None
      OBVIOUS
    <3>2. PICK k \in 0 .. 2 : k = 0
      OBVIOUS
    <3>3. [v EXCEPT !.stopping = k, !.active = FALSE, !.snd = n] \in VoiceRec
      BY <1>1, Zenon DEF VoiceRec
    <3> QED BY <2>1, <3>1, <3>2, <3>3, Zenon
  <2>3. ~v'.playing
    BY <1>1, <1>3, <2>1 DEF VoiceRec
  <2>4. mix' \in BlockRec /\ mix'.to = mix.to /\ mix'.done = mix.done
    BY <1>1, <2>1, CalledIs
  <2>5. TypeOK'
    BY <2>1, <2>2, <2>3, <2>4 DEF TransportIInv, TypeOK, Time
  <2>6. Levels'
    BY <1>3, <2>1, <2>3, <2>4 DEF TransportIInv, Levels
  <2>7. Deadlines'
    BY <2>3 DEF Deadlines
  <2> QED BY <2>5, <2>6, <2>7 DEF TransportIInv
<1> QED BY <1>2, <1>3

LEMMA StopAtIs == ASSUME TransportIInv, NEW t \in 0 .. Ahead, StopAt(t) PROVE TransportIInv'
<1>1. /\ v \in VoiceRec /\ hold \in BOOLEAN /\ v.stopping \in 0 .. 2 /\ mix \in BlockRec /\ Block \in Nat \ {0}
      /\ due \in Time /\ v.wait \in Nat /\ t \in Nat
  BY Sizes DEF TransportIInv, TypeOK, VoiceRec
<1>2. /\ v' = [v EXCEPT !.stopAt = t] /\ mix' = Called /\ use' = use /\ hold' = hold /\ since' = since
      /\ due' = IF v.playing /\ v.stopping = 0 THEN Max({t, v.wait}) + Block ELSE due
  BY Zenon DEF StopAt, Call
<1>3. v' \in VoiceRec
  BY <1>1, <1>2 DEF VoiceRec, Time
<1>4. v'.active = v.active /\ v'.playing = v.playing /\ v'.snd = v.snd /\ v'.wait = v.wait /\ v'.stopping = v.stopping
      /\ v'.gate = v.gate /\ v'.level = v.level /\ v'.stopAt = t
  BY <1>1, <1>2, Zenon DEF VoiceRec
<1>5. mix' \in BlockRec /\ mix'.to = mix.to /\ mix'.done = mix.done
  BY <1>1, <1>2, CalledIs
<1>6. PICK x \in Nat : x = Max({t, v.wait}) /\ x = (IF t > v.wait THEN t ELSE v.wait)
  <2>1. PICK w \in Nat : w = v.wait
    BY <1>1
  <2>2. Max({t, w}) \in {t, w} /\ Max({t, w}) >= t /\ Max({t, w}) >= w
    BY <1>1, MaxOfTwo
  <2> QED BY <1>1, <2>1, <2>2
<1>7. due' \in Time
  BY <1>1, <1>2, <1>6 DEF Time
<1>8. TypeOK'
  BY <1>1, <1>2, <1>3, <1>4, <1>5, <1>7 DEF TransportIInv, TypeOK
<1>9. Levels'
  BY <1>2, <1>4, <1>5 DEF TransportIInv, Levels
<1>10. Deadlines'
  <2>1. CASE v.playing /\ v.stopping = 0
    <3>1. due' = x + Block /\ t # Never
      BY <1>1, <1>2, <1>6, <2>1 DEF Never
    <3> QED BY <1>4, <1>6, <2>1, <3>1 DEF Deadlines
  <2>2. CASE ~(v.playing /\ v.stopping = 0)
    BY <1>1, <1>2, <1>4, <2>2 DEF TransportIInv, Deadlines
  <2> QED BY <2>1, <2>2
<1> QED BY <1>8, <1>9, <1>10 DEF TransportIInv

LEMMA DestroyIs == ASSUME TransportIInv, Destroy PROVE TransportIInv'
<1>1. v \in VoiceRec /\ mix \in BlockRec
  BY DEF TransportIInv, TypeOK
<1>2. /\ v' = [v EXCEPT !.active = FALSE, !.playing = FALSE, !.snd = None] /\ due' = Never /\ since' = {"cut"}
      /\ mix' = Called /\ use' = use /\ hold' = hold
  BY Zenon DEF Destroy, Call
<1>3. v' \in VoiceRec /\ ~v'.playing
  BY <1>1, <1>2 DEF VoiceRec
<1>4. mix' \in BlockRec
  BY <1>1, <1>2, CalledIs
<1>5. TypeOK'
  BY <1>2, <1>3, <1>4 DEF TransportIInv, TypeOK, Time
<1>6. Levels' /\ Deadlines'
  BY <1>2, <1>3 DEF Levels, Deadlines
<1> QED BY <1>5, <1>6 DEF TransportIInv

LEMMA UnloadIs == ASSUME TransportIInv, NEW s \in Sounds, Unload(s) PROVE TransportIInv'
<1>1. v \in VoiceRec /\ mix \in BlockRec /\ hold \in BOOLEAN /\ v.queue \in Seq(Entry) /\ v.playing \in BOOLEAN
  BY DEF TransportIInv, TypeOK, VoiceRec
<1> PICK p, n, q : /\ p = (v.playing /\ v.snd # s) /\ n = (IF v.snd = s THEN None ELSE v.snd)
                   /\ q = [i \in DOMAIN v.queue |-> IF v.queue[i].snd = s THEN [v.queue[i] EXCEPT !.snd = None] ELSE v.queue[i]]
  OBVIOUS
<1>2. /\ v' = [v EXCEPT !.playing = p, !.snd = n, !.queue = q]
      /\ since' = (IF v.snd = s THEN since \cup {"cut"} ELSE since)
      /\ mix' = Called /\ use' = use /\ hold' = hold /\ due' = due
  BY DEF Unload, Call
<1>3. q \in Seq(Entry)
  <2>1. ASSUME NEW i \in DOMAIN v.queue PROVE q[i] \in Entry
    <3>1. PICK x \in Entry : x = v.queue[i]
      BY <1>1
    <3>2. [x EXCEPT !.snd = None] \in Entry
      BY DEF Entry
    <3> QED BY <3>1, <3>2
  <2>2. PICK l \in Nat : DOMAIN v.queue = 1 .. l
    BY <1>1
  <2>3. q \in [1 .. l -> Entry]
    BY <2>1, <2>2, Zenon
  <2>4. [1 .. l -> Entry] \subseteq Seq(Entry)
    BY <2>2
  <2> QED BY <2>3, <2>4
<1>4. p \in BOOLEAN /\ n \in Sounds \cup {None}
  BY <1>1 DEF VoiceRec
<1>5. v' \in VoiceRec
  <2>1. [v EXCEPT !.playing = p, !.snd = n, !.queue = q] \in VoiceRec
    BY <1>1, <1>3, <1>4, Zenon DEF VoiceRec
  <2> QED BY <1>2, <2>1, Zenon
<1>6. mix' \in BlockRec /\ mix'.to = mix.to /\ mix'.done = mix.done
  BY <1>1, <1>2, CalledIs
<1>7. CASE v.snd = s
  <2>1. ~v'.playing /\ since' = since \cup {"cut"}
    BY <1>1, <1>2, <1>5, <1>7 DEF VoiceRec
  <2>2. TypeOK'
    BY <1>1, <1>2, <1>5, <1>6, <2>1 DEF TransportIInv, TypeOK
  <2>3. Levels' /\ Deadlines'
    BY <2>1 DEF Levels, Deadlines
  <2> QED BY <2>2, <2>3 DEF TransportIInv
<1>8. CASE v.snd # s
  <2>1. v'.active = v.active /\ v'.snd = v.snd /\ v'.wait = v.wait /\ v'.stopAt = v.stopAt
        /\ v'.stopping = v.stopping /\ v'.gate = v.gate /\ v'.level = v.level
    BY <1>1, <1>2, <1>8, Zenon DEF VoiceRec
  <2>2. v'.playing = p /\ p = v.playing
    BY <1>1, <1>2, <1>8 DEF VoiceRec
  <2>3. Same(v')
    BY <1>5, <2>1, <2>2 DEF Same
  <2> QED BY <1>1, <1>2, <1>8, <2>3, LeavesAlone
<1> QED BY <1>7, <1>8

LEMMA FreshIs == Fresh \in VoiceRec /\ ~Fresh.playing
<1>1. PICK q \in Seq(Entry) : q = <<>>
  BY Nothing, Zenon
<1>2. Fresh = [active |-> TRUE, playing |-> FALSE, snd |-> None, cursor |-> 0, loop |-> FALSE, beg |-> 0, end |-> 0,
               wait |-> 0, stopAt |-> -1, stopping |-> 0, paused |-> FALSE, seek |-> -1, rate |-> 1, gate |-> 1,
               level |-> 0, queue |-> q]
  BY <1>1, Zenon DEF Fresh, Never
<1>3. -1 \in Time
  BY DEF Time, Never
<1> QED BY <1>2, <1>3 DEF VoiceRec

LEMMA CreateIs == ASSUME TransportIInv, Create PROVE TransportIInv'
<1>1. mix \in BlockRec /\ ~v.playing
  BY DEF TransportIInv, TypeOK, Create
<1>2. /\ v' = Fresh /\ due' = Never /\ mix' = Called /\ use' = use /\ hold' = hold /\ since' = since
  BY Zenon DEF Create
<1>3. v' \in VoiceRec /\ ~v'.playing
  BY <1>2, FreshIs
<1>4. mix' \in BlockRec /\ mix'.to = mix.to /\ mix'.done = mix.done
  BY <1>1, <1>2, CalledIs
<1>5. TypeOK'
  BY <1>2, <1>3, <1>4 DEF TransportIInv, TypeOK, Time
<1>6. Levels'
  BY <1>1, <1>2, <1>3, <1>4 DEF TransportIInv, Levels
<1>7. Deadlines'
  BY <1>3 DEF Deadlines
<1> QED BY <1>5, <1>6, <1>7 DEF TransportIInv

\* Every call keeps the invariant, and none is taken for a block.
LEMMA ClientKeeps == ASSUME TransportIInv, Client PROVE TransportIInv' /\ mix'.step = "call"
<1>0. mix \in BlockRec
  BY DEF TransportIInv, TypeOK
<1>1. ASSUME NEW s \in Sounds, NEW loop \in BOOLEAN, PlayNow(s, loop) PROVE TransportIInv' /\ mix'.step = "call"
  <2>1. Play(s, loop, 0, 0, 0) /\ v.active /\ mix' = Called /\ use' = use
    BY <1>1, Zenon DEF PlayNow, Call
  <2> QED BY <1>0, <2>1, PlayIs, CalledIs
<1>2. ASSUME NEW s \in Sounds, NEW t \in 1 .. Ahead, PlayAt(s, t) PROVE TransportIInv' /\ mix'.step = "call"
  <2>1. Play(s, FALSE, t, 0, 0) /\ v.active /\ mix' = Called /\ use' = use
    BY <1>2, Zenon DEF PlayAt, Call
  <2>2. t \in Nat /\ FALSE \in BOOLEAN
    BY Sizes
  <2> QED BY <1>0, <2>1, <2>2, PlayIs, CalledIs
<1>3. ASSUME NEW s \in Sounds, NEW b \in 0 .. Longest, NEW e \in 0 .. Longest, PlayLoop(s, b, e)
      PROVE  TransportIInv' /\ mix'.step = "call"
  <2>1. Play(s, TRUE, 0, b, e) /\ v.active /\ mix' = Called /\ use' = use
    BY <1>3, Zenon DEF PlayLoop, Call
  <2>2. b \in Nat /\ e \in Nat /\ TRUE \in BOOLEAN
    OBVIOUS
  <2> QED BY <1>0, <2>1, <2>2, PlayIs, CalledIs
<1>4. ASSUME NEW s \in Sounds, NEW loop \in BOOLEAN, Queue(s, loop) PROVE TransportIInv' /\ mix'.step = "call"
  BY <1>0, <1>4, QueueIs, CalledIs DEF Queue, Call
<1>5. ASSUME NEW b \in 0 .. Longest, NEW e \in 0 .. Longest, SetRegion(b, e) PROVE TransportIInv' /\ mix'.step = "call"
  BY <1>0, <1>5, SetRegionIs, CalledIs DEF SetRegion, Call
<1>6. ASSUME NEW f \in 0 .. Longest + 1, Seek(f) PROVE TransportIInv' /\ mix'.step = "call"
  BY <1>0, <1>6, SeekIs, CalledIs DEF Seek, Call
<1>7. ASSUME NEW on \in BOOLEAN, SetPaused(on) PROVE TransportIInv' /\ mix'.step = "call"
  BY <1>0, <1>7, SetPausedIs, CalledIs DEF SetPaused, Call
<1>8. ASSUME NEW on \in BOOLEAN, SetHold(on) PROVE TransportIInv' /\ mix'.step = "call"
  BY <1>0, <1>8, SetHoldIs, CalledIs DEF SetHold, Call
<1>9. ASSUME NEW t \in 0 .. Ahead, StopAt(t) PROVE TransportIInv' /\ mix'.step = "call"
  BY <1>0, <1>9, StopAtIs, CalledIs DEF StopAt, Call
<1>10. ASSUME NEW k \in Pitch, SetPitch(k) PROVE TransportIInv' /\ mix'.step = "call"
  BY <1>0, <1>10, SetPitchIs, CalledIs DEF SetPitch, Call
<1>11. ASSUME NEW s \in Sounds, Unload(s) PROVE TransportIInv' /\ mix'.step = "call"
  BY <1>0, <1>11, UnloadIs, CalledIs DEF Unload, Call
<1>12. CASE Stop
  BY <1>0, <1>12, StopIs, CalledIs DEF Stop, Call
<1>13. CASE Sweep
  BY <1>0, <1>13, SweepIs, CalledIs DEF Sweep, Call
<1>14. CASE Steal
  BY <1>0, <1>14, StealIs, CalledIs DEF Steal
<1>15. CASE Destroy
  BY <1>0, <1>15, DestroyIs, CalledIs DEF Destroy, Call
<1>16. CASE Create
  BY <1>0, <1>16, CreateIs, CalledIs DEF Create
<1>17. CASE ClearQueue
  BY <1>0, <1>17, ClearQueueIs, CalledIs DEF ClearQueue, Call
<1> QED BY <1>1, <1>2, <1>3, <1>4, <1>5, <1>6, <1>7, <1>8, <1>9, <1>10, <1>11, <1>12, <1>13, <1>14,
     <1>15, <1>16, <1>17, Zenon DEF Client

-----------------------------------------------------------------------------
(* The blocks.                                                             *)

LEMMA LaterIs ==
    ASSUME NEW t \in Time
    PROVE  /\ Later(t) \in Time
           /\ t = Never => Later(t) = Never
           /\ t # Never => /\ Later(t) \in Nat /\ Later(t) # Never
                           /\ t > Block => Later(t) = t - Block
                           /\ t <= Block => Later(t) = 0
<1>1. Block \in Nat \ {0}
  BY Sizes
<1>2. CASE t = Never
  BY <1>1, <1>2 DEF Later, Time, Never
<1>3. CASE t # Never
  <2>1. t \in Nat
    BY <1>3 DEF Time
  <2>2. CASE t > Block
    BY <1>1, <1>3, <2>1, <2>2 DEF Later, Time, Never
  <2>3. CASE t <= Block
    BY <1>1, <1>3, <2>1, <2>3 DEF Later, Time, Never
  <2> QED BY <1>1, <1>3, <2>1, <2>2, <2>3
<1> QED BY <1>2, <1>3

\* The scheduled stop that a block reaches fires.
LEMMA NowIs ==
    ASSUME v \in VoiceRec
    PROVE  /\ Now \in VoiceRec
           /\ Now.active = v.active /\ Now.playing = v.playing /\ Now.snd = v.snd /\ Now.wait = v.wait
           /\ Now.gate = v.gate /\ Now.level = v.level
           /\ \/ (v.stopAt = Never \/ v.stopAt > Block) /\ Now.stopAt = v.stopAt /\ Now.stopping = v.stopping
              \/ /\ v.stopAt # Never /\ v.stopAt <= Block /\ Now.stopAt = Never
                 /\ Now.stopping = IF v.stopping = 2 THEN 2 ELSE 1
<1>1. v.stopAt \in Time /\ v.stopping \in 0 .. 2 /\ Block \in Nat
  BY Sizes DEF VoiceRec
<1>2. CASE v.stopAt # Never /\ v.stopAt <= Block
  <2>1. PICK k \in 0 .. 2 : k = IF v.stopping = 2 THEN 2 ELSE 1
    OBVIOUS
  <2>2. Now = [v EXCEPT !.stopAt = Never, !.stopping = k]
    BY <1>2, <2>1 DEF Now
  <2>3. Now \in VoiceRec
    BY <2>2, Unset DEF VoiceRec
  <2>4. Now.active = v.active /\ Now.playing = v.playing /\ Now.snd = v.snd /\ Now.wait = v.wait
        /\ Now.gate = v.gate /\ Now.level = v.level /\ Now.stopAt = Never /\ Now.stopping = k
    BY <2>2, Zenon DEF VoiceRec
  <2> QED BY <1>2, <2>1, <2>3, <2>4
<1>3. CASE ~(v.stopAt # Never /\ v.stopAt <= Block)
  <2>1. Now = v
    BY <1>3 DEF Now
  <2>2. v.stopAt = Never \/ v.stopAt > Block
    BY <1>1, <1>3 DEF Time, Never
  <2> QED BY <2>1, <2>2
<1> QED BY <1>2, <1>3

\* A seek lands in the region, or at its end.
LEMMA LandedIs ==
    ASSUME v \in VoiceRec, v.snd \in Sounds
    PROVE  /\ Landed \in VoiceRec
           /\ Landed.active = Now.active /\ Landed.playing = Now.playing /\ Landed.snd = Now.snd /\ Landed.wait = Now.wait
           /\ Landed.gate = Now.gate /\ Landed.level = Now.level
           /\ Landed.stopAt = Now.stopAt /\ Landed.stopping = Now.stopping /\ Landed.paused = Now.paused
           /\ Now.seek # Never => Landed.cursor \in LoopBeg(Landed, Frames[Landed.snd]) .. LoopEnd(Landed, Frames[Landed.snd])
<1>1. Now \in VoiceRec /\ Now.snd \in Sounds
  BY NowIs
<1>2. CASE Now.seek = Never
  BY <1>1, <1>2 DEF Landed
<1>3. CASE Now.seek # Never
  <2>1. PICK b, e : b = LoopBeg(Now, Frames[Now.snd]) /\ e = LoopEnd(Now, Frames[Now.snd])
    OBVIOUS
  <2>2. b \in Nat /\ e \in Nat /\ b < e
    BY <1>1, <2>1, RegionIn
  <2>3. Now.seek \in Nat /\ Now.loop \in BOOLEAN
    BY <1>1, <1>3 DEF VoiceRec, Time
  <2>4. PICK c : c = Landing(Now)
    OBVIOUS
  <2>5. c = IF Now.seek < b THEN b ELSE IF Now.seek < e THEN Now.seek
            ELSE IF Now.loop THEN b + ((Now.seek - b) % (e - b)) ELSE e
    BY <2>1, <2>4 DEF Landing
  <2>6. c \in b .. e /\ c \in Nat
    <3>1. CASE Now.seek < b
      BY <2>2, <2>5, <3>1
    <3>2. CASE Now.seek >= b /\ Now.seek < e
      BY <2>2, <2>3, <2>5, <3>2
    <3>3. CASE Now.seek >= e /\ Now.loop
      <4>1. b <= Now.seek
        BY <2>2, <2>3, <3>3
      <4>2. Wrapped(Now.seek, b, e) \in b .. e - 1
        BY <2>2, <2>3, <4>1, WrappedIn
      <4>3. c = Wrapped(Now.seek, b, e)
        BY <2>2, <2>3, <2>5, <3>3 DEF Wrapped
      <4> QED BY <2>2, <4>2, <4>3
    <3>4. CASE Now.seek >= e /\ ~Now.loop
      BY <2>2, <2>3, <2>5, <3>4
    <3> QED BY <2>2, <2>3, <3>1, <3>2, <3>3, <3>4
  <2>7. Landed = [Now EXCEPT !.cursor = c, !.seek = Never]
    BY <1>3, <2>4 DEF Landed
  <2>8. Landed \in VoiceRec
    BY <1>1, <2>6, <2>7, Unset DEF VoiceRec
  <2>9. /\ Landed.active = Now.active /\ Landed.playing = Now.playing /\ Landed.snd = Now.snd /\ Landed.wait = Now.wait
        /\ Landed.gate = Now.gate /\ Landed.level = Now.level
        /\ Landed.stopAt = Now.stopAt /\ Landed.stopping = Now.stopping
    BY <1>1, <2>7, Zenon DEF VoiceRec
  <2>10. Landed.beg = Now.beg /\ Landed.end = Now.end /\ Landed.cursor = c /\ Landed.paused = Now.paused
    BY <1>1, <2>7, Zenon DEF VoiceRec
  <2>11. LoopEnd(Landed, Frames[Landed.snd]) = e
    BY <2>1, <2>9, <2>10 DEF LoopEnd
  <2>12. LoopBeg(Landed, Frames[Landed.snd]) = b
    BY <2>1, <2>9, <2>10, <2>11 DEF LoopBeg, LoopEnd
  <2> QED BY <2>6, <2>8, <2>9, <2>10, <2>11, <2>12
<1> QED BY <1>2, <1>3

\* Times are told from the next block.
LEMMA PassedIs ==
    ASSUME NEW r \in VoiceRec
    PROVE  /\ Passed(r) \in VoiceRec
           /\ Passed(r).active = r.active /\ Passed(r).playing = r.playing /\ Passed(r).snd = r.snd
           /\ Passed(r).stopping = r.stopping /\ Passed(r).gate = r.gate /\ Passed(r).level = r.level
           /\ Passed(r).wait = Later(r.wait) /\ Passed(r).stopAt = Later(r.stopAt)
<1>1. r.wait \in Nat /\ r.stopAt \in Time /\ r.wait \in Time /\ r.wait # Never
  BY DEF VoiceRec, Time, Never
<1>2. PICK w \in Nat, a \in Time : w = Later(r.wait) /\ a = Later(r.stopAt)
  BY <1>1, LaterIs
<1>3. Passed(r) = [r EXCEPT !.wait = w, !.stopAt = a]
  BY <1>2 DEF Passed
<1>4. Passed(r) \in VoiceRec
  BY <1>2, <1>3 DEF VoiceRec
<1>5. Passed(r).active = r.active /\ Passed(r).playing = r.playing /\ Passed(r).snd = r.snd
      /\ Passed(r).stopping = r.stopping /\ Passed(r).gate = r.gate /\ Passed(r).level = r.level
      /\ Passed(r).wait = w /\ Passed(r).stopAt = a
  BY <1>3, Zenon DEF VoiceRec
<1> QED BY <1>2, <1>4, <1>5

\* What a block leaves of a voice's stop: r is the voice with its scheduled stop fired.
Leaves(r) ==
    /\ r \in VoiceRec /\ r.active = Now.active /\ r.playing = Now.playing /\ r.snd = Now.snd /\ r.wait = Now.wait
    /\ r.stopAt = Now.stopAt /\ r.stopping = Now.stopping /\ r.gate = Now.gate /\ r.level = Now.level

\* The deadline after a block in which the voice has started, and sounds on or fades.
LEMMA DeadlineAfter ==
    ASSUME TransportIInv, Runs, NEW r, Leaves(r), due' = Later(due),
           v'.playing => v'.wait = Later(r.wait) /\ v'.stopAt = Later(r.stopAt) /\ v'.stopping = r.stopping,
           r.stopping # 0 => v'.gate = 0
    PROVE  Deadlines' /\ due' \in Time /\ Later(r.wait) = 0
<1>1. /\ v \in VoiceRec /\ due \in Time /\ Block \in Nat \ {0} /\ v.wait \in Nat /\ v.wait < Block /\ v.playing
      /\ v.stopAt \in Time /\ v.stopping \in 0 .. 2 /\ r.wait = v.wait
  BY NowIs, Sizes DEF TransportIInv, TypeOK, VoiceRec, Runs, Sounding, Leaves
<1>2. Later(r.wait) = 0
  BY <1>1, LaterIs DEF Time, Never
<1>3. due' \in Time /\ (due # Never => due' # Never)
  BY <1>1, LaterIs
<1>4. CASE r.stopping = 0
  <2>1. (v.stopAt = Never \/ v.stopAt > Block) /\ r.stopAt = v.stopAt /\ v.stopping = 0
    BY <1>1, <1>4, NowIs DEF Leaves
  <2>2. CASE v.stopAt = Never
    <3>1. due = Never
      BY <1>1, <2>1, <2>2 DEF TransportIInv, Deadlines
    <3>2. due' = Never /\ Later(r.stopAt) = Never
      BY <1>1, <2>1, <2>2, <3>1, LaterIs
    <3> QED BY <1>2, <1>3, <1>4, <3>2 DEF Deadlines
  <2>3. CASE v.stopAt # Never
    <3>1. v.stopAt \in Nat /\ v.stopAt > Block
      BY <1>1, <2>1, <2>3 DEF Time
    <3>2. due = v.stopAt + Block
      BY <1>1, <2>1, <2>3, <3>1 DEF TransportIInv, Deadlines
    <3>3. due' = v.stopAt
      BY <1>1, <3>1, <3>2, LaterIs DEF Time, Never
    <3>4. Later(r.stopAt) = v.stopAt - Block
      BY <1>1, <2>1, <2>3, <3>1, LaterIs
    <3> QED BY <1>1, <1>2, <1>3, <1>4, <3>1, <3>3, <3>4 DEF Deadlines, Never
  <2> QED BY <2>2, <2>3
<1>5. CASE r.stopping # 0
  <2>1. v.stopping # 0 \/ v.stopAt # Never
    BY <1>1, <1>5, NowIs DEF Leaves
  <2>2. due # Never
    <3>1. CASE v.stopping # 0
      BY <1>1, <3>1 DEF TransportIInv, Deadlines
    <3>2. CASE v.stopping = 0 /\ v.stopAt # Never
      <4>1. v.stopAt \in Nat
        BY <1>1, <3>2 DEF Time
      <4> QED BY <1>1, <3>2, <4>1 DEF TransportIInv, Deadlines, Never
    <3> QED BY <2>1, <3>1, <3>2
  <2> QED BY <1>2, <1>3, <1>5, <2>2 DEF Deadlines
<1> QED BY <1>2, <1>3, <1>4, <1>5

\* A voice that waits, or does not play.
LEMMA IdleIs == ASSUME TransportIInv, Idle PROVE TransportIInv' /\ mix'.step = "silent"
<1>1. /\ v \in VoiceRec /\ due \in Time /\ Block \in Nat \ {0} /\ v.wait \in Nat /\ v.playing \in BOOLEAN
      /\ v.stopAt \in Time /\ v.stopping \in 0 .. 2 /\ v.wait \in Time /\ v.wait # Never
  BY Sizes DEF TransportIInv, TypeOK, VoiceRec, Time, Never
<1>2. /\ v' = Passed(v) /\ mix' = Silence /\ due' = Later(due) /\ since' = {} /\ use' = use /\ hold' = hold
      /\ ~(v.active /\ v.playing) \/ v.wait >= Block
  BY Zenon DEF Idle, Clock, Sounding
<1>3. /\ v' \in VoiceRec /\ v'.active = v.active /\ v'.playing = v.playing /\ v'.snd = v.snd
      /\ v'.stopping = v.stopping /\ v'.gate = v.gate /\ v'.level = v.level
      /\ v'.wait = Later(v.wait) /\ v'.stopAt = Later(v.stopAt)
  BY <1>1, <1>2, PassedIs
<1>4. mix' \in BlockRec /\ mix'.to = 0 /\ mix'.step = "silent"
  BY <1>2, SilenceIs
<1>5. due' \in Time
  BY <1>1, <1>2, LaterIs
<1>6. TypeOK'
  BY <1>2, <1>3, <1>4, <1>5 DEF TransportIInv, TypeOK
<1>7. CASE ~v.playing
  BY <1>3, <1>4, <1>6, <1>7 DEF TransportIInv, Levels, Deadlines
<1>8. CASE v.playing
  <2>1. v.wait >= Block /\ v.level = 0
    BY <1>1, <1>2, <1>8 DEF TransportIInv, TypeOK, Levels
  <2>2. v'.wait = v.wait - Block
    BY <1>1, <1>3, <2>1, LaterIs
  <2>3. v.gate \in 0 .. 1
    BY <1>1 DEF VoiceRec
  <2>4. v'.level = 0 /\ v'.gate * v'.level = 0
    BY <1>3, <2>1, <2>3
  <2>5. Levels'
    BY <1>2, <1>4, <2>4 DEF Levels
  <2>6. Deadlines'
    <3>1. CASE v.stopping = 0 /\ v.stopAt = Never
      <4>1. due = Never
        BY <1>8, <3>1 DEF TransportIInv, Deadlines
      <4>2. due' = Never /\ v'.stopAt = Never
        BY <1>1, <1>2, <1>3, <3>1, <4>1, LaterIs
      <4> QED BY <1>3, <3>1, <4>2 DEF Deadlines
    <3>2. CASE v.stopping = 0 /\ v.stopAt # Never
      <4>1. v.stopAt \in Nat
        BY <1>1, <3>2 DEF Time
      <4>2. PICK x \in Nat : x = (IF v.stopAt > v.wait THEN v.stopAt ELSE v.wait)
        BY <1>1, <4>1
      <4>3. due = x + Block /\ x >= Block
        BY <1>1, <1>8, <2>1, <3>2, <4>1, <4>2 DEF TransportIInv, Deadlines
      <4>4. due' = x
        BY <1>1, <1>2, <2>1, <4>3, LaterIs DEF Time, Never
      <4>5. PICK a \in Nat : /\ a = v'.stopAt /\ a # Never
                             /\ a = IF v.stopAt > Block THEN v.stopAt - Block ELSE 0
        BY <1>1, <1>3, <3>2, <4>1, LaterIs DEF Never
      <4>6. (IF a > v'.wait THEN a ELSE v'.wait) + Block = x
        BY <1>1, <2>1, <2>2, <4>1, <4>2, <4>5
      <4> QED BY <1>3, <3>2, <4>4, <4>5, <4>6 DEF Deadlines
    <3>3. CASE v.stopping # 0
      <4>1. due \in Nat /\ due # Never /\ due >= v.wait + Block
        BY <1>1, <1>8, <2>1, <3>3 DEF TransportIInv, Deadlines, Time
      <4>2. due' = due - Block
        BY <1>1, <1>2, <2>1, <4>1, LaterIs
      <4>3. due' # Never /\ due' >= v'.wait + Block
        BY <1>1, <2>1, <2>2, <4>1, <4>2 DEF Never
      <4> QED BY <1>3, <3>3, <4>3 DEF Deadlines
    <3> QED BY <3>1, <3>2, <3>3
  <2> QED BY <1>4, <1>6, <2>5, <2>6 DEF TransportIInv
<1> QED BY <1>1, <1>7, <1>8

\* A stopped voice is over, a stolen one has given its slot back.
LEMMA FinalizeIs ==
    ASSUME TransportIInv, Finalize
    PROVE  /\ TransportIInv' /\ mix'.step = "silent" /\ ~v'.playing
           /\ v.stopping = 2 => mix'.ended
<1>1. v \in VoiceRec /\ v.snd \in Sounds /\ due \in Time /\ v.stopping \in 0 .. 2
  BY DEF TransportIInv, TypeOK, Finalize, Runs, Sounding, VoiceRec
<1> PICK p : p = Passed(Now)
  OBVIOUS
<1>2. PICK x \in BOOLEAN : x = (Now.stopping = 2)
  BY Zenon
<1>3. PICK y \in BOOLEAN : y = (Now.stopping # 2)
  BY Zenon
<1>4. /\ v' = [p EXCEPT !.playing = FALSE, !.stopping = 0, !.active = y]
      /\ mix' = [Silence EXCEPT !.ended = x] /\ due' = Later(due) /\ since' = {} /\ use' = use /\ hold' = hold
  <2>1. v' = [Passed(Now) EXCEPT !.playing = FALSE, !.stopping = 0, !.active = Now.stopping # 2]
        /\ mix' = [Silence EXCEPT !.ended = Now.stopping = 2] /\ due' = Later(due) /\ since' = {} /\ use' = use /\ hold' = hold
    BY Zenon DEF Finalize, Clock
  <2> QED BY <1>2, <1>3, <2>1, Zenon
<1>5. Now \in VoiceRec /\ Now.snd = v.snd
  BY <1>1, NowIs
<1>6. p \in VoiceRec
  BY <1>5, PassedIs
<1>7. v' \in VoiceRec
  <2>1. PICK k \in 0 .. 2 : k = 0
    OBVIOUS
  <2>2. [p EXCEPT !.playing = FALSE, !.stopping = k, !.active = y] \in VoiceRec
    BY <1>3, <1>6, Zenon DEF VoiceRec
  <2> QED BY <1>4, <2>1, <2>2, Zenon
<1>8. ~v'.playing
  BY <1>4, <1>6 DEF VoiceRec
<1>9. mix' \in BlockRec /\ mix'.to = 0 /\ mix'.step = "silent" /\ mix'.ended = x
  BY <1>2, <1>4, SilenceIs
<1>10. due' \in Time
  BY <1>1, <1>4, LaterIs
<1>11. TypeOK'
  BY <1>4, <1>7, <1>8, <1>9, <1>10 DEF TransportIInv, TypeOK
<1>12. Levels' /\ Deadlines'
  BY <1>8, <1>9 DEF Levels, Deadlines
<1>13. v.stopping = 2 => x
  BY <1>1, <1>2, NowIs
<1> QED BY <1>8, <1>9, <1>11, <1>12, <1>13 DEF TransportIInv

LEMMA LandedLeaves == ASSUME v \in VoiceRec, v.snd \in Sounds PROVE Leaves(Landed) /\ Leaves(Now)
BY LandedIs, NowIs DEF Leaves

LEMMA FrozenIs == ASSUME TransportIInv, Frozen PROVE TransportIInv' /\ mix'.step = "silent"
<1>1. v \in VoiceRec /\ v.snd \in Sounds /\ due \in Time /\ v.active /\ Runs /\ Now.stopping = 0 /\ Now.gate = 0
  BY DEF TransportIInv, TypeOK, Frozen, Runs, Sounding, Quiet
<1>2. PICK r : r = Landed
  OBVIOUS
<1>3. Leaves(r)
  BY <1>1, <1>2, LandedLeaves
<1>4. v' = Passed(r) /\ mix' = Silence /\ due' = Later(due) /\ since' = {} /\ use' = use /\ hold' = hold
  BY <1>2, Zenon DEF Frozen, Clock
<1>5. r \in VoiceRec
  BY <1>3 DEF Leaves
<1>6. /\ v' \in VoiceRec /\ v'.active = r.active /\ v'.playing = r.playing /\ v'.snd = r.snd
      /\ v'.stopping = r.stopping /\ v'.gate = r.gate /\ v'.level = r.level
      /\ v'.wait = Later(r.wait) /\ v'.stopAt = Later(r.stopAt)
  BY <1>4, <1>5, PassedIs
<1>7. Deadlines' /\ due' \in Time /\ Later(r.wait) = 0
  <2>1. r.stopping = 0
    BY <1>1, <1>3 DEF Leaves
  <2> QED BY <1>1, <1>3, <1>4, <1>6, <2>1, DeadlineAfter
<1>8. mix' \in BlockRec /\ mix'.to = 0 /\ mix'.step = "silent"
  BY <1>4, SilenceIs
<1>9. v'.active /\ v'.snd \in Sounds
  BY <1>1, <1>3, <1>6, NowIs DEF Leaves
<1>10. TypeOK'
  BY <1>4, <1>6, <1>7, <1>8, <1>9 DEF TransportIInv, TypeOK
<1>11. v'.gate = 0 /\ v'.level \in 0 .. 1 /\ v'.wait = 0
  BY <1>1, <1>3, <1>5, <1>6, <1>7 DEF Leaves, VoiceRec
<1>12. Levels'
  BY <1>4, <1>8, <1>11 DEF Levels
<1> QED BY <1>7, <1>8, <1>10, <1>12 DEF TransportIInv

\* A block that is mixed.
LEMMA MixBlockIs ==
    ASSUME TransportIInv, Runs, NEW r, Leaves(r), NEW to \in 0 .. 1, MixBlock(r, to), r.stopping # 0 => to = 0
    PROVE  /\ TransportIInv' /\ mix'.step = "mixed" /\ mix'.from = v.gate * v.level
           /\ MixedOK(r, Mixed(r)) /\ mix'.heard = Mixed(r).heard /\ mix'.far = Mixed(r).far
<1>1. v \in VoiceRec /\ v.snd \in Sounds /\ due \in Time /\ v.active /\ r \in VoiceRec /\ v.wait < Block
  BY DEF TransportIInv, TypeOK, Runs, Sounding, Leaves
<1>2. r.snd \in Sounds /\ r.wait < Block /\ r.gate = v.gate /\ r.level = v.level /\ r.active
  BY <1>1, NowIs DEF Leaves
<1>3. PICK m : m = Mixed(r)
  OBVIOUS
<1>4. MixedOK(r, m)
  BY <1>1, <1>2, <1>3, MixedIs
<1>5. /\ m.snd \in Sounds /\ m.cur \in Nat /\ m.loop \in BOOLEAN /\ m.queue \in Seq(Entry) /\ m.over \in BOOLEAN
      /\ m.heard \in Seq(Played) /\ m.far \in Int /\ m.looped \in Int
  BY <1>4 DEF MixedOK, MixRec
<1>6. PICK p \in VoiceRec : p = Passed(r)
  BY <1>1, PassedIs
<1>7. PICK y \in BOOLEAN : y = ~m.over
  BY <1>5
<1>8. /\ v' = [p EXCEPT !.gate = to, !.level = 1, !.snd = m.snd, !.cursor = m.cur, !.loop = m.loop,
                        !.queue = m.queue, !.playing = y]
      /\ due' = Later(due) /\ since' = {} /\ use' = use /\ hold' = hold
  BY <1>3, <1>6, <1>7 DEF MixBlock, Clock
<1>9. mix' = [step |-> "mixed", heard |-> m.heard, far |-> m.far, from |-> r.gate * r.level, to |-> to,
              looped |-> m.looped, done |-> m.over, ended |-> FALSE]
  BY <1>3 DEF MixBlock
<1>10. v' \in VoiceRec
  <2>1. PICK l \in 0 .. 1, n \in Sounds \cup {None} : l = 1 /\ n = m.snd
    BY <1>5
  <2>2. PICK c, o, q : c = m.cur /\ o = m.loop /\ q = m.queue
    OBVIOUS
  <2>3. c \in Nat /\ o \in BOOLEAN /\ q \in Seq(Entry)
    BY <1>5, <2>2
  <2>4. PICK w : w = [p EXCEPT !.gate = to, !.level = l, !.snd = n]
    OBVIOUS
  <2>5. w \in VoiceRec
    BY <1>6, <2>4, Zenon DEF VoiceRec
  <2>6. [w EXCEPT !.cursor = c, !.loop = o, !.queue = q, !.playing = y] \in VoiceRec
    <3>1. PICK u : u = [w EXCEPT !.cursor = c, !.loop = o]
      OBVIOUS
    <3>2. u \in VoiceRec
      BY <2>3, <2>5, <3>1, Zenon DEF VoiceRec
    <3>3. [u EXCEPT !.queue = q, !.playing = y] \in VoiceRec
      BY <1>7, <2>3, <3>2, Zenon DEF VoiceRec
    <3> QED BY <3>1, <3>3
  <2>7. v' = [w EXCEPT !.cursor = c, !.loop = o, !.queue = q, !.playing = y]
    BY <1>8, <2>1, <2>2, <2>4
  <2> QED BY <2>6, <2>7, Zenon
<1>11. v'.gate = to /\ v'.level = 1 /\ v'.snd = m.snd /\ v'.playing = y /\ v'.active = p.active
       /\ v'.stopping = p.stopping /\ v'.wait = p.wait /\ v'.stopAt = p.stopAt
  BY <1>6, <1>8, Zenon DEF VoiceRec
<1>12. p.active = r.active /\ p.stopping = r.stopping /\ p.wait = Later(r.wait) /\ p.stopAt = Later(r.stopAt)
  BY <1>1, <1>6, PassedIs
<1>13. Deadlines' /\ due' \in Time /\ Later(r.wait) = 0
  BY <1>8, <1>11, <1>12, DeadlineAfter
<1>14. PICK f \in 0 .. 1 : f = r.gate * r.level
  <2>1. r.gate \in 0 .. 1 /\ r.level \in 0 .. 1
    BY <1>1 DEF VoiceRec
  <2> QED BY <2>1
<1>15. mix' \in BlockRec
  <2>1. mix' = [step |-> "mixed", heard |-> m.heard, far |-> m.far, from |-> f, to |-> to,
                looped |-> m.looped, done |-> m.over, ended |-> FALSE]
    BY <1>9, <1>14
  <2> QED BY <1>5, <2>1 DEF BlockRec
<1>16. mix'.step = "mixed" /\ mix'.from = v.gate * v.level /\ mix'.to = to /\ mix'.done = m.over
       /\ mix'.heard = m.heard /\ mix'.far = m.far
  BY <1>2, <1>9, Zenon
<1>17. TypeOK'
  BY <1>2, <1>5, <1>8, <1>10, <1>11, <1>12, <1>13, <1>15 DEF TransportIInv, TypeOK
<1>18. v'.gate * v'.level = to /\ v'.wait = 0
  BY <1>11, <1>12, <1>13
<1>19. Levels'
  <2>1. "cut" \notin since' /\ mix'.to = to
    BY <1>8, <1>16
  <2>2. v'.wait > 0 => v'.level = 0
    BY <1>18
  <2>3. v'.gate * v'.level = IF "cut" \in since' THEN 0 ELSE mix'.to
    BY <1>18, <2>1
  <2>4. ~mix'.done => v'.playing
    BY <1>7, <1>11, <1>16
  <2> QED BY <2>2, <2>3, <2>4 DEF Levels
<1> QED BY <1>3, <1>4, <1>13, <1>16, <1>17, <1>19 DEF TransportIInv

\* The two blocks that mix: one after a seek has landed, and any other.
LEMMA MixesIs ==
    ASSUME TransportIInv, Land \/ Sound
    PROVE  /\ TransportIInv' /\ mix'.step = "mixed" /\ mix'.from = v.gate * v.level
           /\ MixedOK(Base, Mixed(Base)) /\ mix'.heard = Mixed(Base).heard /\ mix'.far = Mixed(Base).far
           /\ Leaves(Base) /\ Runs /\ (Base.stopping # 0 => ~Quiet)
<1>1. Runs /\ v \in VoiceRec /\ v.snd \in Sounds
  BY DEF Land, Sound, TransportIInv, TypeOK, Runs, Sounding
<1>2. CASE Land
  <2>1. Quiet /\ Now.stopping = 0 /\ MixBlock(Landed, 1) /\ Base = Landed
    BY <1>2 DEF Land, Base
  <2>2. Leaves(Landed) /\ Landed.stopping = 0
    BY <1>1, <2>1, LandedLeaves DEF Leaves
  <2>3. 1 \in 0 .. 1
    OBVIOUS
  <2> QED BY <1>1, <2>1, <2>2, <2>3, MixBlockIs
<1>3. CASE Sound
  <2>1. ~Quiet /\ MixBlock(Now, Target) /\ Base = Now
    BY <1>3 DEF Sound, Base
  <2>2. Leaves(Now)
    BY <1>1, LandedLeaves
  <2>3. Target \in 0 .. 1 /\ (Now.stopping # 0 => Target = 0)
    BY DEF Target
  <2> QED BY <1>1, <2>1, <2>2, <2>3, MixBlockIs
<1> QED BY <1>2, <1>3

LEMMA TransportInit == Init => TransportIInv
<1> SUFFICES ASSUME Init PROVE TransportIInv
  OBVIOUS
<1>1. use \in Uses /\ v = Fresh /\ hold = FALSE /\ mix = Silence /\ due = Never /\ since = {}
  BY DEF Init
<1>2. v \in VoiceRec /\ ~v.playing /\ mix \in BlockRec /\ mix.to = 0
  BY <1>1, FreshIs, SilenceIs
<1>3. hold \in BOOLEAN /\ due \in Time /\ since \subseteq {"cut", "region"}
  BY <1>1, Unset
<1>4. TypeOK
  BY <1>1, <1>2, <1>3 DEF TypeOK
<1>5. Levels /\ Deadlines
  BY <1>2 DEF Levels, Deadlines
<1> QED BY <1>4, <1>5 DEF TransportIInv

\* Between blocks the gate, the gains and the deadline of a stop agree with what the last block and the
\* calls since made of them.
THEOREM TransportInvariant == Spec => []TransportIInv
<1>1. TransportIInv /\ [Next]_vars => TransportIInv'
  <2> SUFFICES ASSUME TransportIInv, [Next]_vars PROVE TransportIInv'
    OBVIOUS
  <2>1. CASE UNCHANGED vars
    BY <2>1 DEF vars, TransportIInv, TypeOK, Levels, Deadlines
  <2>2. CASE Client
    BY <2>2, ClientKeeps
  <2>3. CASE Render
    BY <2>3, IdleIs, FinalizeIs, FrozenIs, MixesIs DEF Render
  <2> QED BY <2>1, <2>2, <2>3 DEF Next
<1> QED BY <1>1, TransportInit, PTL DEF Spec

\* Which step it was.
LEMMA MixesWhen == ASSUME TransportIInv, Next, Mixes PROVE Land \/ Sound
BY ClientKeeps, IdleIs, FinalizeIs, FrozenIs DEF Mixes, Next, Render

\* No block reads outside its sound or past its region's end, at any rate, through any chain, with
\* any region set on any sound: MixedOK, sample after sample.
THEOREM ReadsInBoundsAlways == Spec => ReadsInBounds
<1>1. TransportIInv /\ [Next]_vars =>
      [Mixes =>
        LET b == LoopBeg(Base, Frames[Base.snd])
            e == LoopEnd(Base, Frames[Base.snd])
        IN  /\ mix'.far < 0
            /\ \A i \in DOMAIN mix'.heard : mix'.heard[i].pos \in 0 .. Frames[mix'.heard[i].snd] - 1
            /\ Base.loop => \A i \in DOMAIN mix'.heard :
                   /\ mix'.heard[i].pos < e
                   /\ i > 1 /\ mix'.heard[i].pos < b => mix'.heard[i].pos = mix'.heard[i - 1].pos + Base.rate
            /\ (Now.seek # Never /\ Quiet /\ Base.cursor # e /\ mix'.heard # <<>>) =>
                   mix'.heard[1].pos \in b .. e - 1]_vars
  <2> SUFFICES ASSUME TransportIInv, Next, Mixes
               PROVE  LET b == LoopBeg(Base, Frames[Base.snd])
                          e == LoopEnd(Base, Frames[Base.snd])
                      IN  /\ mix'.far < 0
                          /\ \A i \in DOMAIN mix'.heard : mix'.heard[i].pos \in 0 .. Frames[mix'.heard[i].snd] - 1
                          /\ Base.loop => \A i \in DOMAIN mix'.heard :
                                 /\ mix'.heard[i].pos < e
                                 /\ i > 1 /\ mix'.heard[i].pos < b => mix'.heard[i].pos = mix'.heard[i - 1].pos + Base.rate
                          /\ (Now.seek # Never /\ Quiet /\ Base.cursor # e /\ mix'.heard # <<>>) =>
                                 mix'.heard[1].pos \in b .. e - 1
    OBVIOUS
  <2> PICK r, m, b, e : /\ r = Base /\ m = Mixed(r)
                        /\ b = LoopBeg(r, Frames[r.snd]) /\ e = LoopEnd(r, Frames[r.snd])
    OBVIOUS
  <2>1. MixedOK(r, m) /\ mix'.heard = m.heard /\ mix'.far = m.far /\ Leaves(r)
    BY MixesWhen, MixesIs
  <2>2. Inside(m) /\ RoundAndRound(r, m) /\ StartsAt(r, m) /\ m \in MixRec
    BY <2>1 DEF MixedOK
  <2>3. m.far < 0
    BY <2>2 DEF Inside
  <2>4. ASSUME NEW i \in DOMAIN m.heard PROVE m.heard[i].pos \in 0 .. Frames[m.heard[i].snd] - 1
    <3>1. m.heard \in Seq(Played)
      BY <2>2 DEF MixRec
    <3>2. PICK x \in Played : x = m.heard[i]
      BY <3>1
    <3>3. x.pos \in Nat /\ Frames[x.snd] \in Nat
      BY Sizes DEF Played
    <3>4. x.pos < Frames[x.snd]
      BY <2>2, <3>2 DEF Inside
    <3> QED BY <3>2, <3>3, <3>4
  <2>5. r.loop => \A i \in DOMAIN m.heard :
            /\ m.heard[i].pos < e
            /\ i > 1 /\ m.heard[i].pos < b => m.heard[i].pos = m.heard[i - 1].pos + r.rate
    BY <2>2 DEF RoundAndRound
  <2>6. ASSUME Now.seek # Never, Quiet, r.cursor # e, m.heard # <<>> PROVE m.heard[1].pos \in b .. e - 1
    <3>1. r = Landed
      BY <2>6 DEF Base
    <3>2. v \in VoiceRec /\ v.snd \in Sounds
      BY MixesWhen, MixesIs DEF TransportIInv, TypeOK, Runs, Sounding
    <3>3. r.cursor \in b .. e
      BY <2>6, <3>1, <3>2, LandedIs
    <3>4. b \in Nat /\ e \in Nat
      <4>1. r \in VoiceRec /\ r.snd \in Sounds
        BY <2>1, <3>2, NowIs DEF Leaves
      <4> QED BY <4>1, RegionIn
    <3>5. r.cursor < e
      BY <2>6, <3>3, <3>4
    <3>6. m.heard[1].pos = r.cursor
      BY <2>2, <2>6, <3>5 DEF StartsAt
    <3> QED BY <3>3, <3>4, <3>5, <3>6
  <2> QED BY <2>1, <2>3, <2>4, <2>5, <2>6
<1> QED BY <1>1, TransportInvariant, PTL DEF Spec, ReadsInBounds

\* However the stop came about, the deadline is kept: a due voice that plays has its gate at 0, so the
\* block finalizes it, and gives its slot back if it was stolen (Deadlines); one that no longer plays is
\* idle and gives nothing back; and a voice on its way out never moves on to what is queued (StaysOut).
THEOREM StopsOnTimeAlways == Spec => StopsOnTime
<1>1. TransportIInv /\ [Next]_vars =>
      [Renders =>
        /\ due \in 0 .. Block - 1 => ~Mixes /\ ~v'.playing /\ (v.stopping = 2 => mix'.ended = v.playing)
        /\ (Mixes /\ Now.stopping # 0) => \A i \in DOMAIN mix'.heard : mix'.heard[i].snd = v.snd]_vars
  <2> SUFFICES ASSUME TransportIInv, Next, Renders
               PROVE  /\ due \in 0 .. Block - 1 => ~Mixes /\ ~v'.playing /\ (v.stopping = 2 => mix'.ended = v.playing)
                      /\ (Mixes /\ Now.stopping # 0) => \A i \in DOMAIN mix'.heard : mix'.heard[i].snd = v.snd
    OBVIOUS
  <2>1. v \in VoiceRec /\ Block \in Nat \ {0} /\ v.wait \in Nat /\ v.playing \in BOOLEAN /\ v.stopAt \in Time
    BY Sizes DEF TransportIInv, TypeOK, VoiceRec
  <2>2. Render
    BY ClientKeeps DEF Next, Renders
  <2>3. ASSUME due \in 0 .. Block - 1 PROVE ~Mixes /\ ~v'.playing /\ (v.stopping = 2 => mix'.ended = v.playing)
    <3>1. CASE ~v.playing
      <4>1. Idle
        BY <2>2, <3>1 DEF Render, Finalize, Frozen, Land, Sound, Runs, Sounding
      <4>2. v' = Passed(v) /\ mix'.step = "silent" /\ mix' = Silence
        BY <4>1, IdleIs DEF Idle
      <4>3. mix'.ended = FALSE
        BY <4>2 DEF Silence
      <4> QED BY <2>1, <3>1, <4>2, <4>3, PassedIs DEF Mixes
    <3>2. CASE v.playing
      <4>1. due # Never /\ due \in Nat
        BY <2>1, <2>3 DEF Never
      <4>2. v.stopping # 0
        <5>1. CASE v.stopping = 0 /\ v.stopAt = Never
          BY <3>2, <4>1, <5>1 DEF TransportIInv, Deadlines
        <5>2. CASE v.stopping = 0 /\ v.stopAt # Never
          <6>1. v.stopAt \in Nat
            BY <2>1, <5>2 DEF Time
          <6> QED BY <2>1, <2>3, <3>2, <5>2, <6>1 DEF TransportIInv, Deadlines
        <5> QED BY <5>1, <5>2
      <4>3. v.gate = 0 /\ v.wait = 0
        BY <2>1, <2>3, <3>2, <4>1, <4>2 DEF TransportIInv, Deadlines
      <4>4. Now.stopping # 0 /\ Now.gate = 0
        BY <2>1, <4>2, <4>3, NowIs
      <4>5. Quiet
        BY <4>4 DEF Quiet, Target
      <4>6. v.active
        BY <3>2 DEF TransportIInv, TypeOK
      <4>7. Finalize
        BY <2>1, <2>2, <3>2, <4>3, <4>4, <4>5, <4>6 DEF Render, Idle, Frozen, Land, Sound, Sounding
      <4>8. mix'.ended \in BOOLEAN
        BY <4>7, FinalizeIs DEF TransportIInv, TypeOK, BlockRec
      <4> QED BY <3>2, <4>7, <4>8, FinalizeIs DEF Mixes
    <3> QED BY <3>1, <3>2
  <2>4. ASSUME Mixes, Now.stopping # 0 PROVE \A i \in DOMAIN mix'.heard : mix'.heard[i].snd = v.snd
    <3> PICK r, m : r = Base /\ m = Mixed(r)
      OBVIOUS
    <3>1. MixedOK(r, m) /\ mix'.heard = m.heard /\ Leaves(r)
      BY <2>4, MixesWhen, MixesIs
    <3>2. r.stopping # 0 /\ r.snd = v.snd
      BY <2>1, <2>4, <3>1, NowIs DEF Leaves
    <3> QED BY <3>1, <3>2 DEF MixedOK, StaysOut
  <2> QED BY <2>3, <2>4
<1> QED BY <1>1, TransportInvariant, PTL DEF Spec, StopsOnTime

\* The level never jumps: a voice heard at full level is still playing with its gate at 1 when the
\* next block begins, unless its content was cut or ended, and then it must be mixed (Levels).
THEOREM ClickFreeAlways == Spec => ClickFree
<1>1. TransportIInv /\ [Next]_vars =>
      [Renders =>
        LET was == IF "cut" \in since THEN 0 ELSE mix.to
        IN  IF Mixes THEN mix'.from = was ELSE was = 0 \/ mix.done]_vars
  <2> SUFFICES ASSUME TransportIInv, Next, Renders
               PROVE  LET was == IF "cut" \in since THEN 0 ELSE mix.to
                      IN  IF Mixes THEN mix'.from = was ELSE was = 0 \/ mix.done
    OBVIOUS
  <2> PICK was : was = IF "cut" \in since THEN 0 ELSE mix.to
    OBVIOUS
  <2>1. ASSUME Mixes PROVE mix'.from = was
    <3>1. mix'.from = v.gate * v.level /\ v.playing
      BY <2>1, MixesWhen, MixesIs DEF Runs, Sounding
    <3> QED BY <3>1 DEF TransportIInv, Levels
  <2>2. ASSUME ~Mixes, was # 0, ~mix.done PROVE FALSE
    <3>1. "cut" \notin since /\ mix.to = 1
      BY <2>2 DEF TransportIInv, TypeOK, BlockRec
    <3>2. v.playing /\ v.gate * v.level = 1
      BY <2>2, <3>1 DEF TransportIInv, Levels
    <3>3. v.gate \in 0 .. 1 /\ v.level \in 0 .. 1 /\ v.wait \in Nat /\ Block \in Nat \ {0} /\ v \in VoiceRec
      BY Sizes DEF TransportIInv, TypeOK, VoiceRec
    <3>4. v.gate = 1 /\ v.level = 1
      BY <3>2, <3>3
    <3>5. v.wait = 0 /\ v.active
      BY <3>2, <3>3, <3>4 DEF TransportIInv, TypeOK, Levels
    <3>6. ~Quiet
      BY <3>3, <3>4, NowIs DEF Quiet
    <3>7. Render
      BY ClientKeeps DEF Next, Renders
    <3>8. Sound
      BY <3>2, <3>3, <3>5, <3>6, <3>7 DEF Render, Idle, Finalize, Frozen, Land, Sounding
    <3> QED BY <2>2, <3>8, MixesIs DEF Mixes
  <2> QED BY <2>1, <2>2
<1> QED BY <1>1, TransportInvariant, PTL DEF Spec, ClickFree
=============================================================================
