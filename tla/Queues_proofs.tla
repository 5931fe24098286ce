--------------------------- MODULE Queues_proofs ---------------------------
(***************************************************************************)
(* What is proved of the queues.  For all sizes of the sound buffers that  *)
(* leave room for a frame: samples are heard in the order they were mixed, *)
(* with a gap only where frames ran unsynced, a wait timed out, or the     *)
(* console was stopped or reset.  For every capacity and every set of      *)
(* words: the counters of FIFO.h agree and the ring implements the bounded *)
(* queue.  For every queue depth and all programs: the registers of the    *)
(* IPC keep their types, the cached interrupt line says what the registers *)
(* say, and a CPU is told of waiting words and of an empty queue.  For two *)
(* programs driven by these interrupts: each receives what the other       *)
(* sends.                                                                  *)
(***************************************************************************)
EXTENDS Geometry_proofs

-----------------------------------------------------------------------------
(***************************************************************************)
(* The way of the sound to the host.                                       *)
(***************************************************************************)

Samples == Numbers \cup {Silence}
\* The slot k places after position r.
Slot(r, k) == IF r + k < RingSize THEN r + k ELSE r + k - RingSize

\* The sizes of the buffers.
LEMMA Capacities ==
  /\ RingSize \in Nat /\ BackLimit \in Nat /\ SyncLimit \in Nat /\ Modulus \in Nat
  /\ BackLimit > 0 /\ SyncLimit > 0 /\ SyncLimit + BackLimit < RingSize /\ RingSize < Modulus
  /\ ReadSizes \subseteq Nat \ {0} /\ Silence \notin Numbers /\ Numbers \subseteq Samples
  BY SpuAssumption DEF SpuAssumption, Numbers, Silence, Samples

\* A position is taken round the ring once at most.
LEMMA WrapsOnce ==
  ASSUME NEW n \in Nat \ {0}, NEW a \in 0 .. 2 * n - 1
  PROVE  a % n = IF a < n THEN a ELSE a - n
  OBVIOUS

\* The slot k places on.
LEMMA SlotIs ==
  ASSUME NEW r \in RingSlots, NEW k \in 0 .. RingSize
  PROVE  (r + k) % RingSize = Slot(r, k) /\ Slot(r, k) \in RingSlots
<1>1. r + k \in 0 .. 2 * RingSize - 1 /\ RingSize \in Nat \ {0}
  BY Capacities DEF RingSlots
<1>2. \A a \in 0 .. 2 * RingSize - 1 : a % RingSize = IF a < RingSize THEN a ELSE a - RingSize
  BY <1>1, WrapsOnce
<1> QED BY <1>1, <1>2, Capacities DEF Slot, RingSlots

\* Numbers are followed by numbers.
LEMMA AfterType == \A sample \in Int : After(sample) \in Numbers
<1>1. Modulus \in Nat \ {0}
  BY Capacities
<1> QED BY <1>1 DEF After, Numbers

-----------------------------------------------------------------------------
(* Into the ring *)
Rings == [ring : [RingSlots -> Samples], r : RingSlots, w : RingSlots]
Between(r, w) == IF w >= r THEN w - r ELSE RingSize - r + w
Filled(s) == Between(s.r, s.w)
At(s, k) == s.ring[Slot(s.r, k - 1)]

\* A sample goes in behind the others, and pushes out d of them.
Pushed(s, sample, new, d) ==
  /\ Filled(new) = Filled(s) + 1 - d /\ (d > 0 => Filled(new) = RingSize - 1)
  /\ new.r = Slot(s.r, d)
  /\ \A k \in 1 .. Filled(new) : At(new, k) = IF k + d <= Filled(s) THEN At(s, k + d) ELSE sample

\* The slot written next is the one behind the last sample,
LEMMA RoomBehind ==
  ASSUME NEW r \in RingSlots, NEW w \in RingSlots, Slot(w, 1) # r
  PROVE  /\ Between(r, Slot(w, 1)) = Between(r, w) + 1 /\ Between(r, w) \in Nat /\ Slot(r, 0) = r
         /\ \A k \in 1 .. Between(r, w) + 1 : /\ Slot(r, k - 1) \in RingSlots
                                              /\ Slot(r, k - 1) = w <=> k = Between(r, w) + 1
<1>1. RingSize \in Nat /\ r \in 0 .. RingSize - 1 /\ w \in 0 .. RingSize - 1
  BY Capacities DEF RingSlots
<1> QED BY <1>1 DEF Between, Slot, RingSlots

\* and when the ring is full behind it is the first one.
LEMMA NoRoomBehind ==
  ASSUME NEW r \in RingSlots, NEW w \in RingSlots, Slot(w, 1) = r
  PROVE  /\ Between(r, w) = RingSize - 1 /\ Between(Slot(r, 1), r) = RingSize - 1
         /\ \A k \in 1 .. RingSize - 1 : /\ Slot(Slot(r, 1), k - 1) = Slot(r, k) /\ Slot(r, k) \in RingSlots
                                         /\ Slot(r, k) = w <=> k = RingSize - 1
<1>1. RingSize \in Nat /\ RingSize > 2 /\ r \in 0 .. RingSize - 1 /\ w \in 0 .. RingSize - 1
  BY Capacities DEF RingSlots
<1> QED BY <1>1 DEF Between, Slot, RingSlots

\* TransferOutput writes a sample, and pushes the reader on if the ring is full.
LEMMA PutKeeps ==
  ASSUME NEW s \in Rings, NEW sample \in Samples
  PROVE  Put(s, sample) \in Rings /\ \E d \in {0, 1} : Pushed(s, sample, Put(s, sample), d)
<1> DEFINE new == Put(s, sample)
           written == Slot(s.w, 1)
<1>1. /\ s.ring \in [RingSlots -> Samples] /\ s.r \in RingSlots /\ s.w \in RingSlots
      /\ RingSize \in Nat /\ RingSize > 2
  BY Capacities DEF Rings
<1>2. Ahead(s.w) = written /\ Ahead(s.r) = Slot(s.r, 1) /\ written \in RingSlots /\ Slot(s.r, 1) \in RingSlots
  BY <1>1, SlotIs DEF Ahead
<1>3. /\ new.ring = [s.ring EXCEPT ![s.w] = sample] /\ new.w = written
      /\ new.r = IF written = s.r THEN Slot(s.r, 1) ELSE s.r
      /\ new \in Rings
  <2>1. new = [[s EXCEPT !.ring[s.w] = sample] EXCEPT !.w = written,
                                                      !.r = IF written = s.r THEN Slot(s.r, 1) ELSE s.r]
    BY <1>2 DEF Put, Push, Rings
  <2> DEFINE ring1 == [s.ring EXCEPT ![s.w] = sample]
             r1 == IF written = s.r THEN Slot(s.r, 1) ELSE s.r
  <2>2. ring1 \in [RingSlots -> Samples] /\ r1 \in RingSlots
    BY <1>1, <1>2
  <2>3. [s EXCEPT !.ring[s.w] = sample] = [ring |-> ring1, r |-> s.r, w |-> s.w]
    BY DEF Rings
  <2>4. new = [ring |-> ring1, r |-> r1, w |-> written]
    BY <2>1, <2>3
  <2> HIDE DEF written, ring1, r1, new
  <2>5. new \in Rings /\ new.ring = ring1 /\ new.r = r1 /\ new.w = written
    BY <1>2, <2>2, <2>4 DEF Rings
  <2> QED BY <2>5 DEF ring1, r1
<1> HIDE DEF new
<1>4. CASE written # s.r
  <2>1. Filled(new) = Filled(s) + 1 /\ new.r = Slot(s.r, 0)
    BY <1>1, <1>3, <1>4, RoomBehind DEF Filled
  <2>2. ASSUME NEW k \in 1 .. Filled(new)
        PROVE  At(new, k) = IF k + 0 <= Filled(s) THEN At(s, k + 0) ELSE sample
    <3>1. /\ Slot(s.r, k - 1) \in RingSlots /\ Filled(s) \in Nat /\ k \in 1 .. Filled(s) + 1
          /\ Slot(s.r, k - 1) = s.w <=> k = Filled(s) + 1
      BY <1>1, <1>4, <2>1, RoomBehind DEF Filled
    <3>2. new.r = s.r
      BY <1>3, <1>4
    <3> QED BY <1>1, <1>3, <3>1, <3>2 DEF At
  <2>3. Pushed(s, sample, new, 0)
    BY <2>1, <2>2 DEF Pushed
  <2> QED BY <1>3, <2>3 DEF new
<1>5. CASE written = s.r
  <2>1. Filled(s) = RingSize - 1 /\ Filled(new) = RingSize - 1 /\ new.r = Slot(s.r, 1)
    BY <1>1, <1>3, <1>5, NoRoomBehind DEF Filled
  <2>2. ASSUME NEW k \in 1 .. Filled(new)
        PROVE  At(new, k) = IF k + 1 <= Filled(s) THEN At(s, k + 1) ELSE sample
    <3>1. /\ k \in 1 .. RingSize - 1 /\ k + 1 - 1 = k
          /\ Slot(new.r, k - 1) = Slot(s.r, k) /\ Slot(s.r, k) \in RingSlots
          /\ Slot(s.r, k) = s.w <=> k = RingSize - 1
      BY <1>1, <1>5, <2>1, NoRoomBehind
    <3> QED BY <1>1, <1>3, <2>1, <3>1 DEF At
  <2>3. Pushed(s, sample, new, 1)
    BY <1>1, <2>1, <2>2 DEF Pushed
  <2> QED BY <1>3, <2>3 DEF new
<1> QED BY <1>4, <1>5

\* The states a hand-over passes through.
LEMMA PutSteps ==
  ASSUME NEW s \in Rings, NEW b \in Seq(Samples)
  PROVE  \E h \in [0 .. Len(b) -> Rings] :
           /\ h[0] = s /\ h[Len(b)] = FoldLeft(Put, s, b)
           /\ \A k \in 1 .. Len(b) : h[k] = Put(h[k - 1], b[k])
<1> DEFINE n == Len(b)
           op == [x \in Rings \X Samples |-> Put(x[1], x[2])]
           Body(it) == [t \in SUBSET (1 .. n) |->
                          IF t = {} THEN s ELSE Put(it[t \ {Max(t)}], b[Max(t)])]
           iter == CHOOSE it : it = Body(it)
<1>1. n \in Nat /\ DOMAIN b = 1 .. n /\ \A k \in 1 .. n : b[k] \in Samples
  OBVIOUS
<1>2. op \in [Rings \X Samples -> Rings]
  BY PutKeeps
<1>3. PICK f \in [SUBSET (1 .. n) -> Rings] : \A t \in SUBSET (1 .. n) : FoldsTo(f, t, op, s, b)
  <2> HIDE DEF op
  <2> QED BY <1>2, FoldTable
<1>4. f = Body(f)
  <2> SUFFICES ASSUME NEW t \in SUBSET (1 .. n), t # {}
               PROVE  op[<<f[t \ {Max(t)}], b[Max(t)]>>] = Put(f[t \ {Max(t)}], b[Max(t)])
    BY <1>3 DEF FoldsTo
  <2>1. Max(t) \in t
    BY <1>1, TopIn
  <2> QED BY <1>1, <2>1
<1>5. iter = Body(iter)
  BY <1>4
<1>6. FoldLeft(Put, s, b) = iter[1 .. n]
  BY <1>1 DEF FoldLeft, MapThenFoldSet
<1> DEFINE h == [k \in 0 .. n |-> iter[1 .. k]]
<1> HIDE DEF iter
<1>7. h[0] = s
  BY <1>5
<1>8. ASSUME NEW k \in 1 .. n PROVE h[k] = Put(h[k - 1], b[k])
  <2>1. 1 .. k \in SUBSET (1 .. n) /\ k - 1 \in 0 .. n /\ k \in 0 .. n
    OBVIOUS
  <2>2. iter[1 .. k] = Put(iter[1 .. k - 1], b[k])
    <3>1. iter[1 .. k] = IF 1 .. k = {} THEN s
                         ELSE Put(iter[(1 .. k) \ {Max(1 .. k)}], b[Max(1 .. k)])
      BY <1>5, <2>1
    <3>2. Max(1 .. k) = k /\ (1 .. k) \ {k} = 1 .. k - 1 /\ 1 .. k # {}
      BY UpTo
    <3> QED BY <3>1, <3>2
  <2> QED BY <2>1, <2>2
<1> HIDE DEF h
<1>9. \A k \in 0 .. n : h[k] \in Rings
  <2> DEFINE S == {k \in 0 .. n : h[k] \in Rings}
  <2>1. 0 \in S
    BY <1>1, <1>7
  <2>2. ASSUME NEW k \in 0 .. n - 1, k \in S PROVE k + 1 \in S
    <3>1. k + 1 \in 1 .. n /\ (k + 1) - 1 = k
      BY <1>1
    <3> QED BY <1>1, <1>8, <2>2, <3>1, PutKeeps
  <2> HIDE DEF S
  <2>3. \A k \in 0 .. n : k \in S
    BY <1>1, <2>1, <2>2, CountUp
  <2> QED BY <2>3 DEF S
<1>10. h \in [0 .. n -> Rings]
  BY <1>9 DEF h
<1>11. h[n] = FoldLeft(Put, s, b)
  BY <1>1, <1>6 DEF h
<1> QED BY <1>7, <1>8, <1>10, <1>11

\* The ring holds fewer samples than it has slots.
LEMMA FilledIs == \A s \in Rings : Filled(s) \in 0 .. RingSize - 1
<1> SUFFICES ASSUME NEW s \in Rings PROVE Filled(s) \in 0 .. RingSize - 1
  OBVIOUS
<1>1. RingSize \in Nat /\ s.r \in 0 .. RingSize - 1 /\ s.w \in 0 .. RingSize - 1
  BY Capacities DEF Rings, RingSlots
<1> QED BY <1>1 DEF Filled, Between

\* Going on d places and then e more.
LEMMA SlotsAdd ==
  ASSUME NEW r \in RingSlots, NEW d \in Nat, NEW e \in {0, 1}, d < RingSize
  PROVE  Slot(Slot(r, d), e) = Slot(r, d + e) /\ Slot(r, d) \in RingSlots
<1>1. RingSize \in Nat /\ r \in 0 .. RingSize - 1 /\ RingSize > 2
  BY Capacities DEF RingSlots
<1>2. CASE e = 0
  BY <1>1, <1>2 DEF Slot, RingSlots
<1>3. CASE e = 1
  BY <1>1, <1>3 DEF Slot, RingSlots
<1> QED BY <1>2, <1>3

\* What is in the ring and in the sequence behind it, by places.
Queued(s, b, k) == IF k <= Filled(s) THEN At(s, k) ELSE b[k - Filled(s)]

\* k samples of b have gone into the ring, and have pushed out d.
Passed(s, b, k, new, d) ==
  /\ d \in 0 .. k /\ Filled(new) = Filled(s) + k - d /\ (d > 0 => Filled(new) = RingSize - 1)
  /\ new.r = Slot(s.r, d)
  /\ \A j \in 1 .. Filled(new) : At(new, j) = Queued(s, b, d + j)

\* One sample more.
LEMMA PassedOne ==
  ASSUME NEW s \in Rings, NEW b \in Seq(Samples), NEW k \in 0 .. Len(b) - 1, Len(b) < RingSize,
         NEW g \in Rings, NEW d, Passed(s, b, k, g, d),
         NEW new \in Rings, NEW e \in {0, 1}, Pushed(g, b[k + 1], new, e)
  PROVE  Passed(s, b, k + 1, new, d + e)
<1>1. /\ k \in Nat /\ Len(b) \in Nat /\ d \in Nat /\ d <= k /\ k < RingSize /\ RingSize \in Nat
      /\ Filled(s) \in Nat /\ Filled(g) \in Nat /\ Filled(new) \in Nat
      /\ s.r \in RingSlots
  BY FilledIs, Capacities DEF Passed, Rings
<1>2. /\ Filled(g) = Filled(s) + k - d /\ (d > 0 => Filled(g) = RingSize - 1) /\ g.r = Slot(s.r, d)
      /\ \A j \in 1 .. Filled(g) : At(g, j) = Queued(s, b, d + j)
  BY DEF Passed
<1>3. /\ Filled(new) = Filled(g) + 1 - e /\ (e > 0 => Filled(new) = RingSize - 1) /\ new.r = Slot(g.r, e)
      /\ \A j \in 1 .. Filled(new) : At(new, j) = IF j + e <= Filled(g) THEN At(g, j + e) ELSE b[k + 1]
  BY DEF Pushed
<1>4. new.r = Slot(s.r, d + e)
  <2>1. d < RingSize
    BY <1>1
  <2>2. Slot(Slot(s.r, d), e) = Slot(s.r, d + e)
    BY <1>1, <2>1, SlotsAdd
  <2> QED BY <1>2, <1>3, <2>2
<1>5. Filled(new) = Filled(s) + (k + 1) - (d + e) /\ d + e \in 0 .. k + 1
  BY <1>1, <1>2, <1>3
<1>6. d + e > 0 => Filled(new) = RingSize - 1
  <2>1. Filled(new) <= RingSize - 1
    BY <1>1, FilledIs
  <2>2. CASE e = 0
    BY <1>1, <1>2, <1>3, <2>1, <2>2
  <2>3. CASE e = 1
    BY <1>3, <2>3
  <2> QED BY <2>2, <2>3
<1>7. ASSUME NEW j \in 1 .. Filled(new) PROVE At(new, j) = Queued(s, b, (d + e) + j)
  <2>1. CASE j + e <= Filled(g)
    <3>1. j + e \in 1 .. Filled(g) /\ d + (j + e) = (d + e) + j
      BY <1>1, <2>1
    <3>2. At(new, j) = At(g, j + e)
      BY <1>3, <2>1
    <3> QED BY <1>2, <3>1, <3>2
  <2>2. CASE ~(j + e <= Filled(g))
    <3>1. At(new, j) = b[k + 1]
      BY <1>3, <2>2
    <3>2. (d + e) + j > Filled(s) /\ (d + e) + j - Filled(s) = k + 1 /\ (d + e) + j \in Nat
      <4>1. j \in Nat /\ j >= 1 /\ j <= Filled(g) + 1 - e /\ j + e > Filled(g)
        BY <1>1, <1>3, <2>2
      <4> DEFINE fs == Filled(s)
                 fg == Filled(g)
      <4>2. /\ fs \in Nat /\ fg \in Nat /\ fg = fs + k - d /\ j <= fg + 1 - e /\ j + e > fg
            /\ e \in Nat /\ d \in Nat /\ k \in Nat
        BY <1>1, <1>2, <4>1
      <4> HIDE DEF fs, fg
      <4>3. (d + e) + j > fs /\ (d + e) + j - fs = k + 1 /\ (d + e) + j \in Nat
        BY <4>1, <4>2
      <4> QED BY <4>3 DEF fs
    <3> QED BY <1>1, <3>1, <3>2 DEF Queued
  <2> QED BY <2>1, <2>2
<1> QED BY <1>4, <1>5, <1>6, <1>7 DEF Passed

\* At first none has.
LEMMA PassedNone ==
  ASSUME NEW s \in Rings, NEW b \in Seq(Samples)
  PROVE  Passed(s, b, 0, s, 0)
<1>1. Filled(s) \in Nat /\ s.r \in 0 .. RingSize - 1 /\ RingSize \in Nat
  BY FilledIs, Capacities DEF Rings, RingSlots
<1>2. s.r = Slot(s.r, 0)
  BY <1>1 DEF Slot
<1>3. \A j \in 1 .. Filled(s) : At(s, j) = Queued(s, b, 0 + j)
  BY <1>1 DEF Queued
<1> QED BY <1>1, <1>2, <1>3 DEF Passed

\* TransferOutput takes all of the back buffer over, and pushes out as many
\* samples as the ring has no room for.
LEMMA PassedAll ==
  ASSUME NEW s \in Rings, NEW b \in Seq(Samples), Len(b) < RingSize
  PROVE  FoldLeft(Put, s, b) \in Rings /\ \E d \in Nat : Passed(s, b, Len(b), FoldLeft(Put, s, b), d)
<1> DEFINE n == Len(b)
           last == FoldLeft(Put, s, b)
<1>1. PICK h \in [0 .. n -> Rings] : /\ h[0] = s /\ h[n] = last
                                     /\ \A k \in 1 .. n : h[k] = Put(h[k - 1], b[k])
  BY PutSteps
<1>2. n \in Nat /\ \A k \in 1 .. n : b[k] \in Samples
  OBVIOUS
<1> HIDE DEF last, n
<1> DEFINE S == {k \in 0 .. n : \E d \in Nat : Passed(s, b, k, h[k], d)}
<1>3. 0 \in S
  BY <1>1, <1>2, PassedNone
<1>4. ASSUME NEW k \in 0 .. n - 1, k \in S PROVE k + 1 \in S
  <2>1. PICK d \in Nat : Passed(s, b, k, h[k], d)
    BY <1>4
  <2>2. k + 1 \in 1 .. n /\ (k + 1) - 1 = k /\ k \in 0 .. n /\ k + 1 \in 0 .. n
    BY <1>2
  <2>3. h[k] \in Rings /\ h[k + 1] \in Rings /\ b[k + 1] \in Samples /\ h[k + 1] = Put(h[k], b[k + 1])
    BY <1>1, <1>2, <2>2
  <2>4. PICK e \in {0, 1} : Pushed(h[k], b[k + 1], h[k + 1], e)
    BY <2>3, PutKeeps
  <2>5. Passed(s, b, k + 1, h[k + 1], d + e)
    BY <2>1, <2>3, <2>4, PassedOne DEF n
  <2>6. d + e \in Nat
    OBVIOUS
  <2> QED BY <2>2, <2>5, <2>6
<1> HIDE DEF S
<1>5. \A k \in 0 .. n : k \in S
  BY <1>2, <1>3, <1>4, CountUp
<1>6. n \in S /\ n \in 0 .. n
  BY <1>2, <1>5
<1>7. \E d \in Nat : Passed(s, b, n, h[n], d)
  BY <1>6 DEF S
<1> QED BY <1>1, <1>6, <1>7 DEF last, n

-----------------------------------------------------------------------------
(* Samples in a row.  q is what waits to be heard, n the number of the sample *)
(* that is mixed next.                                                        *)

\* A sample of silence may wait, and then does so in front: the place of the
\* first one that was mixed, and its number.
First(q) == IF Len(q) > 0 /\ q[1] = Silence THEN 2 ELSE 1
Announced(q, n) == IF First(q) <= Len(q) THEN q[First(q)] ELSE n

InARow(q, n) ==
  /\ \A k \in First(q) .. Len(q) : q[k] \in Numbers
  /\ \A k \in First(q) .. Len(q) - 1 : q[k + 1] = After(q[k])
  /\ First(q) <= Len(q) => n = After(q[Len(q)])

\* That one may be heard after what was heard last.
Expected(q, n, allowed, last) ==
  \/ Announced(q, n) \in allowed
  \/ First(q) = 1 /\ Announced(q, n) = After(last)

\* q and one sample more.
Longer(new, q, n) ==
  /\ Len(new) = Len(q) + 1 /\ new[Len(new)] = n
  /\ \A k \in 1 .. Len(q) : new[k] = q[k]

\* q without its first d samples.
Later(new, q, d) ==
  /\ d \in 0 .. Len(q) /\ Len(new) = Len(q) - d
  /\ \A k \in 1 .. Len(new) : new[k] = q[k + d]

\* A sample that is mixed goes on where the last one ended.
LEMMA MixedInARow ==
  ASSUME NEW q \in Seq(Samples), NEW n \in Numbers, InARow(q, n),
         NEW new \in Seq(Samples), Longer(new, q, n)
  PROVE  InARow(new, After(n)) /\ First(new) = First(q) /\ Announced(new, After(n)) = Announced(q, n)
<1>1. /\ Len(q) \in Nat /\ Len(new) = Len(q) + 1 /\ new[Len(q) + 1] = n /\ n # Silence
      /\ \A k \in 1 .. Len(q) : new[k] = q[k]
  BY Capacities DEF Longer
<1>2. First(new) = First(q) /\ First(q) \in {1, 2} /\ First(q) <= Len(q) + 1
  <2>1. CASE Len(q) = 0
    BY <1>1, <2>1 DEF First
  <2>2. CASE Len(q) > 0
    BY <1>1, <2>2 DEF First
  <2> QED BY <1>1, <2>1, <2>2
<1>3. \A k \in First(q) .. Len(new) : new[k] \in Numbers
  BY <1>1, <1>2 DEF InARow
<1>4. ASSUME NEW k \in First(q) .. Len(new) - 1 PROVE new[k + 1] = After(new[k])
  <2>1. CASE k = Len(q)
    BY <1>1, <1>2, <2>1 DEF InARow
  <2>2. CASE k # Len(q)
    <3>1. k \in First(q) .. Len(q) - 1 /\ k \in 1 .. Len(q) /\ k + 1 \in 1 .. Len(q)
      BY <1>1, <1>2, <2>2
    <3> QED BY <1>1, <3>1 DEF InARow
  <2> QED BY <2>1, <2>2
<1>5. InARow(new, After(n))
  BY <1>1, <1>2, <1>3, <1>4 DEF InARow
<1>6. Announced(new, After(n)) = Announced(q, n)
  <2>1. CASE First(q) <= Len(q)
    BY <1>1, <1>2, <2>1 DEF Announced
  <2>2. CASE First(q) = Len(q) + 1
    BY <1>1, <1>2, <2>2 DEF Announced
  <2> QED BY <1>1, <1>2, <2>1, <2>2
<1> QED BY <1>2, <1>5, <1>6

\* So do the ones left when others are taken.
LEMMA LaterInARow ==
  ASSUME NEW q \in Seq(Samples), NEW n \in Numbers, InARow(q, n),
         NEW new \in Seq(Samples), NEW d \in Nat, d > 0, Later(new, q, d)
  PROVE  /\ InARow(new, n) /\ First(new) = 1
         /\ Announced(new, n) = IF d < First(q) THEN Announced(q, n) ELSE After(q[d])
         /\ Len(new) > 0 => Announced(new, n) = new[1] /\ new[1] \in Numbers
<1>1. /\ Len(q) \in Nat /\ d <= Len(q) /\ Len(new) = Len(q) - d /\ Len(new) \in Nat
      /\ \A k \in 1 .. Len(new) : new[k] = q[k + d]
  BY DEF Later
<1>2. First(q) \in {1, 2} /\ Silence \notin Numbers
  BY Capacities DEF First
<1>3. \A k \in 1 .. Len(new) : new[k] \in Numbers
  <2> SUFFICES ASSUME NEW k \in 1 .. Len(new) PROVE new[k] \in Numbers
    OBVIOUS
  <2>1. k + d \in First(q) .. Len(q)
    BY <1>1, <1>2
  <2> QED BY <1>1, <2>1 DEF InARow
<1>4. First(new) = 1
  BY <1>1, <1>2, <1>3 DEF First
<1>5. ASSUME NEW k \in 1 .. Len(new) - 1 PROVE new[k + 1] = After(new[k])
  <2>1. /\ k + d \in First(q) .. Len(q) - 1 /\ (k + d) + 1 = (k + 1) + d
        /\ k \in 1 .. Len(new) /\ k + 1 \in 1 .. Len(new)
    BY <1>1, <1>2
  <2>2. q[(k + d) + 1] = After(q[k + d])
    BY <2>1 DEF InARow
  <2> QED BY <1>1, <2>1, <2>2
<1>6. Len(new) > 0 => n = After(new[Len(new)])
  <2> SUFFICES ASSUME Len(new) > 0 PROVE n = After(new[Len(new)])
    OBVIOUS
  <2>1. First(q) <= Len(q) /\ Len(new) \in 1 .. Len(new) /\ Len(new) + d = Len(q)
    BY <1>1, <1>2
  <2> QED BY <1>1, <2>1 DEF InARow
<1>7. InARow(new, n)
  BY <1>1, <1>3, <1>4, <1>5, <1>6 DEF InARow
<1>8. Announced(new, n) = IF d < First(q) THEN Announced(q, n) ELSE After(q[d])
  <2>1. CASE Len(new) > 0
    <3>1. Announced(new, n) = q[d + 1]
      BY <1>1, <1>4, <2>1 DEF Announced
    <3>2. CASE d < First(q)
      <4>1. d = 1 /\ First(q) = 2 /\ First(q) <= Len(q)
        BY <1>1, <1>2, <2>1, <3>2
      <4> QED BY <3>1, <3>2, <4>1 DEF Announced
    <3>3. CASE ~(d < First(q))
      <4>1. d \in First(q) .. Len(q) - 1
        BY <1>1, <1>2, <2>1, <3>3
      <4> QED BY <3>1, <3>3, <4>1 DEF InARow
    <3> QED BY <3>2, <3>3
  <2>2. CASE Len(new) = 0
    <3>1. Announced(new, n) = n /\ d = Len(q)
      BY <1>1, <1>4, <2>2 DEF Announced
    <3>2. CASE d < First(q)
      BY <1>1, <1>2, <3>1, <3>2 DEF Announced
    <3>3. CASE ~(d < First(q))
      BY <1>1, <1>2, <3>1, <3>3 DEF InARow
    <3> QED BY <3>2, <3>3
  <2> QED BY <1>1, <2>1, <2>2
<1>9. Len(new) > 0 => Announced(new, n) = new[1] /\ new[1] \in Numbers
  BY <1>1, <1>3, <1>4 DEF Announced
<1> QED BY <1>4, <1>7, <1>8, <1>9

\* Without its first none a sequence is itself.
LEMMA SameInARow ==
  ASSUME NEW q \in Seq(Samples), NEW new \in Seq(Samples), Later(new, q, 0)
  PROVE  new = q
<1>1. Len(new) = Len(q) /\ \A k \in 1 .. Len(q) : new[k] = q[k]
  BY DEF Later
<1> QED BY <1>1, SeqEqual

-----------------------------------------------------------------------------
(* The sound of a console *)
Holding == [ring |-> ring, r |-> readPos, w |-> writePos]

\* What waits to be heard: the samples in the ring, then the back buffer.
Unheard == [k \in 1 .. GetOutputSize + Len(back) |-> Queued(Holding, back, k)]

SoundTypes ==
  /\ emu \in {"frame", "sync", "waiting", "stopped"}
  /\ back \in Seq(Samples) /\ Len(back) <= BackLimit
  /\ ring \in [RingSlots -> Samples] /\ readPos \in RingSlots /\ writePos \in RingSlots
  /\ next \in Numbers /\ heard \in Seq(Samples) /\ gaps \subseteq Numbers /\ unsynced \in BOOLEAN

\* A frame that is synced finds room for all it mixes; silence goes into an
\* empty ring; a stopped console mixes one sample a frame at most.
RoomLeft ==
  /\ ~unsynced /\ emu \in {"frame", "stopped"} => GetOutputSize <= SyncLimit
  /\ \A k \in 1 .. Len(back) : back[k] = Silence => GetOutputSize = 0
  /\ emu = "stopped" => Len(back) <= 1

SoundInv == SoundTypes /\ RoomLeft /\ InARow(Unheard, next) /\ Expected(Unheard, next, gaps, Last(heard))

UnheardOK ==
  /\ Holding \in Rings /\ GetOutputSize = Filled(Holding) /\ GetOutputSize \in 0 .. RingSize - 1
  /\ Unheard \in Seq(Samples) /\ Len(Unheard) = GetOutputSize + Len(back) /\ Len(back) \in Nat
  /\ \A k \in 1 .. GetOutputSize : Unheard[k] = ring[Slot(readPos, k - 1)]
  /\ \A k \in 1 .. Len(back) : Unheard[GetOutputSize + k] = back[k]

\* It is a sequence of samples: those of the ring and then the others.
LEMMA UnheardType == SoundTypes => UnheardOK
<1> SUFFICES ASSUME SoundTypes PROVE UnheardOK
  OBVIOUS
<1>1. Holding \in Rings /\ GetOutputSize = Filled(Holding)
  BY DEF SoundTypes, Holding, Rings, GetOutputSize, Filled, Between
<1>2. GetOutputSize \in 0 .. RingSize - 1 /\ RingSize \in Nat /\ Len(back) \in Nat
  BY <1>1, FilledIs, Capacities DEF SoundTypes
<1>3. \A k \in 1 .. GetOutputSize : Queued(Holding, back, k) = ring[Slot(readPos, k - 1)]
  BY <1>1 DEF Queued, At, Holding
<1>4. \A k \in 1 .. Len(back) : Queued(Holding, back, GetOutputSize + k) = back[k]
  <2> SUFFICES ASSUME NEW k \in 1 .. Len(back) PROVE Queued(Holding, back, GetOutputSize + k) = back[k]
    OBVIOUS
  <2> DEFINE size == GetOutputSize
  <2>1. size \in Nat /\ Filled(Holding) = size /\ k \in Nat /\ k >= 1
    BY <1>1, <1>2
  <2> HIDE DEF size
  <2>2. Queued(Holding, back, size + k) = back[k]
    <3>1. ~(size + k <= size) /\ (size + k) - size = k
      BY <2>1
    <3> QED BY <2>1, <3>1 DEF Queued
  <2> QED BY <2>2 DEF size
<1>5. ASSUME NEW k \in 1 .. GetOutputSize + Len(back) PROVE Queued(Holding, back, k) \in Samples
  <2>1. CASE k <= GetOutputSize
    <3>1. k \in 1 .. GetOutputSize /\ k - 1 \in 0 .. RingSize
      BY <1>2, <2>1
    <3>2. Slot(readPos, k - 1) \in RingSlots
      BY <3>1, SlotIs DEF SoundTypes
    <3> QED BY <1>3, <3>1, <3>2 DEF SoundTypes
  <2>2. CASE ~(k <= GetOutputSize)
    <3>1. k - GetOutputSize \in 1 .. Len(back) /\ GetOutputSize + (k - GetOutputSize) = k
      BY <1>2, <2>2
    <3>2. Queued(Holding, back, k) = back[k - GetOutputSize]
      BY <1>4, <3>1
    <3> QED BY <3>1, <3>2 DEF SoundTypes
  <2> QED BY <2>1, <2>2
<1>6. Unheard \in Seq(Samples) /\ Len(Unheard) = GetOutputSize + Len(back)
  <2>1. GetOutputSize + Len(back) \in Nat
    BY <1>2
  <2> QED BY <1>5, <2>1 DEF Unheard
<1>7. \A k \in 1 .. GetOutputSize + Len(back) : Unheard[k] = Queued(Holding, back, k)
  BY DEF Unheard
<1>8. \A k \in 1 .. GetOutputSize : Unheard[k] = ring[Slot(readPos, k - 1)]
  BY <1>2, <1>3, <1>7
<1>9. \A k \in 1 .. Len(back) : Unheard[GetOutputSize + k] = back[k]
  BY <1>2, <1>4, <1>7
<1> QED BY <1>1, <1>2, <1>6, <1>8, <1>9 DEF UnheardOK

\* Nothing, or silence, is in a row with whatever is mixed next.
LEMMA EmptyInARow ==
  \A n \in Numbers : \A q \in {<<>>, <<Silence>>} :
    /\ InARow(q, n) /\ Announced(q, n) = n
    /\ q = <<>> => First(q) = 1
  BY DEF InARow, Announced, First

\* A step that leaves the ring and the back buffer alone.
LEMMA UnheardSame ==
  ASSUME UNCHANGED <<ring, readPos, writePos, back>>
  PROVE  Unheard' = Unheard /\ GetOutputSize' = GetOutputSize
<1>1. Holding' = Holding /\ GetOutputSize' = GetOutputSize
  BY DEF Holding, GetOutputSize
<1> QED BY <1>1 DEF Unheard

\* The invariant holds of a console just made.
LEMMA InitSound == SpuInit => SoundInv
<1> SUFFICES ASSUME SpuInit PROVE SoundInv
  OBVIOUS
<1>1. /\ emu = "frame" /\ back = <<>> /\ ring = [i \in RingSlots |-> 0] /\ readPos = 0 /\ writePos = 0
      /\ next = 0 /\ heard = <<Modulus - 1>> /\ unsynced = FALSE /\ gaps = {}
  BY DEF SpuInit
<1>2. 0 \in RingSlots /\ 0 \in Numbers /\ Modulus - 1 \in Numbers /\ After(Modulus - 1) = 0
  <2>1. Modulus \in Nat /\ Modulus > 1 /\ Modulus % Modulus = 0 /\ RingSize \in Nat /\ RingSize > 0
    BY Capacities
  <2> QED BY <2>1 DEF RingSlots, Numbers, After
<1>3. SoundTypes
  <2>1. back \in Seq(Samples) /\ Len(back) = 0 /\ ring \in [RingSlots -> Samples] /\ heard \in Seq(Samples)
    <3>1. 0 \in Samples /\ Modulus - 1 \in Samples
      BY <1>2, Capacities
    <3> QED BY <1>1, <3>1
  <2>2. emu \in {"frame", "sync", "waiting", "stopped"} /\ gaps \subseteq Numbers /\ unsynced \in BOOLEAN
    BY <1>1
  <2>3. Len(back) <= BackLimit /\ readPos \in RingSlots /\ writePos \in RingSlots /\ next \in Numbers
    BY <1>1, <1>2, <2>1, Capacities
  <2> QED BY <2>1, <2>2, <2>3 DEF SoundTypes
<1>4. GetOutputSize = 0 /\ Len(back) = 0 /\ Unheard = <<>>
  <2>1. GetOutputSize = 0 /\ Len(back) = 0
    BY <1>1 DEF GetOutputSize
  <2> QED BY <1>3, <2>1, UnheardType DEF UnheardOK
<1>5. RoomLeft
  BY <1>1, <1>4, Capacities DEF RoomLeft
<1>6. Last(heard) = Modulus - 1
  BY <1>1 DEF Last
<1> QED BY <1>1, <1>2, <1>3, <1>4, <1>5, <1>6, EmptyInARow DEF SoundInv, Expected

\* A sample that is mixed goes behind the others or, when the back buffer is
\* full, is dropped unnumbered.
LEMMA MixKeeps == SoundInv /\ Mix => SoundInv'
<1> SUFFICES ASSUME SoundInv, Mix PROVE SoundInv'
  OBVIOUS
<1>1. /\ SoundTypes /\ RoomLeft /\ InARow(Unheard, next) /\ Expected(Unheard, next, gaps, Last(heard))
      /\ UNCHANGED <<emu, ring, readPos, writePos, heard, unsynced, gaps>>
      /\ emu = "frame" \/ (emu = "stopped" /\ back = <<>>)
  BY DEF SoundInv, Mix
<1>2. CASE UNCHANGED <<back, next>>
  <2>1. Unheard' = Unheard /\ GetOutputSize' = GetOutputSize
    BY <1>1, <1>2, UnheardSame
  <2> QED BY <1>1, <1>2, <2>1 DEF SoundInv, SoundTypes, RoomLeft
<1>3. CASE Len(back) < BackLimit /\ back' = Append(back, next) /\ next' = After(next)
  <2>1. /\ next \in Samples /\ next # Silence /\ back \in Seq(Samples) /\ Len(back) \in Nat
        /\ back' \in Seq(Samples) /\ Len(back') = Len(back) + 1 /\ back'[Len(back) + 1] = next
        /\ \A k \in 1 .. Len(back) : back'[k] = back[k]
    BY <1>1, <1>3, Capacities, AppendProperties DEF SoundTypes
  <2>2. GetOutputSize' = GetOutputSize
    BY <1>1 DEF GetOutputSize
  <2>3. SoundTypes'
    <3>1. After(next) \in Numbers
      BY <1>1, AfterType, Capacities DEF SoundTypes, Numbers
    <3>2. Len(back') <= BackLimit
      BY <1>3, <2>1, Capacities
    <3> QED BY <1>1, <1>3, <2>1, <3>1, <3>2 DEF SoundTypes
  <2>4. RoomLeft'
    <3>1. ~unsynced' /\ emu' \in {"frame", "stopped"} => GetOutputSize' <= SyncLimit
      BY <1>1, <2>2 DEF RoomLeft
    <3>2. ASSUME NEW k \in 1 .. Len(back'), back'[k] = Silence PROVE GetOutputSize' = 0
      <4>1. k \in 1 .. Len(back)
        BY <2>1, <3>2
      <4> QED BY <1>1, <2>1, <2>2, <3>2, <4>1 DEF RoomLeft
    <3>3. emu' = "stopped" => Len(back') <= 1
      BY <1>1, <2>1
    <3> QED BY <3>1, <3>2, <3>3 DEF RoomLeft
  <2>5. Unheard \in Seq(Samples) /\ Unheard' \in Seq(Samples) /\ Longer(Unheard', Unheard, next)
    <3> DEFINE size == GetOutputSize
    <3>1. /\ size \in Nat /\ Unheard \in Seq(Samples) /\ Len(Unheard) = size + Len(back)
          /\ \A k \in 1 .. size : Unheard[k] = ring[Slot(readPos, k - 1)]
          /\ \A k \in 1 .. Len(back) : Unheard[size + k] = back[k]
      BY <1>1, UnheardType DEF UnheardOK
    <3>2. /\ Unheard' \in Seq(Samples) /\ Len(Unheard') = size + Len(back')
          /\ \A k \in 1 .. size : Unheard'[k] = ring[Slot(readPos, k - 1)]
          /\ \A k \in 1 .. Len(back') : Unheard'[size + k] = back'[k]
      <4>1. UnheardOK'
        BY <2>3, UnheardType, PTL
      <4> QED BY <1>1, <2>2, <4>1 DEF UnheardOK
    <3> HIDE DEF size
    <3>3. Len(Unheard') = Len(Unheard) + 1 /\ Unheard'[Len(Unheard')] = next
      <4>1. Len(back') \in 1 .. Len(back') /\ Len(Unheard') = size + Len(back')
        BY <2>1, <3>2
      <4> QED BY <2>1, <3>1, <3>2, <4>1
    <3>4. ASSUME NEW k \in 1 .. Len(Unheard) PROVE Unheard'[k] = Unheard[k]
      <4>1. CASE k <= size
        BY <3>1, <3>2, <4>1
      <4>2. CASE ~(k <= size)
        <5> DEFINE j == k - size
        <5>1. j \in 1 .. Len(back) /\ j \in 1 .. Len(back') /\ size + j = k
          BY <2>1, <3>1, <4>2
        <5>2. Unheard[size + j] = back[j] /\ Unheard'[size + j] = back'[j] /\ back'[j] = back[j]
          <6> HIDE DEF j
          <6> QED BY <2>1, <3>1, <3>2, <5>1
        <5> QED BY <5>1, <5>2
      <4> QED BY <4>1, <4>2
    <3> QED BY <3>1, <3>2, <3>3, <3>4 DEF Longer
  <2>6. InARow(Unheard', After(next)) /\ First(Unheard') = First(Unheard)
        /\ Announced(Unheard', After(next)) = Announced(Unheard, next)
    BY <1>1, <2>5, MixedInARow DEF SoundTypes
  <2> QED BY <1>1, <1>3, <2>3, <2>4, <2>6 DEF SoundInv, Expected
<1> QED BY <1>2, <1>3 DEF Mix

\* No place on.
LEMMA SlotZero == \A r \in RingSlots : Slot(r, 1 - 1) = r
<1>1. RingSize \in Nat
  BY Capacities
<1> QED BY <1>1 DEF Slot, RingSlots

\* Stop and Reset leave nothing to be heard, or a sample of silence.
LEMMA RestartKeeps ==
  ASSUME SoundInv, Stop \/ Reset
  PROVE  SoundInv'
<1>1. /\ SoundTypes /\ RoomLeft /\ UNCHANGED <<next, heard>>
      /\ ring' = [i \in RingSlots |-> 0] /\ readPos' = 0 /\ writePos' = 0
      /\ gaps' = {next} /\ unsynced' = FALSE
  BY DEF SoundInv, Stop, Reset
<1>2. /\ back' \in Seq(Samples) /\ Len(back') <= 1 /\ back' \in {<<>>, <<Silence>>}
      /\ emu' \in {"stopped", "frame"}
  <2>1. CASE Stop
    BY <2>1 DEF Stop
  <2>2. CASE Reset
    <3>1. Len(back) \in Nat /\ Len(back) <= 1 /\ back' = [k \in 1 .. Len(back) |-> Silence] /\ emu' = "frame"
      <4>1. back \in Seq(Samples) /\ (emu = "stopped" => Len(back) <= 1)
        BY <1>1 DEF SoundTypes, RoomLeft
      <4> QED BY <2>2, <4>1 DEF Reset
    <3>2. Silence \in Samples
      BY DEF Samples
    <3>3. CASE Len(back) = 0
      <4>1. back' = <<>>
        BY <3>1, <3>3
      <4> QED BY <3>1, <4>1
    <3>4. CASE Len(back) = 1
      <4>1. back' = <<Silence>>
        BY <3>1, <3>4
      <4> QED BY <3>1, <3>2, <4>1
    <3> QED BY <3>1, <3>3, <3>4
  <2> QED BY <2>1, <2>2
<1>3. GetOutputSize' = 0
  BY <1>1 DEF GetOutputSize
<1>4. 0 \in RingSlots /\ 0 \in Samples
  <2>1. Modulus \in Nat /\ Modulus > 1 /\ RingSize \in Nat /\ RingSize > 0
    BY Capacities
  <2> QED BY <2>1 DEF RingSlots, Numbers, Samples
<1>5. SoundTypes'
  <2>1. ring' \in [RingSlots -> Samples] /\ Len(back') <= BackLimit
    BY <1>1, <1>2, <1>4, Capacities
  <2> QED BY <1>1, <1>2, <1>4, <2>1 DEF SoundTypes
<1>6. RoomLeft'
  BY <1>2, <1>3, Capacities DEF RoomLeft
<1>7. Unheard' \in {<<>>, <<Silence>>}
  <2>1. UnheardOK'
    BY <1>5, UnheardType, PTL
  <2>2. /\ Unheard' \in Seq(Samples) /\ Len(Unheard') = Len(back')
        /\ \A k \in 1 .. Len(back') : Unheard'[k] = back'[k]
    <3>1. /\ Unheard' \in Seq(Samples) /\ Len(Unheard') = 0 + Len(back')
          /\ \A k \in 1 .. Len(back') : Unheard'[0 + k] = back'[k]
      BY <1>3, <2>1 DEF UnheardOK
    <3>2. Len(back') \in Nat
      BY <1>2
    <3>3. \A k \in 1 .. Len(back') : 0 + k = k
      BY <3>2
    <3> QED BY <3>1, <3>2, <3>3
  <2>3. Unheard' = back'
    BY <1>2, <2>2, SeqEqual
  <2> QED BY <1>2, <2>3
<1>8. next \in Numbers
  BY <1>1 DEF SoundTypes
<1>9. InARow(Unheard', next) /\ Announced(Unheard', next) = next
  BY <1>7, <1>8, EmptyInARow
<1> QED BY <1>1, <1>5, <1>6, <1>9 DEF SoundInv, Expected

\* Steps that move no sample: AudioSync, and the end of its wait.
LEMMA SyncKeeps ==
  ASSUME SoundInv, AudioSync \/ SyncTimeout \/ UNCHANGED spuvars
  PROVE  SoundInv'
<1>1. /\ SoundTypes /\ RoomLeft /\ InARow(Unheard, next) /\ Expected(Unheard, next, gaps, Last(heard))
      /\ UNCHANGED <<back, ring, readPos, writePos, next, heard, gaps>>
  BY DEF SoundInv, AudioSync, SyncTimeout, spuvars
<1>2. Unheard' = Unheard /\ GetOutputSize' = GetOutputSize /\ GetOutputSize \in Nat
  BY <1>1, UnheardSame, UnheardType DEF UnheardOK
<1>3. emu' \in {"frame", "sync", "waiting", "stopped"} /\ unsynced' \in BOOLEAN
  BY <1>1 DEF AudioSync, SyncTimeout, TooMany, SoundTypes, spuvars
<1>4. ~unsynced' /\ emu' \in {"frame", "stopped"} => GetOutputSize <= SyncLimit
  BY <1>1, <1>2, Capacities DEF AudioSync, SyncTimeout, TooMany, SoundTypes, RoomLeft, spuvars
<1>5. emu' = "stopped" => Len(back) <= 1
  BY <1>1 DEF AudioSync, SyncTimeout, RoomLeft, spuvars
<1> QED BY <1>1, <1>2, <1>3, <1>4, <1>5 DEF SoundInv, SoundTypes, RoomLeft

\* The end of a frame.  Samples are pushed out only when frames have gone
\* unsynced, and the first one left is then expected.
LEMMA EndFrameKeeps ==
  ASSUME SoundInv, NEW audioSync \in BOOLEAN, EndFrame(audioSync)
  PROVE  SoundInv'
<1>1. /\ SoundTypes /\ RoomLeft /\ InARow(Unheard, next) /\ Expected(Unheard, next, gaps, Last(heard))
      /\ UNCHANGED <<next, heard>> /\ back' = <<>> /\ next \in Numbers
  BY DEF SoundInv, EndFrame, SoundTypes
<1> DEFINE all == Transferred
           size == GetOutputSize
<1>2. all \in Rings /\ ring' = all.ring /\ readPos' = all.r /\ writePos' = all.w /\ all = Holding'
      /\ \E d \in Nat : Passed(Holding, back, Len(back), all, d)
  <2>1. Holding \in Rings /\ back \in Seq(Samples) /\ Len(back) < RingSize
    BY <1>1, UnheardType, Capacities DEF UnheardOK, SoundTypes
  <2>2. all = FoldLeft(Put, Holding, back)
    BY DEF Transferred, Holding
  <2>3. all \in Rings /\ \E d \in Nat : Passed(Holding, back, Len(back), all, d)
    BY <2>1, <2>2, PassedAll
  <2>4. ring' = all.ring /\ readPos' = all.r /\ writePos' = all.w
    BY DEF EndFrame
  <2>5. all = [ring |-> all.ring, r |-> all.r, w |-> all.w]
    <3> HIDE DEF all
    <3> QED BY <2>3 DEF Rings
  <2>6. all = Holding'
    <3> HIDE DEF all
    <3> QED BY <2>4, <2>5 DEF Holding
  <2> QED BY <2>3, <2>4, <2>6
<1>3. PICK d \in Nat : Passed(Holding, back, Len(back), all, d)
  BY <1>2
<1> HIDE DEF all
<1>4. /\ emu' \in {"frame", "sync", "stopped"} /\ (emu' \in {"frame", "stopped"} => unsynced')
      /\ unsynced' \in BOOLEAN /\ emu \in {"frame", "stopped"}
      /\ gaps' = IF unsynced /\ readPos' # readPos THEN (gaps \cup {ring'[readPos']}) \cap ToSet(ring')
                 ELSE gaps
  BY <1>1 DEF EndFrame, SoundTypes
<1>5. /\ size \in Nat /\ Len(back) \in Nat /\ Len(back) <= BackLimit /\ Len(Unheard) = size + Len(back)
      /\ Unheard \in Seq(Samples) /\ Filled(Holding) = size /\ Holding \in Rings
      /\ \A k \in 1 .. size + Len(back) : Unheard[k] = Queued(Holding, back, k)
  BY <1>1, UnheardType DEF UnheardOK, SoundTypes, Unheard
<1>6. Filled(all) = GetOutputSize' /\ Filled(all) \in 0 .. RingSize - 1
  <2>1. Filled(Holding') = GetOutputSize'
    BY DEF Filled, Between, Holding, GetOutputSize
  <2> QED BY <1>2, <2>1, FilledIs
<1> HIDE DEF size
<1>7. /\ d \in 0 .. Len(back) /\ Filled(all) = size + Len(back) - d /\ (d > 0 => Filled(all) = RingSize - 1)
      /\ readPos' = Slot(readPos, d) /\ \A j \in 1 .. Filled(all) : At(all, j) = Queued(Holding, back, d + j)
  BY <1>2, <1>3, <1>5 DEF Passed, Holding
\* What was left to be heard, but for what was pushed out.
<1>8. UnheardOK' /\ Later(Unheard', Unheard, d) /\ Unheard' \in Seq(Samples)
  <2>1. /\ Holding' \in Rings /\ GetOutputSize' = Filled(Holding') /\ GetOutputSize' \in 0 .. RingSize - 1
        /\ Len(back') = 0
    BY <1>1, <1>2, <1>6
  <2>2. Unheard' = [k \in 1 .. GetOutputSize' |-> Queued(Holding', back', k)]
    BY <2>1 DEF Unheard
  <2>3. ASSUME NEW k \in 1 .. GetOutputSize' PROVE Unheard'[k] = At(all, k) /\ At(all, k) \in Samples
    <3>1. Unheard'[k] = At(all, k)
      BY <1>2, <2>1, <2>2 DEF Queued
    <3>2. k - 1 \in 0 .. RingSize /\ all.r \in RingSlots /\ all.ring \in [RingSlots -> Samples]
      BY <1>2, <2>1, Capacities DEF Rings
    <3> QED BY <3>1, <3>2, SlotIs DEF At
  <2>4. Unheard' \in Seq(Samples) /\ Len(Unheard') = GetOutputSize'
    BY <2>1, <2>2, <2>3
  <2>5. ASSUME NEW k \in 1 .. Len(Unheard') PROVE Unheard'[k] = Unheard[k + d]
    <3>1. k \in 1 .. Filled(all) /\ k \in 1 .. GetOutputSize'
      BY <1>6, <2>4
    <3>2. k + d \in 1 .. size + Len(back) /\ d + k = k + d
      BY <1>5, <1>6, <1>7, <3>1
    <3>3. Unheard[k + d] = Queued(Holding, back, k + d)
      BY <1>5, <3>2
    <3>4. At(all, k) = Queued(Holding, back, d + k)
      BY <1>7, <3>1
    <3>5. Unheard'[k] = At(all, k)
      BY <2>3, <3>1
    <3> QED BY <3>2, <3>3, <3>4, <3>5
  <2>6. Later(Unheard', Unheard, d)
    <3>1. d \in 0 .. Len(Unheard)
      BY <1>5, <1>7
    <3>2. Len(Unheard') = Len(Unheard) - d
      <4>1. Len(Unheard') = Filled(all) /\ Len(Unheard) = size + Len(back)
        BY <1>5, <1>6, <2>4
      <4>2. /\ Filled(all) = size + Len(back) - d
            /\ size \in Nat /\ Len(back) \in Nat /\ d \in Nat
        BY <1>5, <1>7
      <4> QED BY <4>1, <4>2
    <3> QED BY <2>5, <3>1, <3>2 DEF Later
  <2>7. ASSUME NEW k \in 1 .. GetOutputSize' PROVE Unheard'[k] = ring'[Slot(readPos', k - 1)]
    BY <1>2, <2>3 DEF At
  <2>8. UnheardOK'
    BY <2>1, <2>4, <2>7 DEF UnheardOK
  <2> QED BY <2>4, <2>6, <2>8
<1>9. GetOutputSize' > 0 => Unheard'[1] = ring'[readPos']
  <2> SUFFICES ASSUME GetOutputSize' > 0 PROVE Unheard'[1] = ring'[readPos']
    OBVIOUS
  <2>1. 1 \in 1 .. GetOutputSize' /\ Slot(readPos', 1 - 1) = readPos'
    <3>1. readPos' \in 0 .. RingSize - 1 /\ RingSize \in Nat /\ GetOutputSize' \in Nat
      BY <1>2, <1>6, Capacities DEF Rings, RingSlots
    <3>2. Slot(readPos', 1 - 1) = readPos'
      <4>1. readPos' \in RingSlots
        BY <3>1 DEF RingSlots
      <4> QED BY <4>1, SlotZero
    <3>3. 1 \in 1 .. GetOutputSize'
      BY <3>1
    <3> QED BY <3>2, <3>3
  <2>2. Unheard'[1] = ring'[Slot(readPos', 1 - 1)]
    BY <1>8, <2>1 DEF UnheardOK
  <2> QED BY <2>1, <2>2
<1>10. CASE d = 0
  <2>1. Unheard' = Unheard
    BY <1>5, <1>8, <1>10, SameInARow
  <2>2. readPos' = readPos
    <3>1. readPos \in 0 .. RingSize - 1 /\ RingSize \in Nat
      BY <1>1, Capacities DEF SoundTypes, RingSlots
    <3> QED BY <1>7, <1>10, <3>1 DEF Slot
  <2>3. gaps' = gaps
    BY <1>4, <2>2
  <2>4. SoundTypes'
    BY <1>1, <1>2, <1>4, <2>3, Capacities DEF SoundTypes, Rings
  <2>5. RoomLeft'
    BY <1>1, <1>4 DEF RoomLeft
  <2> QED BY <1>1, <2>1, <2>3, <2>4, <2>5 DEF SoundInv
<1>11. CASE d > 0
  <2>1. /\ InARow(Unheard', next) /\ Announced(Unheard', next) = Unheard'[1] /\ Unheard'[1] \in Numbers
        /\ GetOutputSize' > 0
    <3>1. Len(Unheard') > 0 /\ Len(Unheard') = GetOutputSize'
      <4>1. Len(Unheard') = GetOutputSize' + 0
        BY <1>1, <1>8 DEF UnheardOK
      <4>2. GetOutputSize' = RingSize - 1 /\ RingSize \in Nat /\ RingSize > 2
        BY <1>6, <1>7, <1>11, Capacities
      <4> QED BY <4>1, <4>2
    <3> QED BY <1>1, <1>5, <1>8, <1>11, <3>1, LaterInARow
  <2>2. unsynced
    <3>1. size + Len(back) > RingSize - 1
      BY <1>5, <1>7, <1>11, Capacities
    <3>2. size > SyncLimit
      BY <1>5, <3>1, Capacities
    <3> QED BY <1>1, <1>4, <1>5, <3>2, Capacities DEF RoomLeft, SoundTypes, size
  <2>3. readPos' # readPos
    <3>1. readPos \in 0 .. RingSize - 1 /\ RingSize \in Nat /\ d \in Nat /\ d < RingSize
      BY <1>1, <1>5, <1>7, Capacities DEF SoundTypes, RingSlots
    <3> QED BY <1>7, <1>11, <3>1 DEF Slot
  <2>4. ring'[readPos'] \in Numbers /\ ring'[readPos'] \in ToSet(ring')
    BY <1>2, <1>9, <2>1 DEF ToSet, Rings
  <2>5. gaps' \subseteq Numbers /\ ring'[readPos'] \in gaps'
    BY <1>1, <1>4, <2>2, <2>3, <2>4 DEF SoundTypes
  <2>6. SoundTypes'
    BY <1>1, <1>2, <1>4, <2>5, Capacities DEF SoundTypes, Rings
  <2>7. RoomLeft'
    BY <1>1, <1>4 DEF RoomLeft
  <2>8. Announced(Unheard', next) \in gaps'
    BY <1>9, <2>1, <2>5
  <2> QED BY <1>1, <2>1, <2>6, <2>7, <2>8 DEF SoundInv, Expected
<1> QED BY <1>10, <1>11

\* What a callback takes is what was to be heard, and follows what was heard.
FollowsOn ==
  heard' # heard =>
    /\ Follows(Last(heard), heard'[1])
    /\ \A k \in 2 .. Len(heard') : Follows(heard'[k - 1], heard'[k])

\* Reading leaves fewer.
LEMMA BetweenLess ==
  ASSUME NEW r \in RingSlots, NEW w \in RingSlots, NEW taken \in Nat, taken <= Between(r, w)
  PROVE  Between(Slot(r, taken), w) = Between(r, w) - taken
<1>1. RingSize \in Nat /\ r \in 0 .. RingSize - 1 /\ w \in 0 .. RingSize - 1
  BY Capacities DEF RingSlots
<1>2. CASE r + taken < RingSize
  <2>1. Slot(r, taken) = r + taken
    BY <1>2 DEF Slot
  <2>2. CASE w >= r
    BY <1>1, <1>2, <2>1, <2>2 DEF Between
  <2>3. CASE ~(w >= r)
    BY <1>1, <1>2, <2>1, <2>3 DEF Between
  <2> QED BY <2>2, <2>3
<1>3. CASE ~(r + taken < RingSize)
  <2>1. Slot(r, taken) = r + taken - RingSize
    BY <1>3 DEF Slot
  <2>2. CASE w >= r
    BY <1>1, <1>3, <2>1, <2>2 DEF Between
  <2>3. CASE ~(w >= r)
    BY <1>1, <1>3, <2>1, <2>3 DEF Between
  <2> QED BY <2>2, <2>3
<1> QED BY <1>2, <1>3

\* AudioCallback takes the first samples that wait.
LEMMA CallbackKeeps ==
  ASSUME SoundInv, NEW n \in ReadSizes, AudioCallback(n)
  PROVE  SoundInv' /\ FollowsOn
<1> DEFINE num == NumRead(n)
           size == GetOutputSize
<1>1. /\ SoundTypes /\ RoomLeft /\ InARow(Unheard, next) /\ Expected(Unheard, next, gaps, Last(heard))
      /\ UNCHANGED <<back, ring, writePos, next, unsynced>> /\ next \in Numbers
  BY DEF SoundInv, AudioCallback, SoundTypes
<1>2. /\ num > 0 /\ heard' = [k \in 1 .. num |-> ring[(readPos + k - 1) % RingSize]]
      /\ readPos' = (readPos + num) % RingSize
      /\ emu' = IF emu = "waiting" THEN "sync" ELSE emu
      /\ gaps' = gaps \ ToSet(heard')
  BY DEF AudioCallback
<1>3. /\ size \in 0 .. RingSize - 1 /\ RingSize \in Nat /\ num \in Nat /\ num <= size
      /\ Unheard \in Seq(Samples) /\ Len(Unheard) = size + Len(back) /\ Len(back) \in Nat
      /\ \A k \in 1 .. size : Unheard[k] = ring[Slot(readPos, k - 1)]
      /\ \A k \in 1 .. Len(back) : Unheard[size + k] = back[k]
  BY <1>1, UnheardType, Capacities DEF UnheardOK, NumRead
<1>4. readPos \in RingSlots /\ writePos \in RingSlots /\ size = Between(readPos, writePos)
  BY <1>1 DEF SoundTypes, GetOutputSize, Between
<1> HIDE DEF num, size
<1>5. /\ readPos' = Slot(readPos, num) /\ readPos' \in RingSlots
      /\ GetOutputSize' = size - num /\ GetOutputSize' \in Nat
  <2>1. readPos' = Slot(readPos, num) /\ readPos' \in RingSlots
    <3>1. num \in 0 .. RingSize
      BY <1>3
    <3> QED BY <1>2, <1>4, <3>1, SlotIs
  <2>2. GetOutputSize' = Between(readPos', writePos)
    BY <1>1 DEF GetOutputSize, Between
  <2>3. Between(Slot(readPos, num), writePos) = Between(readPos, writePos) - num
    <3>1. readPos \in 0 .. RingSize - 1 /\ writePos \in 0 .. RingSize - 1 /\ num <= Between(readPos, writePos)
      BY <1>3, <1>4 DEF RingSlots
    <3> QED BY <1>3, <1>4, <3>1, BetweenLess
  <2>4. size - num \in Nat
    BY <1>3
  <2> QED BY <1>4, <2>1, <2>2, <2>3, <2>4
<1>6. /\ heard' \in Seq(Samples) /\ Len(heard') = num
      /\ \A k \in 1 .. num : heard'[k] = Unheard[k] /\ k \in 1 .. Len(Unheard)
  <2>1. ASSUME NEW k \in 1 .. num
        PROVE  /\ ring[(readPos + k - 1) % RingSize] = Unheard[k] /\ k \in 1 .. Len(Unheard)
               /\ Unheard[k] \in Samples
    <3>1. /\ k \in 1 .. size /\ k - 1 \in 0 .. RingSize /\ k \in 1 .. Len(Unheard)
          /\ readPos + k - 1 = readPos + (k - 1)
      BY <1>3
    <3>2. (readPos + k - 1) % RingSize = Slot(readPos, k - 1)
      BY <1>4, <3>1, SlotIs
    <3>3. Unheard[k] = ring[Slot(readPos, k - 1)]
      BY <1>3, <3>1
    <3> QED BY <1>3, <3>1, <3>2, <3>3
  <2> DEFINE taken == [k \in 1 .. num |-> ring[(readPos + k - 1) % RingSize]]
  <2>2. heard' = taken
    BY <1>2
  <2>3. \A k \in 1 .. num : taken[k] = Unheard[k] /\ taken[k] \in Samples /\ k \in 1 .. Len(Unheard)
    BY <2>1
  <2>4. num \in Nat /\ taken = [k \in 1 .. num |-> taken[k]]
    BY <1>3
  <2> HIDE DEF taken
  <2>5. taken \in Seq(Samples) /\ Len(taken) = num
    BY <2>3, <2>4
  <2> QED BY <2>2, <2>3, <2>5
<1>7. SoundTypes'
  <2>1. gaps' \subseteq Numbers
    BY <1>1, <1>2 DEF SoundTypes
  <2>2. emu' \in {"frame", "sync", "waiting", "stopped"}
    BY <1>1, <1>2 DEF SoundTypes
  <2> QED BY <1>1, <1>5, <1>6, <2>1, <2>2 DEF SoundTypes
<1>8. RoomLeft'
  <2>1. size = GetOutputSize /\ GetOutputSize' <= size /\ size > 0
    BY <1>2, <1>3, <1>5 DEF size
  <2>2. ~unsynced' /\ emu' \in {"frame", "stopped"} => GetOutputSize' <= SyncLimit
    BY <1>1, <1>2, <1>3, <1>5, <2>1, Capacities DEF RoomLeft
  <2> QED BY <1>1, <1>2, <2>1, <2>2 DEF RoomLeft
<1>9. Unheard' \in Seq(Samples) /\ Later(Unheard', Unheard, num)
  <2>1. UnheardOK'
    BY <1>7, UnheardType, PTL
  <2>2. /\ Unheard' \in Seq(Samples) /\ Len(Unheard') = (size - num) + Len(back)
        /\ \A k \in 1 .. size - num : Unheard'[k] = ring[Slot(readPos', k - 1)]
        /\ \A k \in 1 .. Len(back) : Unheard'[(size - num) + k] = back[k]
    BY <1>1, <1>5, <2>1 DEF UnheardOK
  <2>3. Len(Unheard') = Len(Unheard) - num /\ num \in 0 .. Len(Unheard)
    BY <1>3, <2>2
  <2>4. ASSUME NEW k \in 1 .. Len(Unheard') PROVE Unheard'[k] = Unheard[k + num]
    <3>1. CASE k <= size - num
      <4>1. k \in 1 .. size - num /\ k + num \in 1 .. size
        BY <1>3, <2>2, <3>1
      <4>2. Unheard'[k] = ring[Slot(readPos', k - 1)] /\ Unheard[k + num] = ring[Slot(readPos, (k + num) - 1)]
        BY <1>3, <2>2, <4>1
      <4>3. Slot(Slot(readPos, num), k - 1) = Slot(readPos, (k + num) - 1)
        <5>1. readPos \in 0 .. RingSize - 1 /\ k >= 1 /\ k \in Nat /\ k + num <= RingSize - 1
          BY <1>3, <1>4, <4>1 DEF RingSlots
        <5> QED BY <1>3, <5>1 DEF Slot
      <4> QED BY <1>5, <4>2, <4>3
    <3>2. CASE ~(k <= size - num)
      <4> DEFINE j == k - (size - num)
      <4>1. j \in 1 .. Len(back) /\ (size - num) + j = k /\ size + j = k + num
        BY <1>3, <2>2, <3>2
      <4>2. Unheard'[(size - num) + j] = back[j] /\ Unheard[size + j] = back[j]
        <5> HIDE DEF j
        <5> QED BY <1>3, <2>2, <4>1
      <4> QED BY <4>1, <4>2
    <3> QED BY <3>1, <3>2
  <2> QED BY <2>2, <2>3, <2>4 DEF Later
<1>10. /\ InARow(Unheard', next) /\ First(Unheard') = 1
       /\ Announced(Unheard', next) = IF num < First(Unheard) THEN Announced(Unheard, next)
                                      ELSE After(Unheard[num])
  BY <1>1, <1>2, <1>3, <1>9, LaterInARow
<1>11. /\ First(Unheard) \in {1, 2} /\ Len(Unheard) >= num /\ Len(Unheard) \in Nat
       /\ First(Unheard) = 2 => Unheard[1] = Silence
       /\ \A k \in First(Unheard) .. Len(Unheard) - 1 : Unheard[k + 1] = After(Unheard[k])
  <2>1. Len(Unheard) >= num /\ Len(Unheard) \in Nat
    BY <1>3
  <2> QED BY <1>1, <2>1 DEF First, InARow
<1>12. Expected(Unheard', next, gaps', Last(heard'))
  <2>1. CASE num < First(Unheard)
    <3>1. num = 1 /\ First(Unheard) = 2 /\ Unheard[1] = Silence
      BY <1>2, <1>3, <1>11, <2>1
    <3>2. Announced(Unheard, next) \in gaps
      BY <1>1, <3>1 DEF Expected
    <3>3. ToSet(heard') = {Silence}
      <4>1. DOMAIN heard' = 1 .. 1 /\ heard'[1] = Silence
        BY <1>6, <3>1
      <4> QED BY <4>1 DEF ToSet
    <3>4. Announced(Unheard, next) \in gaps'
      BY <1>1, <1>2, <3>2, <3>3, Capacities DEF SoundTypes
    <3> QED BY <1>10, <2>1, <3>4 DEF Expected
  <2>2. CASE ~(num < First(Unheard))
    <3>1. num \in 1 .. num
      BY <1>2, <1>3
    <3>2. Last(heard') = Unheard[num]
      BY <1>6, <3>1 DEF Last
    <3> QED BY <1>10, <2>2, <3>2 DEF Expected
  <2> QED BY <2>1, <2>2
<1>13. SoundInv'
  BY <1>1, <1>7, <1>8, <1>10, <1>12 DEF SoundInv
<1>14. Follows(Last(heard), heard'[1])
  <2>1. heard'[1] = Unheard[1] /\ 1 <= Len(Unheard)
    <3>1. 1 \in 1 .. num
      BY <1>2, <1>3
    <3> QED BY <1>3, <1>6, <3>1
  <2>2. CASE First(Unheard) = 1
    <3>1. Announced(Unheard, next) = Unheard[1]
      BY <2>1, <2>2 DEF Announced
    <3> QED BY <1>1, <2>1, <2>2, <3>1 DEF Expected, Follows
  <2>3. CASE First(Unheard) = 2
    BY <1>11, <2>1, <2>3 DEF Follows
  <2> QED BY <1>11, <2>2, <2>3
<1>15. ASSUME NEW k \in 2 .. Len(heard') PROVE Follows(heard'[k - 1], heard'[k])
  <2>1. /\ k \in 1 .. num /\ k - 1 \in 1 .. num /\ (k - 1) + 1 = k /\ k <= Len(Unheard) /\ k >= 2
        /\ heard'[k] = Unheard[k] /\ heard'[k - 1] = Unheard[k - 1]
    <3>1. k \in 1 .. num /\ k - 1 \in 1 .. num /\ (k - 1) + 1 = k /\ k <= Len(Unheard) /\ k >= 2
      BY <1>3, <1>6, <1>11
    <3> QED BY <1>6, <3>1
  <2>2. CASE k - 1 \in First(Unheard) .. Len(Unheard) - 1
    <3>1. Unheard[(k - 1) + 1] = After(Unheard[k - 1])
      BY <1>11, <2>2
    <3> QED BY <2>1, <3>1 DEF Follows
  <2>3. CASE k - 1 \notin First(Unheard) .. Len(Unheard) - 1
    <3>1. k = 2 /\ First(Unheard) = 2 /\ Len(Unheard) >= 2
      BY <1>3, <1>11, <2>1, <2>3
    <3>2. Announced(Unheard, next) = Unheard[2] /\ Announced(Unheard, next) \in gaps
      BY <1>1, <3>1 DEF Announced, Expected
    <3> QED BY <2>1, <3>1, <3>2 DEF Follows
  <2> QED BY <2>2, <2>3
<1> QED BY <1>13, <1>14, <1>15 DEF FollowsOn

\* Every step keeps the invariant.
LEMMA NextSound == SoundInv /\ SpuNext => SoundInv' /\ FollowsOn
<1> SUFFICES ASSUME SoundInv, SpuNext PROVE SoundInv' /\ FollowsOn
  OBVIOUS
<1>1. CASE Mix
  BY <1>1, MixKeeps DEF Mix, FollowsOn
<1>2. CASE AudioSync \/ SyncTimeout
  BY <1>2, SyncKeeps DEF AudioSync, SyncTimeout, FollowsOn
<1>3. CASE Stop \/ Reset
  BY <1>3, RestartKeeps DEF Stop, Reset, FollowsOn
<1>4. ASSUME NEW audioSync \in BOOLEAN, EndFrame(audioSync) PROVE SoundInv' /\ FollowsOn
  BY <1>4, EndFrameKeeps DEF EndFrame, FollowsOn
<1>5. ASSUME NEW n \in ReadSizes, AudioCallback(n) PROVE SoundInv' /\ FollowsOn
  BY <1>5, CallbackKeeps
<1> QED BY <1>1, <1>2, <1>3, <1>4, <1>5 DEF SpuNext

\* The other devices leave the sound alone.
LEMMA SoundSteps == [DevNext]_devvars => SpuNext \/ UNCHANGED spuvars
  BY DEF DevNext, devvars, RingMoves, IPCMoves, TimersMove, GeometryMoves, SoundMoves, ProgramMoves

\* The invariant of the sound.
LEMMA SoundIsKept == DevSpec => []SoundInv
<1>1. DevInit => SoundInv
  BY InitSound DEF DevInit
<1>2. SoundInv /\ [DevNext]_devvars => SoundInv'
  BY SoundSteps, NextSound, SyncKeeps
<1> QED BY <1>1, <1>2, PTL DEF DevSpec

\* Samples are heard in the order they were mixed, each of them once, with a
\* gap only where HeardInOrder allows one: Mix and TransferOutput (SPU.cpp) on
\* one thread, AudioCallback (AudioInOut.cpp) on the other, between any two of
\* their steps.
THEOREM SoundKeepsOrder == DevSpec => HeardInOrder
<1>1. SoundInv /\ [DevNext]_devvars =>
        [heard' # heard => /\ Follows(Last(heard), heard'[1])
                           /\ \A k \in 2 .. Len(heard') : Follows(heard'[k - 1], heard'[k])]_spuvars
  BY SoundSteps, NextSound DEF FollowsOn
<1> QED BY <1>1, SoundIsKept, PTL DEF DevSpec, HeardInOrder

\* The types of the sound.
LEMMA SoundTyped == SoundInv => SpuTypeOK
  BY DEF SoundInv, SoundTypes, SpuTypeOK, ToSet, Samples

-----------------------------------------------------------------------------
(***************************************************************************)
(* The container.  The inductive invariant is Inv: the types alone do not  *)
(* exclude a write position that has drifted from the read position, and   *)
(* the refinement of Write needs to know that the slot it fills is the one *)
(* just after the newest word.                                             *)
(***************************************************************************)

USE NumEntriesAssumption, ZeroAssumption

\* Init establishes the inductive invariant.
LEMMA InitInv == Init => Inv
  BY DEF Init, Inv, TypeOK, PositionsAgree, PeekPos, Slots

\* Clear, Write and Read of FIFO.h keep it.
LEMMA NextInv == Inv /\ [Next]_vars => Inv'
<1> SUFFICES ASSUME Inv, [Next]_vars PROVE Inv'
  OBVIOUS
<1> USE DEF Inv, TypeOK, PositionsAgree, PeekPos, Slots
<1>1. CASE Clear
  BY <1>1 DEF Clear
<1>2. ASSUME NEW val \in T, Write(val) PROVE Inv'
  BY <1>2 DEF Write, IsFull, Advance, vars
<1>3. CASE Read
  <2>1. CASE IsEmpty
    BY <1>3, <2>1 DEF Read, IsEmpty
  <2>2. CASE ~IsEmpty
    <3>1. /\ ReadPos' = Advance(ReadPos)
          /\ NumOccupied' = NumOccupied - 1
          /\ ret' = Entries[ReadPos]
          /\ Entries' = Entries
          /\ WritePos' = WritePos
      BY <1>3, <2>2 DEF Read
    <3>2. NumOccupied \in 1 .. NumEntries
      BY <2>2 DEF IsEmpty
    <3> QED BY <3>1, <3>2 DEF Advance
  <2> QED BY <2>1, <2>2
<1>4. CASE UNCHANGED vars
  BY <1>4 DEF vars
<1> QED BY <1>1, <1>2, <1>3, <1>4 DEF Next

\* The inductive invariant holds in every reachable state.
LEMMA SpecInv == Spec => []Inv
  BY InitInv, NextInv, PTL DEF Spec

\* The counters of FIFO.h agree in every reachable state, whatever the capacity:
\* WritePos is always NumOccupied slots after ReadPos around the ring.
THEOREM CountersAgree == Spec => []PositionsAgree
<1>1. Inv => PositionsAgree
  BY DEF Inv
<1> QED BY SpecInv, <1>1, PTL

-----------------------------------------------------------------------------
(* The refinement *)

ContentsOK == /\ Contents \in Seq(T)
              /\ Len(Contents) = NumOccupied
              /\ \A k \in 1 .. NumOccupied : Contents[k] = Entries[PeekPos(k - 1)]

\* What Peek(0), Peek(1), ... show is a sequence of NumOccupied words.
LEMMA ContentsType == Inv => ContentsOK
<1> SUFFICES ASSUME Inv PROVE ContentsOK
  OBVIOUS
<1>1. \A k \in 1 .. NumOccupied : PeekPos(k - 1) \in Slots
  BY DEF Inv, TypeOK, PeekPos, Slots
<1>2. \A k \in 1 .. NumOccupied : Entries[PeekPos(k - 1)] \in T
  BY <1>1 DEF Inv, TypeOK
<1>3. NumOccupied \in Nat
  BY DEF Inv, TypeOK
<1> QED BY <1>2, <1>3 DEF ContentsOK, Contents, Peek

\* Write of FIFO.h on a ring with room appends, for any word.
LEMMA WriteAppends ==
  ASSUME Inv, Inv', NEW val \in T, Write(val), ~IsFull
  PROVE  Contents' = Append(Contents, val)
<1>1. /\ Entries' = [Entries EXCEPT ![WritePos] = val]
      /\ NumOccupied' = NumOccupied + 1
      /\ ReadPos' = ReadPos
  BY DEF Write, vars
<1>2. /\ Contents' \in Seq(T)
      /\ Len(Contents') = NumOccupied + 1
      /\ \A k \in 1 .. NumOccupied + 1 : Contents'[k] = Entries'[PeekPos(k - 1)']
  <2>1. /\ Contents' \in Seq(T)
        /\ Len(Contents') = NumOccupied'
        /\ \A k \in 1 .. NumOccupied' : Contents'[k] = Entries'[PeekPos(k - 1)']
    <3>1. ContentsOK'
      BY ContentsType, PTL
    <3> QED BY <3>1 DEF ContentsOK
  <2> QED BY <2>1, <1>1
<1>3. \A k \in 1 .. NumOccupied + 1 : PeekPos(k - 1)' = PeekPos(k - 1)
  BY <1>1 DEF PeekPos
<1>4. \A k \in 1 .. NumOccupied : PeekPos(k - 1) # WritePos /\ PeekPos(k - 1) \in Slots
  BY DEF Inv, TypeOK, PositionsAgree, PeekPos, Slots, IsFull
<1>5. PeekPos(NumOccupied) = WritePos /\ WritePos \in Slots
  BY DEF Inv, TypeOK, PositionsAgree
<1>6. \A k \in 1 .. NumOccupied : Contents'[k] = Contents[k]
  BY <1>1, <1>2, <1>3, <1>4, ContentsType DEF Inv, TypeOK, ContentsOK
<1>7. Contents'[NumOccupied + 1] = val
  <2>1. NumOccupied + 1 \in 1 .. NumOccupied + 1 /\ NumOccupied + 1 - 1 = NumOccupied
    BY DEF Inv, TypeOK
  <2> QED BY <2>1, <1>1, <1>2, <1>3, <1>5 DEF Inv, TypeOK
<1> QED BY <1>2, <1>6, <1>7, ContentsType DEF ContentsOK

\* Read of FIFO.h on a ring that holds words returns and removes the oldest.
LEMMA ReadTakesHead ==
  ASSUME Inv, Inv', Read, ~IsEmpty
  PROVE  /\ Contents # << >>
         /\ ret' = Head(Contents)
         /\ Contents' = Tail(Contents)
<1>1. /\ ReadPos' = Advance(ReadPos)
      /\ NumOccupied' = NumOccupied - 1
      /\ ret' = Entries[ReadPos]
      /\ Entries' = Entries
  BY DEF Read
<1>2. NumOccupied \in 1 .. NumEntries
  BY DEF IsEmpty, Inv, TypeOK
<1>3. /\ Contents' \in Seq(T)
      /\ Len(Contents') = NumOccupied - 1
      /\ \A k \in 1 .. NumOccupied - 1 : Contents'[k] = Entries[PeekPos(k - 1)']
  <2>1. /\ Contents' \in Seq(T)
        /\ Len(Contents') = NumOccupied'
        /\ \A k \in 1 .. NumOccupied' : Contents'[k] = Entries'[PeekPos(k - 1)']
    <3>1. ContentsOK'
      BY ContentsType, PTL
    <3> QED BY <3>1 DEF ContentsOK
  <2> QED BY <2>1, <1>1
<1>4. \A k \in 1 .. NumOccupied - 1 : PeekPos(k - 1)' = PeekPos(k)
  BY <1>1, <1>2 DEF PeekPos, Advance, Inv, TypeOK, Slots
<1>5. Contents \in Seq(T) /\ Len(Contents) = NumOccupied
  BY ContentsType DEF ContentsOK
<1>6. \A k \in 1 .. NumOccupied - 1 : Contents[k + 1] = Entries[PeekPos(k)]
  <2> SUFFICES ASSUME NEW k \in 1 .. NumOccupied - 1
               PROVE  Contents[k + 1] = Entries[PeekPos(k)]
    OBVIOUS
  <2>1. k + 1 \in 1 .. NumOccupied /\ k + 1 - 1 = k
    BY <1>2
  <2> QED BY <2>1, ContentsType DEF ContentsOK
<1>7. Contents[1] = Entries[ReadPos]
  <2>1. PeekPos(0) = ReadPos
    BY DEF PeekPos, Inv, TypeOK, Slots
  <2>2. 1 \in 1 .. NumOccupied /\ 1 - 1 = 0
    BY <1>2
  <2> QED BY <2>1, <2>2, ContentsType DEF ContentsOK
<1>8. Contents' = Tail(Contents)
  BY <1>2, <1>3, <1>4, <1>5, <1>6
<1> QED BY <1>1, <1>2, <1>5, <1>7, <1>8

\* Every step of the ring is a step of the queue, or leaves the queue as it is.
LEMMA NextRefines == Inv /\ Inv' /\ [Next]_vars => [Queue!Next]_<<Contents, ret>>
<1> SUFFICES ASSUME Inv, Inv', [Next]_vars
             PROVE  [Queue!Next]_<<Contents, ret>>
  OBVIOUS
<1>0. Contents \in Seq(T) /\ Len(Contents) = NumOccupied
  BY ContentsType DEF ContentsOK
<1>1. CASE Clear
  <2>1. Contents' = << >>
    BY <1>1 DEF Clear, Contents
  <2> QED BY <1>1, <2>1 DEF Clear, Queue!Next, Queue!Empty
<1>2. ASSUME NEW val \in T, Write(val) PROVE [Queue!Next]_<<Contents, ret>>
  <2>1. CASE IsFull
    BY <1>2, <2>1 DEF Write, vars, Contents, Peek, PeekPos, IsFull
  <2>2. CASE ~IsFull
    <3>1. Contents' = Append(Contents, val)
      BY <1>2, <2>2, WriteAppends
    <3>2. Len(Contents) < NumEntries
      BY <1>0, <2>2 DEF IsFull, Inv, TypeOK
    <3>3. Queue!Put(val)
      BY <3>1, <3>2, <1>2, <2>2 DEF Queue!Put, Write
    <3> QED BY <3>3 DEF Queue!Next
  <2> QED BY <2>1, <2>2
<1>3. CASE Read
  <2>1. CASE IsEmpty
    <3>1. Contents = << >> /\ Contents' = Contents
      BY <1>3, <2>1, <1>0 DEF Read, IsEmpty, Contents, Peek, PeekPos
    <3>2. ret' \in T
      BY DEF Inv, TypeOK
    <3> QED BY <3>1, <3>2 DEF Queue!Next, Queue!GetEmpty
  <2>2. CASE ~IsEmpty
    BY <1>3, <2>2, ReadTakesHead DEF Queue!Next, Queue!Get
  <2> QED BY <2>1, <2>2
<1>4. CASE UNCHANGED vars
  BY <1>4 DEF vars, Contents, Peek, PeekPos
<1> QED BY <1>1, <1>2, <1>3, <1>4 DEF Next

\* FIFO.h implements the bounded queue, whatever its capacity and its words:
\* words leave in the order they were written, only a write to a full ring is
\* dropped, and only a read of an empty ring returns a word not in the queue.
THEOREM RingImplementsQueue == Spec => ImplementsQueue
<1>1. Init => Queue!Init
  BY DEF Init, Queue!Init, Contents
<1> QED BY <1>1, SpecInv, NextRefines, PTL DEF Spec, ImplementsQueue, Queue!Spec

-----------------------------------------------------------------------------
(***************************************************************************)
(* The registers.  The types are inductive by themselves; with them the    *)
(* line is, and the notifications follow from a single step.               *)
(***************************************************************************)
USE DepthAssumption, SettingsAssumption, EnableSetsAssumption

CntType == [enable : BOOLEAN, sendIrq : BOOLEAN, recvIrq : BOOLEAN, error : BOOLEAN]
SyncType == [in : Nibbles \cup {0}, out : Nibbles \cup {0}, irq : BOOLEAN]
QueuesOK == /\ fifo \in [CPUs -> Seq(Words)]
            /\ \A c \in CPUs : Len(fifo[c]) <= Depth
            /\ cnt \in [CPUs -> CntType]
SyncOK == sync \in [CPUs -> SyncType]
IrqsOK == /\ IE \in [CPUs -> SUBSET Irqs] /\ Flags \in [CPUs -> SUBSET Irqs]
          /\ IME \in [CPUs -> BOOLEAN] /\ IRQ \in [CPUs -> BOOLEAN]
          /\ \A c \in CPUs : IRQ[c] <=> Line(IME[c], IE[c], Flags[c])

\* What the invariants amount to, part by part.
IPCInv == QueuesOK /\ SyncOK /\ IrqsOK

LEMMA OtherCPU == \A c \in CPUs : Other(c) \in CPUs /\ Other(c) # c /\ Other(Other(c)) = c
  BY DEF CPUs, Other

LEMMA InitIPCInv == IPCInit => IPCInv
  BY DEF IPCInit, IPCInv, QueuesOK, SyncOK, IrqsOK, CntType, SyncType, Line, Irqs

\* SetIRQ keeps the line in step with the flags it raises.
LEMMA SetIRQOK ==
  ASSUME IrqsOK, NEW c \in CPUs, NEW requested \in SUBSET Irqs, SetIRQ(c, requested)
  PROVE  IrqsOK' /\ Flags'[c] = Flags[c] \cup requested
  BY DEF SetIRQ, IrqsOK, Line

\* The registers' writes update it as well.
LEMMA WritesOK ==
  ASSUME IrqsOK, NEW c \in CPUs,
         \/ \E i \in Irqs : WriteIF(c, {i})
         \/ \E enabled \in EnableSets : WriteIE(c, enabled)
         \/ \E ime \in BOOLEAN : WriteIME(c, ime)
  PROVE  IrqsOK' /\ UNCHANGED <<queues, sync>>
<1>1. ASSUME NEW i \in Irqs, WriteIF(c, {i}) PROVE IrqsOK' /\ UNCHANGED <<queues, sync>>
  BY <1>1 DEF WriteIF, IrqsOK, Line
<1>2. ASSUME NEW enabled \in EnableSets, WriteIE(c, enabled)
      PROVE  IrqsOK' /\ UNCHANGED <<queues, sync>>
  BY <1>2 DEF WriteIE, IrqsOK, Line
<1>3. ASSUME NEW ime \in BOOLEAN, WriteIME(c, ime)
      PROVE  IrqsOK' /\ UNCHANGED <<queues, sync>>
  BY <1>3 DEF WriteIME, IrqsOK, Line
<1> QED BY <1>1, <1>2, <1>3

LEMMA IrqsUnchanged == ASSUME IrqsOK, UNCHANGED irqs PROVE IrqsOK'
  BY DEF IrqsOK, irqs, Line

\* An access that only notes an error keeps the queues.
LEMMA ErrorOK ==
  ASSUME QueuesOK, NEW c \in CPUs, fifo' = fifo,
         cnt' = cnt \/ cnt' = [cnt EXCEPT ![c].error = TRUE]
  PROVE  QueuesOK'
  BY DEF QueuesOK, CntType

\* The send register: a word goes into the queue of c only if there is room.
LEMMA SendOK ==
  ASSUME IPCInv, NEW c \in CPUs, NEW w \in Words, SendWord(c, w)
  PROVE  IPCInv'
<1> USE DEF IPCInv
<1>1. SyncOK'
  BY DEF SendWord, SyncOK
<1>2. CASE UNCHANGED irqs /\ fifo' = fifo
  <2>1. cnt' = cnt \/ cnt' = [cnt EXCEPT ![c].error = TRUE]
    BY <1>2 DEF SendWord, queues
  <2> QED BY <1>1, <1>2, <2>1, ErrorOK, IrqsUnchanged
<1>3. CASE cnt[c].enable /\ ~QueueFull(c)
  <2>1. IrqsOK'
    BY <1>3, SetIRQOK, OtherCPU DEF SendWord, Irqs, QueueFull, QueuesOK
  <2>2. fifo' = [fifo EXCEPT ![c] = Append(fifo[c], w)] /\ cnt' = cnt
    BY <1>3 DEF SendWord
  <2>3. /\ Append(fifo[c], w) \in Seq(Words)
        /\ Len(Append(fifo[c], w)) <= Depth
    BY <1>3 DEF QueuesOK, QueueFull
  <2>4. QueuesOK'
    BY <2>2, <2>3 DEF QueuesOK
  <2> QED BY <1>1, <2>1, <2>4
<1> QED BY <1>2, <1>3 DEF SendWord, queues

\* The receive register: a word leaves the other CPU's queue only if it has one.
LEMMA RecvOK ==
  ASSUME IPCInv, NEW c \in CPUs, RecvWord(c)
  PROVE  IPCInv'
<1> DEFINE s == Other(c)
<1> USE DEF IPCInv
<1>s. s \in CPUs
  BY OtherCPU
<1>1. SyncOK'
  BY DEF RecvWord, SyncOK
<1>2. CASE UNCHANGED irqs /\ fifo' = fifo
  <2>1. cnt' = cnt \/ cnt' = [cnt EXCEPT ![c].error = TRUE]
    BY <1>2 DEF RecvWord, queues
  <2> QED BY <1>1, <1>2, <2>1, ErrorOK, IrqsUnchanged
<1>3. CASE cnt[c].enable /\ ~QueueEmpty(s)
  <2>1. IrqsOK'
    BY <1>3, <1>s, SetIRQOK DEF RecvWord, Irqs, QueueEmpty
  <2>2. fifo' = [fifo EXCEPT ![s] = Tail(fifo[s])] /\ cnt' = cnt
    BY <1>3 DEF RecvWord, Popped, QueueEmpty
  <2>3. Tail(fifo[s]) \in Seq(Words) /\ Len(Tail(fifo[s])) <= Depth
    BY <1>3, <1>s DEF QueuesOK, QueueEmpty
  <2> HIDE DEF s
  <2>4. QueuesOK'
    BY <1>s, <2>2, <2>3 DEF QueuesOK
  <2> QED BY <1>1, <2>1, <2>4
<1> QED BY <1>2, <1>3 DEF RecvWord, queues

\* IPCFIFOCNT, and clearing the queue with it.
LEMMA CntOK ==
  ASSUME IPCInv, NEW c \in CPUs, NEW val \in Settings,
         NEW clear \in BOOLEAN, NEW ack \in BOOLEAN, WriteCnt(c, val, clear, ack)
  PROVE  IPCInv'
<1> USE DEF IPCInv
<1>1. IrqsOK'
  BY SetIRQOK DEF WriteCnt, Irqs
<1>2. SyncOK'
  BY DEF WriteCnt, SyncOK
<1>3. fifo' = [fifo EXCEPT ![c] = IF clear THEN <<>> ELSE fifo[c]]
  BY DEF WriteCnt
<1>4. cnt' \in [CPUs -> CntType]
  BY DEF WriteCnt, QueuesOK, CntType
<1>5. <<>> \in Seq(Words) /\ Len(<<>>) = 0
  OBVIOUS
<1>6. ASSUME clear PROVE QueuesOK'
  <2>1. \A d \in CPUs : fifo'[d] = IF d = c THEN <<>> ELSE fifo[d]
    BY <1>3, <1>6 DEF QueuesOK
  <2>2. fifo' \in [CPUs -> Seq(Words)]
    BY <1>3, <1>5, <1>6 DEF QueuesOK
  <2> QED BY <1>4, <1>5, <2>1, <2>2 DEF QueuesOK
<1>7. ASSUME ~clear PROVE QueuesOK'
  BY <1>3, <1>4, <1>7 DEF QueuesOK
<1>8. QueuesOK'
  BY <1>6, <1>7
<1> QED BY <1>1, <1>2, <1>8

\* IPCSYNC.
LEMMA SyncWriteOK ==
  ASSUME IPCInv, NEW c \in CPUs, NEW n \in Nibbles, NEW request \in BOOLEAN,
         NEW irq \in BOOLEAN, WriteSync(c, n, request, irq)
  PROVE  IPCInv'
<1> DEFINE r == Other(c)
<1> USE DEF IPCInv
<1>r. r \in CPUs /\ r # c
  BY OtherCPU
<1>1. IrqsOK'
  BY <1>r, SetIRQOK DEF WriteSync, Irqs
<1>2. QueuesOK'
  BY DEF WriteSync, queues, QueuesOK
<1>3. sync' = [sync EXCEPT ![r].in = n, ![c].out = n, ![c].irq = irq]
  BY DEF WriteSync
<1> HIDE DEF r
<1>4. [sync[r] EXCEPT !.in = n] \in SyncType
  BY <1>r DEF SyncOK, SyncType
<1>5. [[sync[c] EXCEPT !.out = n] EXCEPT !.irq = irq] \in SyncType
  BY DEF SyncOK, SyncType
<1>6. SyncOK'
  BY <1>r, <1>3, <1>4, <1>5 DEF SyncOK
<1> QED BY <1>1, <1>2, <1>6

\* Every access of either CPU keeps the invariant.
LEMMA NextIPCInv == IPCInv /\ [IPCNext]_ipcvars => IPCInv'
<1> SUFFICES ASSUME IPCInv, [IPCNext]_ipcvars PROVE IPCInv'
  OBVIOUS
<1>1. CASE UNCHANGED ipcvars
  BY <1>1 DEF ipcvars, queues, irqs, IPCInv, QueuesOK, SyncOK, IrqsOK, Line
<1>2. ASSUME NEW c \in CPUs,
             \/ \E w \in Words : SendWord(c, w)
             \/ RecvWord(c)
             \/ \E val \in Settings, clear, ack \in BOOLEAN : WriteCnt(c, val, clear, ack)
      PROVE  IPCInv'
  BY <1>2, SendOK, RecvOK, CntOK
<1>3. ASSUME NEW c \in CPUs, NEW n \in Nibbles, NEW request \in BOOLEAN, NEW irq \in SyncIrqs[c],
             WriteSync(c, n, request, irq)
      PROVE  IPCInv'
  <2>1. irq \in BOOLEAN
    BY SyncIrqsAssumption DEF CPUs
  <2> QED BY <1>3, <2>1, SyncWriteOK
<1>4. ASSUME NEW c \in CPUs,
             \/ \E i \in Irqs : WriteIF(c, {i})
             \/ \E enabled \in EnableSets : WriteIE(c, enabled)
             \/ \E ime \in BOOLEAN : WriteIME(c, ime)
      PROVE  IPCInv'
  BY <1>4, WritesOK DEF IPCInv, queues, QueuesOK, SyncOK
<1> QED BY <1>1, <1>2, <1>3, <1>4 DEF IPCNext

LEMMA SpecIPCInv == IPCSpec => []IPCInv
  BY InitIPCInv, NextIPCInv, PTL DEF IPCSpec

\* The queues never hold more than their depth, and every register its type.
THEOREM IPCTypes == IPCSpec => []IPCTypeOK
<1>1. IPCInv => IPCTypeOK
  BY DEF IPCInv, QueuesOK, SyncOK, IrqsOK, CntType, SyncType, IPCTypeOK
<1> QED BY SpecIPCInv, <1>1, PTL

\* UpdateIRQ is called wherever IME, IE or IF change: the line is never stale.
THEOREM LineIsCurrent == IPCSpec => []LineCurrent
<1>1. IPCInv => LineCurrent
  BY DEF IPCInv, IrqsOK, Line, LineCurrent
<1> QED BY SpecIPCInv, <1>1, PTL

-----------------------------------------------------------------------------
(* Notifications *)

RecvTold == \A c \in CPUs : (cnt'[c].recvIrq /\ fifo'[Other(c)] # <<>> /\ ~WantsRecv(c))
                               => "IPCRecv" \in Flags'[c]

\* An access of CPU d leaves the wishes of the other CPU alone.
LEMMA OtherCnt ==
  ASSUME IPCInv, NEW c \in CPUs, NEW d \in CPUs, c # d,
         \/ \E w \in Words : SendWord(d, w)
         \/ RecvWord(d)
         \/ \E val \in Settings, clear, ack \in BOOLEAN : WriteCnt(d, val, clear, ack)
  PROVE  cnt'[c] = cnt[c]
  BY DEF SendWord, RecvWord, WriteCnt, queues, IPCInv, QueuesOK

\* Whichever comes first, the word or the wish to be told, the receiver has its
\* interrupt pending once both are there.
LEMMA RecvToldStep == IPCInv /\ [IPCNext]_ipcvars => RecvTold
<1> SUFFICES ASSUME IPCInv, [IPCNext]_ipcvars, NEW c \in CPUs,
                    cnt'[c].recvIrq, fifo'[Other(c)] # <<>>, ~WantsRecv(c)
             PROVE  "IPCRecv" \in Flags'[c]
  BY DEF RecvTold
<1> DEFINE s == Other(c)
<1>s. s \in CPUs /\ s # c /\ Other(s) = c
  BY OtherCPU
<1>0. \A d \in CPUs : d = c \/ d = s
  BY DEF CPUs, Other
<1>1. ~(UNCHANGED queues)
  BY DEF WantsRecv, queues, QueueEmpty
<1>2. ASSUME NEW d \in CPUs, NEW w \in Words, SendWord(d, w) PROVE "IPCRecv" \in Flags'[c]
  <2>1. CASE cnt[d].enable /\ ~QueueFull(d)
    <3>1. fifo' = [fifo EXCEPT ![d] = Append(fifo[d], w)] /\ cnt' = cnt
      BY <1>2, <2>1 DEF SendWord
    <3>2. CASE d = s
      <4>1. cnt[c].recvIrq /\ fifo[s] = <<>>
        BY <3>1 DEF WantsRecv, QueueEmpty
      <4>2. SetIRQ(c, {"IPCRecv"})
        BY <1>2, <2>1, <3>2, <1>s, <4>1 DEF SendWord, Arrives, QueueEmpty
      <4> QED BY <4>2 DEF SetIRQ, IPCInv, IrqsOK
    <3>3. CASE d = c
      BY <1>s, <3>1, <3>3 DEF WantsRecv, QueueEmpty, IPCInv, QueuesOK
    <3> QED BY <1>0, <3>2, <3>3
  <2>2. CASE fifo' = fifo
    <3>1. cnt'[c].recvIrq = cnt[c].recvIrq
      BY <1>2, <2>2 DEF SendWord, queues, IPCInv, QueuesOK, CntType
    <3> QED BY <3>1, <2>2 DEF WantsRecv, QueueEmpty
  <2> QED BY <1>2, <2>1, <2>2 DEF SendWord, queues
<1>3. ASSUME NEW d \in CPUs, RecvWord(d) PROVE "IPCRecv" \in Flags'[c]
  <2>1. cnt'[c].recvIrq = cnt[c].recvIrq
    BY <1>3 DEF RecvWord, queues, IPCInv, QueuesOK, CntType
  <2>2. fifo[s] # <<>>
    <3>1. \/ fifo' = fifo
          \/ /\ fifo' = [fifo EXCEPT ![Other(d)] = Popped(Other(d))]
             /\ ~QueueEmpty(Other(d))
      BY <1>3 DEF RecvWord, queues
    <3>2. CASE d = c
      BY <1>s, <3>1, <3>2 DEF QueueEmpty, IPCInv, QueuesOK
    <3>3. CASE d = s
      <4>1. Other(d) = c
        BY <1>s, <3>3
      <4>2. fifo'[s] = fifo[s]
        BY <1>s, <3>1, <4>1 DEF IPCInv, QueuesOK
      <4> QED BY <4>2
    <3> QED BY <1>0, <3>2, <3>3
  <2> QED BY <2>1, <2>2 DEF WantsRecv, QueueEmpty
<1>4. ASSUME NEW d \in CPUs, NEW val \in Settings, NEW clear \in BOOLEAN, NEW ack \in BOOLEAN,
             WriteCnt(d, val, clear, ack)
      PROVE  "IPCRecv" \in Flags'[c]
  <2>1. fifo[s] # <<>>
    BY <1>4, <1>s DEF WriteCnt, IPCInv, QueuesOK
  <2>2. cnt[c].recvIrq = FALSE
    BY <2>1 DEF WantsRecv, QueueEmpty, IPCInv, QueuesOK, CntType
  <2>3. d = c
    BY <1>4, <2>2, OtherCnt
  <2>4. val.recvIrq
    BY <1>4, <2>3 DEF WriteCnt, IPCInv, QueuesOK
  <2>5. Waiting(c)
    BY <2>1 DEF Waiting, QueueEmpty
  <2>6. PICK requested : "IPCRecv" \in requested /\ SetIRQ(c, requested)
    BY <1>4, <2>2, <2>3, <2>4, <2>5 DEF WriteCnt
  <2> QED BY <2>6 DEF SetIRQ, IPCInv, IrqsOK
<1>5. ASSUME NEW d \in CPUs,
             \/ \E n \in Nibbles, request \in BOOLEAN, irq \in SyncIrqs[d] : WriteSync(d, n, request, irq)
             \/ \E i \in Irqs : WriteIF(d, {i})
             \/ \E enabled \in EnableSets : WriteIE(d, enabled)
             \/ \E ime \in BOOLEAN : WriteIME(d, ime)
      PROVE  UNCHANGED queues
  BY <1>5 DEF WriteSync, WriteIF, WriteIE, WriteIME
<1>6. UNCHANGED ipcvars => UNCHANGED queues
  BY DEF ipcvars
<1>7. IPCNext
  BY <1>1, <1>6
<1>8. PICK d \in CPUs :
        \/ (\E w \in Words : SendWord(d, w)) \/ RecvWord(d)
        \/ \E val \in Settings, clear, ack \in BOOLEAN : WriteCnt(d, val, clear, ack)
        \/ UNCHANGED queues
  BY <1>5, <1>7 DEF IPCNext
<1> QED BY <1>1, <1>2, <1>3, <1>4, <1>8

\* A receiver that wants to know of waiting words is told, in every behaviour.
THEOREM ReceiverIsTold == IPCSpec => RecvIsTold
<1>1. IPCInv /\ [IPCNext]_ipcvars => [RecvTold]_ipcvars
  BY RecvToldStep
<1> QED BY SpecIPCInv, <1>1, PTL DEF IPCSpec, RecvIsTold, RecvTold

\* The step that DoneIsTold asks for.
DoneTold == \A c \in CPUs : /\ cnt'[c].sendIrq /\ fifo'[c] = <<>> /\ ~WantsDone(c)
                            /\ ~cnt[c].sendIrq \/ RecvWord(Other(c))
                            => "IPCSendDone" \in Flags'[c]

\* A sequence whose tail is empty has one element.
LEMMA LastOne == ASSUME NEW S, NEW q \in Seq(S), q # <<>>, Tail(q) = <<>> PROVE Len(q) = 1
<1>1. Len(q) \in Nat /\ Len(Tail(q)) = Len(q) - 1
  OBVIOUS
<1>2. Len(<<>>) = 0
  OBVIOUS
<1>3. Len(Tail(q)) = 0
  BY <1>2, Zenon
<1>4. Len(q) - 1 = 0
  BY <1>1, <1>3, Zenon
<1>5. \A n \in Nat : n - 1 = 0 => n = 1
  OBVIOUS
<1> QED BY <1>1, <1>4, <1>5, Zenon

\* The read that takes the last word tells the sender that asked.
LEMMA LastReadTells ==
  ASSUME IPCInv, NEW c \in CPUs, RecvWord(Other(c)),
         cnt'[c].sendIrq, fifo'[c] = <<>>, ~WantsDone(c)
  PROVE  "IPCSendDone" \in Flags'[c]
<1> DEFINE s == Other(c)
<1>s. s \in CPUs /\ s # c /\ Other(s) = c
  BY OtherCPU
<1>1. cnt'[c].sendIrq = cnt[c].sendIrq
  BY <1>s DEF RecvWord, queues, IPCInv, QueuesOK, CntType
<1>2. fifo[c] # <<>>
  BY <1>1 DEF WantsDone, QueueEmpty
<1>3. /\ fifo' = [fifo EXCEPT ![c] = Popped(c)]
      /\ SetIRQ(c, IF Drained(c) /\ cnt[c].sendIrq THEN {"IPCSendDone"} ELSE {})
  BY <1>s, <1>2 DEF RecvWord, queues
<1>4. Len(fifo[c]) = 1
  <2>1. fifo[c] \in Seq(Words) /\ Tail(fifo[c]) = <<>>
    BY <1>3 DEF Popped, IPCInv, QueuesOK
  <2> QED BY <2>1, <1>2, LastOne
<1>5. SetIRQ(c, {"IPCSendDone"})
  BY <1>1, <1>3, <1>4 DEF Drained
<1> QED BY <1>5 DEF SetIRQ, IPCInv, IrqsOK

\* A sender that asks to be told while its queue is empty, or empties it in the
\* same write, is told at once.
LEMMA AskingTells ==
  ASSUME IPCInv, [IPCNext]_ipcvars, NEW c \in CPUs, ~RecvWord(Other(c)),
         cnt'[c].sendIrq, fifo'[c] = <<>>, ~cnt[c].sendIrq
  PROVE  "IPCSendDone" \in Flags'[c]
<1>0. cnt'[c] # cnt[c]
  OBVIOUS
<1>1. ASSUME NEW d \in CPUs, NEW w \in Words, SendWord(d, w)
      PROVE  "IPCSendDone" \in Flags'[c]
  BY <1>1 DEF SendWord, queues, IPCInv, QueuesOK, CntType
<1>2. ASSUME NEW d \in CPUs, RecvWord(d) PROVE "IPCSendDone" \in Flags'[c]
  BY <1>2 DEF RecvWord, queues, IPCInv, QueuesOK, CntType
<1>3. ASSUME NEW d \in CPUs, NEW val \in Settings, NEW clear \in BOOLEAN, NEW ack \in BOOLEAN,
             WriteCnt(d, val, clear, ack)
      PROVE  "IPCSendDone" \in Flags'[c]
  <2>1. d = c
    BY <1>0, <1>3, OtherCnt
  <2>2. val.sendIrq
    BY <1>3, <2>1 DEF WriteCnt, IPCInv, QueuesOK
  <2>3. clear \/ QueueEmpty(c)
    BY <1>3, <2>1 DEF WriteCnt, QueueEmpty, IPCInv, QueuesOK
  <2>4. PICK requested : "IPCSendDone" \in requested /\ SetIRQ(c, requested)
    BY <1>3, <2>1, <2>2, <2>3 DEF WriteCnt
  <2> QED BY <2>4 DEF SetIRQ, IPCInv, IrqsOK
<1>4. ASSUME NEW d \in CPUs,
             \/ \E n \in Nibbles, request \in BOOLEAN, irq \in SyncIrqs[d] : WriteSync(d, n, request, irq)
             \/ \E i \in Irqs : WriteIF(d, {i})
             \/ \E enabled \in EnableSets : WriteIE(d, enabled)
             \/ \E ime \in BOOLEAN : WriteIME(d, ime)
      PROVE  UNCHANGED queues
  BY <1>4 DEF WriteSync, WriteIF, WriteIE, WriteIME
<1>5. ~(UNCHANGED queues)
  BY <1>0 DEF queues
<1>6. IPCNext
  BY <1>5 DEF ipcvars
<1>7. PICK d \in CPUs :
        \/ (\E w \in Words : SendWord(d, w)) \/ RecvWord(d)
        \/ \E val \in Settings, clear, ack \in BOOLEAN : WriteCnt(d, val, clear, ack)
        \/ UNCHANGED queues
  BY <1>4, <1>6 DEF IPCNext
<1> QED BY <1>1, <1>2, <1>3, <1>5, <1>7

\* A sender that wants to know of its empty queue is told, unless it has asked
\* already and clears the queue itself (NDS::ARM9IORead32 at IPCFIFORECV and the writes
\* of IPCFIFOCNT in NDS.cpp).
THEOREM SenderIsTold == IPCSpec => DoneIsTold
<1>1. IPCInv /\ [IPCNext]_ipcvars => DoneTold
  BY LastReadTells, AskingTells DEF DoneTold
<1>2. IPCInv /\ [IPCNext]_ipcvars => [DoneTold]_ipcvars
  BY <1>1
<1> QED BY SpecIPCInv, <1>2, PTL DEF IPCSpec, DoneIsTold, DoneTold

-----------------------------------------------------------------------------
(***************************************************************************)
(* The two programs that are driven by the interrupts of the queues, in    *)
(* the behaviours of Devices in which they run: for every depth of the     *)
(* queues and any number of words, each receives, in order, what the other *)
(* sends, and neither sleeps on a word.                                    *)
(***************************************************************************)
Places == {"main", "halted", "acknowledge", "serve"}

\* What the programs leave as they set it up, and the types of the rest.
DrvTypes ==
  /\ fifo \in [CPUs -> Seq(Nat)] /\ sent \in [CPUs -> Seq(Nat)] /\ received \in [CPUs -> Seq(Nat)]
  /\ cnt \in [CPUs -> CntType] /\ \A c \in CPUs : cnt[c].enable /\ cnt[c].recvIrq
  /\ IE = [c \in CPUs |-> {"IPCSendDone", "IPCRecv"}]
  /\ Flags \in [CPUs -> SUBSET Irqs] /\ served \in [CPUs -> SUBSET Irqs]
  /\ pc \in [CPUs -> Places]

\* An interrupt CPU c still has to see to: pending, or in its handler's hands.
Outstanding(c, i) == i \in Flags[c] \/ (pc[c] = "serve" /\ i \in served[c])

\* What keeps a wakeup from being lost, inside the handlers as well.
Informed ==
  \A c \in CPUs : /\ ~QueueEmpty(Other(c)) => Outstanding(c, "IPCRecv")
                  /\ cnt[c].sendIrq /\ QueueEmpty(c) => Outstanding(c, "IPCSendDone")

DrvInv == DrvTypes /\ InOrder /\ Informed

LEMMA TwoCPUs == \A c, d \in CPUs : d = c \/ d = Other(c)
  BY DEF CPUs, Other

-----------------------------------------------------------------------------
(* A word that is sent, and one that is received, keep the order. *)

LEMMA AppendedLater ==
  ASSUME NEW a \in Seq(Nat), NEW b \in Seq(Nat), NEW w \in Nat
  PROVE  Append(a \o b, w) = a \o Append(b, w)
<1> DEFINE l == Append(a \o b, w)
           r == a \o Append(b, w)
<1>1. l \in Seq(Nat) /\ r \in Seq(Nat)
  OBVIOUS
<1>2. Len(l) = Len(r)
  OBVIOUS
<1>3. \A i \in 1 .. Len(l) : l[i] = r[i]
  OBVIOUS
<1>4. l = r
  <2> HIDE DEF l, r
  <2> QED BY <1>1, <1>2, <1>3, SeqEqual
<1> QED BY <1>4

LEMMA HeadMoves ==
  ASSUME NEW a \in Seq(Nat), NEW b \in Seq(Nat), b # <<>>
  PROVE  Append(a, Head(b)) \o Tail(b) = a \o b
<1> DEFINE l == Append(a, Head(b)) \o Tail(b)
           r == a \o b
<1>0. Len(b) > 0 /\ Head(b) = b[1] /\ Head(b) \in Nat /\ Tail(b) \in Seq(Nat) /\ Len(Tail(b)) = Len(b) - 1
      /\ \A i \in 1 .. Len(b) - 1 : Tail(b)[i] = b[i + 1]
  BY HeadTailProperties
<1>1. l \in Seq(Nat) /\ r \in Seq(Nat)
  BY <1>0
<1>2. Len(l) = Len(r)
  BY <1>0
<1>3. \A i \in 1 .. Len(l) : l[i] = r[i]
  BY <1>0
<1>4. l = r
  <2> HIDE DEF l, r
  <2> QED BY <1>1, <1>2, <1>3, SeqEqual
<1> QED BY <1>4

LEMMA QueueEnds ==
  ASSUME NEW b \in Seq(Nat), NEW w \in Nat
  PROVE  /\ Append(b, w) \in Seq(Nat) /\ Append(b, w) # <<>>
         /\ b # <<>> => /\ Head(b) \in Nat /\ Tail(b) \in Seq(Nat)
                        /\ Tail(b) = <<>> => Len(b) = 1
<1>0. Len(<<>>) = 0
  OBVIOUS
<1>1. Append(b, w) \in Seq(Nat) /\ Len(Append(b, w)) = Len(b) + 1 /\ Len(b) \in Nat
  OBVIOUS
<1>2. Append(b, w) # <<>>
  BY <1>0, <1>1
<1>3. ASSUME b # <<>>
      PROVE  Head(b) \in Nat /\ Tail(b) \in Seq(Nat) /\ (Tail(b) = <<>> => Len(b) = 1)
  <2>1. Head(b) \in Nat /\ Tail(b) \in Seq(Nat) /\ Len(Tail(b)) = Len(b) - 1
    BY <1>3, HeadTailProperties
  <2>2. Tail(b) = <<>> => Len(b) = 1
    <3>1. ASSUME Tail(b) = <<>> PROVE Len(b) = 1
      <4>1. Len(Tail(b)) = 0
        BY <3>1, <1>0, Zenon
      <4> QED BY <4>1, <2>1, <1>1
    <3> QED BY <3>1
  <2> QED BY <2>1, <2>2
<1> QED BY <1>1, <1>2, <1>3

-----------------------------------------------------------------------------
(* The accesses, as the programs make them. *)

LEMMA SendEffect ==
  ASSUME DrvTypes, NEW c \in CPUs, NEW w \in Nat, ~QueueFull(c), SendWord(c, w)
  PROVE  /\ fifo' = [fifo EXCEPT ![c] = Append(fifo[c], w)]
         /\ Flags' = [Flags EXCEPT ![Other(c)] = Flags[Other(c)] \cup
                       (IF QueueEmpty(c) THEN {"IPCRecv"} ELSE {})]
         /\ cnt' = cnt /\ IE' = IE
<1>1. cnt[c].enable /\ cnt[Other(c)].recvIrq
  BY OtherCPU DEF DrvTypes
<1> QED BY <1>1 DEF SendWord, SetIRQ, Arrives, queues

LEMMA RecvEffect ==
  ASSUME DrvTypes, NEW c \in CPUs, ~QueueEmpty(Other(c)), RecvWord(c)
  PROVE  /\ fifo' = [fifo EXCEPT ![Other(c)] = Tail(fifo[Other(c)])]
         /\ Flags' = [Flags EXCEPT ![Other(c)] = Flags[Other(c)] \cup
                       (IF Len(fifo[Other(c)]) = 1 /\ cnt[Other(c)].sendIrq
                        THEN {"IPCSendDone"} ELSE {})]
         /\ cnt' = cnt /\ IE' = IE
<1>1. cnt[c].enable
  BY DEF DrvTypes
<1> QED BY <1>1 DEF RecvWord, SetIRQ, Popped, Drained, queues

LEMMA CntEffect ==
  ASSUME DrvTypes, NEW c \in CPUs, NEW send \in BOOLEAN, WriteCnt(c, Wish(send), FALSE, FALSE)
  PROVE  /\ fifo' = fifo /\ IE' = IE
         /\ Flags' = [Flags EXCEPT ![c] = Flags[c] \cup
                       (IF send /\ ~cnt[c].sendIrq /\ QueueEmpty(c) THEN {"IPCSendDone"} ELSE {})]
         /\ cnt' = [cnt EXCEPT ![c] = [enable |-> TRUE, sendIrq |-> send, recvIrq |-> TRUE,
                                       error |-> cnt[c].error]]
<1>1. cnt[c].recvIrq /\ cnt[c] \in CntType
  BY DEF DrvTypes
<1>2. fifo' = fifo
  BY DEF WriteCnt, DrvTypes
<1>3. cnt' = [cnt EXCEPT ![c] = [enable |-> TRUE, sendIrq |-> send, recvIrq |-> TRUE,
                                 error |-> cnt[c].error]]
  BY <1>1 DEF WriteCnt, Wish, CntType
<1>4. IE' = IE /\ Flags' = [Flags EXCEPT ![c] = Flags[c] \cup
                       (IF send /\ ~cnt[c].sendIrq /\ QueueEmpty(c) THEN {"IPCSendDone"} ELSE {})]
  BY <1>1 DEF WriteCnt, Wish, SetIRQ
<1> QED BY <1>2, <1>3, <1>4

-----------------------------------------------------------------------------
(* Each step of a program keeps the invariant. *)

LEMMA InitDrvInv == DrvInit => DrvInv
<1> SUFFICES ASSUME DrvInit PROVE DrvInv
  OBVIOUS
<1> USE DEF DrvInit, ProgramsInit
<1>1. DrvTypes
  BY DEF DrvTypes, CntType, Irqs, Places, CPUs
<1>2. InOrder
  BY OtherCPU DEF InOrder
<1>3. Informed
  BY OtherCPU DEF Informed, QueueEmpty
<1> QED BY <1>1, <1>2, <1>3 DEF DrvInv

\* The program: ask, halt, take the interrupt.
LEMMA MainKeeps ==
  ASSUME DrvInv, NEW c \in CPUs, AskToSend(c) \/ Halt(c) \/ TriggerIRQ(c)
  PROVE  DrvInv'
<1>1. CASE AskToSend(c)
  <2>1. /\ fifo' = fifo /\ IE' = IE /\ UNCHANGED drivervars /\ ~cnt[c].sendIrq
        /\ Flags' = [Flags EXCEPT ![c] = Flags[c] \cup (IF QueueEmpty(c) THEN {"IPCSendDone"} ELSE {})]
        /\ cnt' = [cnt EXCEPT ![c] = [enable |-> TRUE, sendIrq |-> TRUE, recvIrq |-> TRUE,
                                       error |-> cnt[c].error]]
    BY <1>1, CntEffect DEF AskToSend, DrvInv
  <2>2. DrvTypes'
    BY <2>1 DEF DrvInv, DrvTypes, CntType, drivervars, Irqs
  <2>3. InOrder'
    BY <2>1 DEF DrvInv, InOrder, drivervars
  <2>4. Informed'
    BY <2>1, OtherCPU DEF DrvInv, DrvTypes, CntType, Informed, Outstanding, QueueEmpty, drivervars
  <2> QED BY <2>2, <2>3, <2>4 DEF DrvInv
<1>2. CASE Halt(c) \/ TriggerIRQ(c)
  <2>1. /\ UNCHANGED <<ipcvars, served, sent, received>>
        /\ pc[c] # "serve"
        /\ \E place \in Places \ {"serve"} : pc' = [pc EXCEPT ![c] = place]
    BY <1>2 DEF Halt, TriggerIRQ, Places
  <2>2. DrvTypes'
    BY <2>1 DEF DrvInv, DrvTypes, ipcvars, queues, irqs
  <2>3. InOrder'
    BY <2>1 DEF DrvInv, InOrder, ipcvars, queues
  <2>4. Informed'
    BY <2>1, OtherCPU DEF DrvInv, DrvTypes, Informed, Outstanding, QueueEmpty, ipcvars, queues, irqs
  <2> QED BY <2>2, <2>3, <2>4 DEF DrvInv
<1> QED BY <1>1, <1>2

\* The handler's entry and exit: what it acknowledges it has in hand until
\* it returns with nothing left.
LEMMA EntryKeeps ==
  ASSUME DrvInv, NEW c \in CPUs, Acknowledge(c) \/ Return(c)
  PROVE  DrvInv'
<1>1. CASE Acknowledge(c)
  <2>1. /\ UNCHANGED <<fifo, cnt, IE, sent, received>>
        /\ pc' = [pc EXCEPT ![c] = "serve"]
        /\ served' = [served EXCEPT ![c] = Flags[c] \cap IE[c]]
        /\ Flags' = [Flags EXCEPT ![c] = Flags[c] \ (Flags[c] \cap IE[c])]
        /\ pc[c] # "serve"
    BY <1>1 DEF Acknowledge, WriteIF, queues
  <2>2. DrvTypes'
    BY <2>1 DEF DrvInv, DrvTypes, Places
  <2>3. InOrder'
    BY <2>1 DEF DrvInv, InOrder
  <2>4. Informed'
    BY <2>1, OtherCPU DEF DrvInv, DrvTypes, Informed, Outstanding, QueueEmpty
  <2> QED BY <2>2, <2>3, <2>4 DEF DrvInv
<1>2. CASE Return(c)
  <2>1. /\ UNCHANGED <<fifo, cnt, IE, Flags, served, sent, received>>
        /\ pc' = [pc EXCEPT ![c] = "main"] /\ served[c] = {}
    BY <1>2 DEF Return, ipcvars, queues, irqs
  <2>2. DrvTypes'
    BY <2>1 DEF DrvInv, DrvTypes, Places
  <2>3. InOrder'
    BY <2>1 DEF DrvInv, InOrder
  <2>4. Informed'
    BY <2>1, OtherCPU DEF DrvInv, DrvTypes, Informed, Outstanding, QueueEmpty
  <2> QED BY <2>2, <2>3, <2>4 DEF DrvInv
<1> QED BY <1>1, <1>2

\* Serving the receive interrupt.
LEMMA DrainKeeps ==
  ASSUME DrvInv, NEW c \in CPUs, Drain(c)
  PROVE  DrvInv'
<1> DEFINE s == Other(c)
<1>s. s \in CPUs /\ s # c /\ Other(s) = c
  BY OtherCPU
<1>1. CASE QueueEmpty(s)
  <2>1. /\ UNCHANGED <<fifo, cnt, IE, Flags, pc, sent, received>>
        /\ served' = [served EXCEPT ![c] = served[c] \ {"IPCRecv"}]
    BY <1>1 DEF Drain, ipcvars, queues, irqs
  <2>2. DrvTypes'
    BY <2>1 DEF DrvInv, DrvTypes
  <2>3. InOrder'
    BY <2>1 DEF DrvInv, InOrder
  <2>4. Informed'
    BY <2>1, <1>1, OtherCPU, TwoCPUs DEF DrvInv, DrvTypes, Informed, Outstanding, QueueEmpty
  <2> QED BY <2>2, <2>3, <2>4 DEF DrvInv
<1>2. CASE ~QueueEmpty(s)
  <2>1. /\ fifo' = [fifo EXCEPT ![s] = Tail(fifo[s])]
        /\ Flags' = [Flags EXCEPT ![s] = Flags[s] \cup
                      (IF Len(fifo[s]) = 1 /\ cnt[s].sendIrq THEN {"IPCSendDone"} ELSE {})]
        /\ received' = [received EXCEPT ![c] = Append(received[c], Head(fifo[s]))]
        /\ UNCHANGED <<cnt, IE, pc, served, sent>>
        /\ pc[c] = "serve" /\ "IPCRecv" \in served[c]
    BY <1>2, RecvEffect DEF Drain, DrvInv
  <2> HIDE DEF s
  <2>2. /\ fifo[s] \in Seq(Nat) /\ fifo[s] # <<>>
        /\ Tail(fifo[s]) \in Seq(Nat) /\ Head(fifo[s]) \in Nat
        /\ Tail(fifo[s]) = <<>> => Len(fifo[s]) = 1
    <3>1. fifo[s] \in Seq(Nat) /\ fifo[s] # <<>>
      BY <1>s, <1>2 DEF DrvInv, DrvTypes, QueueEmpty
    <3> QED BY <3>1, QueueEnds
  <2>3. DrvTypes'
    <3> USE DEF DrvInv, DrvTypes
    <3>1. fifo' \in [CPUs -> Seq(Nat)]
      BY <2>1, <2>2, <1>s
    <3>2. received' \in [CPUs -> Seq(Nat)]
      <4>1. Append(received[c], Head(fifo[s])) \in Seq(Nat)
        BY <2>2, QueueEnds
      <4> QED BY <2>1, <4>1
    <3>3. Flags' \in [CPUs -> SUBSET Irqs]
      BY <2>1, <1>s DEF Irqs
    <3> QED BY <2>1, <3>1, <3>2, <3>3
  <2>4. InOrder'
    <3> SUFFICES ASSUME NEW d \in CPUs PROVE (sent[d] = received[Other(d)] \o fifo[d])'
      BY DEF InOrder
    <3>1. CASE d = s
      <4>1. received[c] \in Seq(Nat) /\ sent[s] = received[c] \o fifo[s]
        BY <1>s DEF DrvInv, DrvTypes, InOrder
      <4>2. received'[c] \o fifo'[s] = received[c] \o fifo[s]
        BY <2>1, <2>2, <4>1, <1>s, HeadMoves DEF DrvInv, DrvTypes
      <4> QED BY <3>1, <4>1, <4>2, <2>1, <1>s
    <3>2. CASE d = c
      <4>1. received'[s] = received[s] /\ fifo'[c] = fifo[c] /\ sent' = sent
        BY <2>1, <1>s DEF DrvInv, DrvTypes
      <4>2. Other(c) = s
        BY DEF s
      <4> QED BY <3>2, <4>1, <4>2 DEF DrvInv, InOrder
    <3> QED BY <3>1, <3>2, TwoCPUs DEF s
  <2>5. Informed'
    <3> SUFFICES ASSUME NEW d \in CPUs
                 PROVE  /\ (~QueueEmpty(Other(d)) => Outstanding(d, "IPCRecv"))'
                        /\ (cnt[d].sendIrq /\ QueueEmpty(d) => Outstanding(d, "IPCSendDone"))'
      BY DEF Informed
    <3>1. CASE d = c
      <4>1. Other(c) = s
        BY DEF s
      <4> QED BY <3>1, <4>1, <2>1, <1>s DEF DrvInv, DrvTypes, Informed, Outstanding, QueueEmpty
    <3>2. CASE d = s
      BY <3>2, <2>1, <2>2, <1>s DEF DrvInv, DrvTypes, Informed, Outstanding, QueueEmpty
    <3> QED BY <3>1, <3>2, TwoCPUs DEF s
  <2> QED BY <2>3, <2>4, <2>5 DEF DrvInv
<1> QED BY <1>1, <1>2

\* Serving the send-done interrupt.
LEMMA FillKeeps ==
  ASSUME DrvInv, NEW c \in CPUs, Fill(c)
  PROVE  DrvInv'
<1> DEFINE s == Other(c)
<1>s. s \in CPUs /\ s # c /\ Other(s) = c
  BY OtherCPU
<1>0. pc[c] = "serve" /\ "IPCSendDone" \in served[c] /\ UNCHANGED <<pc, received>>
  BY DEF Fill
<1>1. CASE ~QueueFull(c) /\ SendWord(c, Number(c))
           /\ sent' = [sent EXCEPT ![c] = Append(@, Number(c))] /\ UNCHANGED served
  <2> DEFINE w == Number(c)
  <2>1. w \in Nat /\ sent[c] \in Seq(Nat) /\ fifo[c] \in Seq(Nat)
    BY DEF DrvInv, DrvTypes, Number
  <2>2. /\ fifo' = [fifo EXCEPT ![c] = Append(fifo[c], w)]
        /\ Flags' = [Flags EXCEPT ![s] = Flags[s] \cup
                      (IF QueueEmpty(c) THEN {"IPCRecv"} ELSE {})]
        /\ sent' = [sent EXCEPT ![c] = Append(sent[c], w)]
        /\ UNCHANGED <<cnt, IE, pc, served, received>>
    BY <1>0, <1>1, <2>1, SendEffect DEF DrvInv
  <2> HIDE DEF s, w
  <2>3. Append(fifo[c], w) \in Seq(Nat) /\ Append(fifo[c], w) # <<>> /\ Append(sent[c], w) \in Seq(Nat)
    BY <2>1, QueueEnds
  <2>4. DrvTypes'
    BY <2>2, <2>3, <1>s DEF DrvInv, DrvTypes, Irqs
  <2>5. InOrder'
    <3> SUFFICES ASSUME NEW d \in CPUs PROVE (sent[d] = received[Other(d)] \o fifo[d])'
      BY DEF InOrder
    <3>1. CASE d = c
      <4>1. Other(c) = s
        BY DEF s
      <4>2. received[s] \in Seq(Nat) /\ sent[c] = received[s] \o fifo[c]
        BY <4>1, <1>s DEF DrvInv, DrvTypes, InOrder
      <4>3. Append(received[s] \o fifo[c], w) = received[s] \o Append(fifo[c], w)
        BY <4>2, <2>1, AppendedLater
      <4>4. sent'[c] = Append(sent[c], w) /\ fifo'[c] = Append(fifo[c], w) /\ received' = received
        BY <2>2 DEF DrvInv, DrvTypes
      <4> QED BY <3>1, <4>1, <4>2, <4>3, <4>4
    <3>2. CASE d = s
      <4>1. sent'[s] = sent[s] /\ fifo'[s] = fifo[s] /\ received' = received
        BY <2>2, <1>s DEF DrvInv, DrvTypes
      <4> QED BY <3>2, <4>1, <1>s DEF DrvInv, InOrder
    <3> QED BY <3>1, <3>2, TwoCPUs DEF s
  <2>6. Informed'
    <3> SUFFICES ASSUME NEW d \in CPUs
                 PROVE  /\ (~QueueEmpty(Other(d)) => Outstanding(d, "IPCRecv"))'
                        /\ (cnt[d].sendIrq /\ QueueEmpty(d) => Outstanding(d, "IPCSendDone"))'
      BY DEF Informed
    <3>1. CASE d = c
      <4>1. Other(c) = s
        BY DEF s
      <4> QED BY <3>1, <4>1, <2>2, <2>3, <1>s DEF DrvInv, DrvTypes, Informed, Outstanding, QueueEmpty
    <3>2. CASE d = s
      BY <3>2, <2>2, <2>3, <1>s DEF DrvInv, DrvTypes, Informed, Outstanding, QueueEmpty
    <3> QED BY <3>1, <3>2, TwoCPUs DEF s
  <2> QED BY <2>4, <2>5, <2>6 DEF DrvInv
<1>2. CASE QueueFull(c) /\ served' = [served EXCEPT ![c] = @ \ {"IPCSendDone"}]
           /\ UNCHANGED <<ipcvars, sent>>
  <2>1. ~QueueEmpty(c)
    BY <1>2, DepthAssumption DEF QueueFull, QueueEmpty
  <2>2. DrvTypes'
    BY <1>0, <1>2 DEF DrvInv, DrvTypes, ipcvars, queues, irqs
  <2>3. InOrder'
    BY <1>0, <1>2 DEF DrvInv, InOrder, ipcvars, queues
  <2>4. Informed'
    BY <1>0, <1>2, <2>1, OtherCPU DEF DrvInv, DrvTypes, Informed, Outstanding, QueueEmpty, ipcvars, queues, irqs
  <2> QED BY <2>2, <2>3, <2>4 DEF DrvInv
<1>3. CASE WriteCnt(c, Wish(FALSE), FALSE, FALSE)
           /\ served' = [served EXCEPT ![c] = @ \ {"IPCSendDone"}] /\ UNCHANGED sent
  <2>1. /\ fifo' = fifo /\ IE' = IE /\ Flags' = [Flags EXCEPT ![c] = Flags[c]]
        /\ cnt' = [cnt EXCEPT ![c] = [enable |-> TRUE, sendIrq |-> FALSE, recvIrq |-> TRUE,
                                       error |-> cnt[c].error]]
    BY <1>3, CntEffect DEF DrvInv
  <2>2. DrvTypes'
    BY <1>0, <1>3, <2>1 DEF DrvInv, DrvTypes, CntType
  <2>3. InOrder'
    BY <1>0, <1>3, <2>1 DEF DrvInv, InOrder
  <2>4. Informed'
    BY <1>0, <1>3, <2>1, OtherCPU DEF DrvInv, DrvTypes, CntType, Informed, Outstanding, QueueEmpty
  <2> QED BY <2>2, <2>3, <2>4 DEF DrvInv
<1> QED BY <1>1, <1>2, <1>3 DEF Fill

\* What a program does keeps the invariant, and so does leaving it alone.
LEMMA StepKeeps == ASSUME DrvInv, NEW c \in CPUs, Step(c) PROVE DrvInv'
  BY MainKeeps, EntryKeeps, DrainKeeps, FillKeeps DEF Step

LEMMA StutterKeeps == ASSUME DrvInv, UNCHANGED drvvars PROVE DrvInv'
<1>1. UNCHANGED <<fifo, cnt, IE, Flags, pc, served, sent, received>>
  BY DEF drvvars, ipcvars, queues, irqs, drivervars
<1> QED BY <1>1 DEF DrvInv, DrvTypes, InOrder, Informed, Outstanding, QueueEmpty

\* Outside its handler a CPU's business is all pending.
LEMMA InformedWakes == DrvInv => NoLostWakeup
  BY DEF DrvInv, DrvTypes, Informed, Outstanding, NoLostWakeup, Places

-----------------------------------------------------------------------------
(* The programs among the other devices *)

\* While the programs run, their invariant.
ProgramsInv == device = "driver" => DrvInv

LEMMA InitProgramsInv == DevInit => ProgramsInv
  BY InitDrvInv DEF DevInit, ProgramsInv

LEMMA NextProgramsInv == ProgramsInv /\ [DevNext]_devvars => ProgramsInv'
<1> SUFFICES ASSUME ProgramsInv, [DevNext]_devvars, device' = "driver" PROVE DrvInv'
  BY DEF ProgramsInv
<1>1. CASE UNCHANGED devvars
  BY <1>1, StutterKeeps DEF devvars, ProgramsInv
<1>2. CASE DevNext
  <2>1. device = "driver" /\ DrvInv
    BY <1>2 DEF DevNext, ProgramsInv
  <2>2. \E c \in CPUs : Step(c)
    BY <1>2, <2>1 DEF DevNext, RingMoves, IPCMoves, TimersMove, GeometryMoves, SoundMoves, ProgramMoves
  <2> QED BY <2>1, <2>2, StepKeeps
<1> QED BY <1>1, <1>2

\* Words are neither lost, repeated nor reordered between two programs that
\* take their interrupts whenever these come: the registers IPCFIFOSEND and
\* IPCFIFORECV (NDS.cpp) as programs use them.
THEOREM ProgramsKeepOrder == DevSpec => []DriverInOrder
<1>1. ProgramsInv => DriverInOrder
  BY DEF ProgramsInv, DrvInv, DriverInOrder
<1> QED BY <1>1, InitProgramsInv, NextProgramsInv, PTL DEF DevSpec

\* No program sleeps on a word that waits for it, or on a queue it may fill:
\* the interrupts the code raises when a word comes, when the last one is read
\* and when a program asks (NDS.cpp, IPCFIFOSEND, IPCFIFORECV, IPCFIFOCNT).
THEOREM ProgramsWakeUp == DevSpec => []DriverWakesUp
<1>1. ProgramsInv => DriverWakesUp
  BY InformedWakes DEF ProgramsInv, DriverWakesUp
<1> QED BY <1>1, InitProgramsInv, NextProgramsInv, PTL DEF DevSpec
=============================================================================
