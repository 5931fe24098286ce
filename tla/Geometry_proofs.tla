-------------------------- MODULE Geometry_proofs --------------------------
(***************************************************************************)
(* What is proved of the way into the 3D engine, for every depth of its    *)
(* queues, every program and any channels: commands are executed in the    *)
(* order they were written, what the registers tell of the engine is so,   *)
(* and a transfer moves the words it was asked for.                        *)
(*                                                                         *)
(* Commands are written, refilled and executed in folds over sequences of  *)
(* any length.  A fold is a recursive function: FoldTable shows that there *)
(* is one that satisfies its equation, the ...Steps lemmas turn a fold     *)
(* into the table of the states it passes through, and CountUp takes an    *)
(* invariant from one of them to the next.                                 *)
(***************************************************************************)
EXTENDS Devices, SequenceTheorems, FiniteSetTheorems, WellFoundedInduction, TLAPS

-----------------------------------------------------------------------------
(* Folds.  A fold is a recursive function on the sets of indices, which is     *)
(* one that satisfies its equation only if there is one: FoldTable makes it.   *)

\* Counting up to n.
LEMMA CountUp ==
  ASSUME NEW n \in Nat, NEW S, 0 \in S, \A k \in 0 .. n - 1 : k \in S => k + 1 \in S
  PROVE  \A k \in 0 .. n : k \in S
<1> DEFINE M == {k \in 0 .. n : k \notin S}
<1> SUFFICES ASSUME M # {} PROVE FALSE
  OBVIOUS
<1>1. \E m \in M : \A k \in M : ~(<<k, m>> \in OpToRel(<, Nat))
  <2>1. M \subseteq Nat
    OBVIOUS
  <2> HIDE DEF M
  <2> QED BY <2>1, NatLessThanWellFounded, WFMin
<1>2. PICK m \in M : \A k \in M : ~(k < m)
  <2>1. M \subseteq Nat
    OBVIOUS
  <2> HIDE DEF M
  <2> QED BY <1>1, <2>1 DEF OpToRel
<1>3. m - 1 \in 0 .. n - 1 /\ m - 1 \notin M
  BY <1>2
<1> QED BY <1>3

\* The largest index of a set.
LEMMA TopIn ==
  ASSUME NEW n \in Nat, NEW t \in SUBSET (1 .. n), t # {}
  PROVE  Max(t) \in t
<1> DEFINE M == {k \in 0 .. n : n - k \in t}
<1>1. M \subseteq Nat
  OBVIOUS
<1>2. M # {}
  <2>1. PICK x \in t : TRUE
    OBVIOUS
  <2>2. n - x \in M
    OBVIOUS
  <2> QED BY <2>2
<1>3. \E m \in M : \A k \in M : ~(<<k, m>> \in OpToRel(<, Nat))
  <2> HIDE DEF M
  <2> QED BY <1>1, <1>2, NatLessThanWellFounded, WFMin
<1>4. PICK m \in M : \A k \in M : ~(k < m)
  <2> HIDE DEF M
  <2> QED BY <1>1, <1>3 DEF OpToRel
<1>5. \A y \in t : n - m >= y
  <2> SUFFICES ASSUME NEW y \in t PROVE n - m >= y
    OBVIOUS
  <2>1. n - y \in M
    OBVIOUS
  <2> QED BY <1>4, <2>1
<1> QED BY <1>4, <1>5 DEF Max

\* What the largest index is.
LEMMA TopIs ==
  ASSUME NEW k \in Nat, NEW t \in SUBSET (1 .. k), k \in t
  PROVE  Max(t) = k
<1>1. k \in t /\ \A y \in t : k >= y
  OBVIOUS
<1>2. \A x \in t : (\A y \in t : x >= y) => x = k
  BY <1>1
<1> QED BY <1>1, <1>2 DEF Max

FoldsTo(f, t, op, base, s) == f[t] = IF t = {} THEN base ELSE op[<<f[t \ {Max(t)}], s[Max(t)]>>]

\* There is a table of what the fold of a binary operation yields on each set
\* of indices.
LEMMA FoldTable ==
  ASSUME NEW D, NEW E, NEW op \in [D \X E -> D], NEW base \in D, NEW s \in Seq(E)
  PROVE  \E f \in [SUBSET (1 .. Len(s)) -> D] :
           \A t \in SUBSET (1 .. Len(s)) : FoldsTo(f, t, op, base, s)
<1> DEFINE S == {k \in 0 .. Len(s) :
                   \E f \in [SUBSET (1 .. k) -> D] : \A t \in SUBSET (1 .. k) : FoldsTo(f, t, op, base, s)}
<1>1. 0 \in S
  <2> DEFINE f == [t \in SUBSET (1 .. 0) |-> base]
  <2>1. \A t \in SUBSET (1 .. 0) : t = {}
    OBVIOUS
  <2>2. f \in [SUBSET (1 .. 0) -> D] /\ \A t \in SUBSET (1 .. 0) : FoldsTo(f, t, op, base, s)
    BY <2>1 DEF FoldsTo
  <2> QED BY <2>2
<1>2. ASSUME NEW k \in 0 .. Len(s) - 1, k \in S PROVE k + 1 \in S
  <2>1. PICK f \in [SUBSET (1 .. k) -> D] : \A t \in SUBSET (1 .. k) : FoldsTo(f, t, op, base, s)
    BY <1>2
  <2>2. k \in Nat /\ k + 1 \in 1 .. Len(s) /\ s[k + 1] \in E
    BY <1>2
  <2>3. \A t \in SUBSET (1 .. k + 1) : /\ t \ {k + 1} \in SUBSET (1 .. k)
                                       /\ k + 1 \notin t => t \in SUBSET (1 .. k)
    BY <2>2
  <2> DEFINE g == [t \in SUBSET (1 .. k + 1) |->
                     IF k + 1 \in t THEN op[<<f[t \ {k + 1}], s[k + 1]>>] ELSE f[t]]
  <2>4. g \in [SUBSET (1 .. k + 1) -> D]
    <3> SUFFICES ASSUME NEW t \in SUBSET (1 .. k + 1)
                 PROVE  (IF k + 1 \in t THEN op[<<f[t \ {k + 1}], s[k + 1]>>] ELSE f[t]) \in D
      OBVIOUS
    <3>1. f[t \ {k + 1}] \in D /\ (k + 1 \notin t => f[t] \in D)
      BY <2>3
    <3> QED BY <3>1, <2>2
  <2>5. ASSUME NEW t \in SUBSET (1 .. k + 1) PROVE FoldsTo(g, t, op, base, s)
    <3>1. CASE k + 1 \in t
      <4>1. Max(t) = k + 1 /\ t # {}
        BY <2>2, <3>1, TopIs
      <4>2. t \ {k + 1} \in SUBSET (1 .. k + 1) /\ g[t \ {k + 1}] = f[t \ {k + 1}]
        BY <2>3
      <4> QED BY <3>1, <4>1, <4>2 DEF FoldsTo
    <3>2. CASE k + 1 \notin t
      <4>1. t \in SUBSET (1 .. k) /\ g[t] = f[t]
        BY <2>3, <3>2
      <4>2. t \ {Max(t)} \in SUBSET (1 .. k + 1) /\ k + 1 \notin t \ {Max(t)}
        BY <3>2
      <4>3. g[t \ {Max(t)}] = f[t \ {Max(t)}]
        BY <4>2
      <4> QED BY <2>1, <4>1, <4>3 DEF FoldsTo
    <3> QED BY <3>1, <3>2
  <2> HIDE DEF g
  <2> QED BY <1>2, <2>2, <2>4, <2>5
<1>3. Len(s) \in Nat
  OBVIOUS
<1> HIDE DEF S
<1>4. \A k \in 0 .. Len(s) - 1 : k \in S => k + 1 \in S
  BY <1>2
<1>5. \A k \in 0 .. Len(s) : k \in S
  BY <1>1, <1>3, <1>4, CountUp
<1>6. Len(s) \in S
  BY <1>3, <1>5
<1> QED BY <1>6 DEF S

-----------------------------------------------------------------------------
\* The index sets a fold over a sequence goes through.
LEMMA UpTo ==
  ASSUME NEW k \in Nat \ {0}
  PROVE  Max(1 .. k) = k /\ (1 .. k) \ {k} = 1 .. k - 1 /\ 1 .. k # {}
<1>1. k \in 1 .. k
  OBVIOUS
<1> QED BY <1>1, TopIs

-----------------------------------------------------------------------------
(* Queues *)

\* A command added to the last of two queues, and one taken from the first.
LEMMA QueuesGrow ==
  ASSUME NEW S, NEW p \in Seq(S), NEW q \in Seq(S), NEW e \in S
  PROVE  p \o Append(q, e) = Append(p \o q, e) /\ Append(p \o q, e) = (p \o q) \o <<e>>
<1>1. Append(q, e) = q \o <<e>> /\ Append(p \o q, e) = (p \o q) \o <<e>> /\ p \o q \in Seq(S)
  BY AppendIsConcat, ConcatProperties
<1>2. <<e>> \in Seq(S)
  OBVIOUS
<1> QED BY <1>1, <1>2, ConcatAssociative

\* Taking the first of two queues takes the first of both.
LEMMA QueuesShrink ==
  ASSUME NEW S, NEW p \in Seq(S), NEW q \in Seq(S), p # <<>>
  PROVE  Tail(p) \o q = Tail(p \o q) /\ p \o q # <<>> /\ Head(p \o q) = Head(p) /\ p \o q \in Seq(S)
<1> DEFINE l == Tail(p) \o q
           r == Tail(p \o q)
<1>1. /\ Tail(p) \in Seq(S) /\ Len(Tail(p)) = Len(p) - 1 /\ Len(p) \in Nat /\ Len(p) > 0
      /\ \A i \in 1 .. Len(p) - 1 : Tail(p)[i] = p[i + 1]
  BY HeadTailProperties
<1>2. /\ p \o q \in Seq(S) /\ Len(p \o q) = Len(p) + Len(q) /\ Len(q) \in Nat /\ p \o q # <<>>
      /\ \A i \in 1 .. Len(p) + Len(q) : (p \o q)[i] = IF i <= Len(p) THEN p[i] ELSE q[i - Len(p)]
  BY <1>1, ConcatProperties
<1>3. /\ l \in Seq(S) /\ Len(l) = Len(p) - 1 + Len(q)
      /\ \A i \in 1 .. Len(p) - 1 + Len(q) :
           l[i] = IF i <= Len(p) - 1 THEN Tail(p)[i] ELSE q[i - (Len(p) - 1)]
  BY <1>1, <1>2, ConcatProperties
<1>4. r \in Seq(S) /\ Len(r) = Len(p) + Len(q) - 1 /\ \A i \in 1 .. Len(r) : r[i] = (p \o q)[i + 1]
  BY <1>2, HeadTailProperties
<1>5. \A i \in 1 .. Len(l) : l[i] = r[i]
  <2> SUFFICES ASSUME NEW i \in 1 .. Len(p) - 1 + Len(q) PROVE l[i] = r[i]
    BY <1>3
  <2>1. r[i] = IF i + 1 <= Len(p) THEN p[i + 1] ELSE q[(i + 1) - Len(p)]
    <3>1. i + 1 \in 1 .. Len(p) + Len(q) /\ i \in 1 .. Len(r)
      BY <1>1, <1>2, <1>4
    <3> HIDE DEF r
    <3> QED BY <1>2, <1>4, <3>1
  <2>2. (i + 1) - Len(p) = i - (Len(p) - 1) /\ (i + 1 <= Len(p) <=> i <= Len(p) - 1) /\ i >= 1
    BY <1>1, <1>2
  <2> HIDE DEF l, r
  <2> QED BY <1>1, <1>3, <2>1, <2>2
<1>6. l = r
  <2> HIDE DEF l, r
  <2>1. Len(l) = Len(r)
    BY <1>1, <1>2, <1>3, <1>4
  <2> QED BY <1>3, <1>4, <1>5, <2>1, SeqEqual
<1>7. Head(p \o q) = Head(p)
  BY <1>1, <1>2
<1> QED BY <1>2, <1>6, <1>7

\* Half a pipe moves up.
MovesUp(S, p, q, n) ==
  /\ SubSeq(q, 1, n) \in Seq(S) /\ Len(SubSeq(q, 1, n)) = n
  /\ SubSeq(q, n + 1, Len(q)) \in Seq(S) /\ Len(SubSeq(q, n + 1, Len(q))) = Len(q) - n
  /\ (p \o SubSeq(q, 1, n)) \o SubSeq(q, n + 1, Len(q)) = p \o q

\* Commands moved from the head of one queue to the end of the one before
\* keep their places.
LEMMA QueueMovesUp ==
  ASSUME NEW S, NEW p \in Seq(S), NEW q \in Seq(S), NEW n \in 0 .. Len(q)
  PROVE  MovesUp(S, p, q, n)
<1>1. Len(q) \in Nat /\ \A i \in 1 .. Len(q) : q[i] \in S
  OBVIOUS
<1>2. SubSeq(q, 1, n) \in Seq(S) /\ Len(SubSeq(q, 1, n)) = n
  BY <1>1, SubSeqProperties
<1>3. SubSeq(q, n + 1, Len(q)) \in Seq(S) /\ Len(SubSeq(q, n + 1, Len(q))) = Len(q) - n
  BY <1>1, SubSeqProperties
<1>4. SubSeq(q, 1, n) \o SubSeq(q, n + 1, Len(q)) = q
  <2>1. SubSeq(q, 1, n) \o SubSeq(q, n + 1, Len(q)) = SubSeq(q, 1, Len(q))
    <3>1. 1 \in 1 .. Len(q) + 1 /\ n \in 1 - 1 .. Len(q) /\ Len(q) \in n .. Len(q)
      BY <1>1
    <3> QED BY <3>1, ConcatAdjacentSubSeq
  <2> QED BY <2>1, SubSeqFull
<1>5. (p \o SubSeq(q, 1, n)) \o SubSeq(q, n + 1, Len(q))
        = p \o (SubSeq(q, 1, n) \o SubSeq(q, n + 1, Len(q)))
  <2> DEFINE a == SubSeq(q, 1, n)
             b == SubSeq(q, n + 1, Len(q))
  <2>1. a \in Seq(S) /\ b \in Seq(S)
    BY <1>2, <1>3
  <2> HIDE DEF a, b
  <2>2. (p \o a) \o b = p \o (a \o b)
    BY <2>1, ConcatAssociative
  <2> QED BY <2>2 DEF a, b
<1> QED BY <1>2, <1>3, <1>4, <1>5 DEF MovesUp

\* The first of the last queue goes to the end of the one before.
LEMMA HeadGoesOver ==
  ASSUME NEW S, NEW w \in Seq(S), NEW s \in Seq(S), s # <<>>
  PROVE  /\ SubSeq(s, 2, Len(s)) \in Seq(S) /\ Len(SubSeq(s, 2, Len(s))) = Len(s) - 1
         /\ Append(w, s[1]) \o SubSeq(s, 2, Len(s)) = w \o s
<1>1. Len(s) \in Nat /\ Len(s) > 0 /\ s[1] \in S /\ <<s[1]>> \in Seq(S)
  OBVIOUS
<1>2. /\ SubSeq(s, 1, 1) = <<s[1]>>
      /\ SubSeq(s, 2, Len(s)) \in Seq(S) /\ Len(SubSeq(s, 2, Len(s))) = Len(s) - 1
      /\ (w \o SubSeq(s, 1, 1)) \o SubSeq(s, 2, Len(s)) = w \o s
  <2>1. 1 \in 0 .. Len(s) /\ 1 + 1 = 2
    BY <1>1
  <2>2. SubSeq(s, 1, 1) = <<s[1]>>
    <3>1. 1 \in 1 .. Len(s) /\ 1 \in 1 .. Len(s)
      BY <1>1
    <3>2. SubSeq(s, 1, 1) = SubSeq(s, 1, 0) \o <<s[1]>>
      BY <3>1, SubSeqRecursiveSecond
    <3>3. SubSeq(s, 1, 0) = <<>>
      BY SubSeqEmpty
    <3> QED BY <1>1, <3>2, <3>3, ConcatEmptySeq
  <2>3. SubSeq(s, 2, Len(s)) \in Seq(S) /\ Len(SubSeq(s, 2, Len(s))) = Len(s) - 1
    <3>1. 2 \in Int /\ Len(s) \in Int /\ \A i \in 2 .. Len(s) : s[i] \in S
      OBVIOUS
    <3>2. /\ SubSeq(s, 2, Len(s)) \in Seq(S)
          /\ Len(SubSeq(s, 2, Len(s))) = IF 2 <= Len(s) THEN Len(s) - 2 + 1 ELSE 0
      BY <3>1, SubSeqProperties
    <3>3. (IF 2 <= Len(s) THEN Len(s) - 2 + 1 ELSE 0) = Len(s) - 1
      <4> DEFINE len == Len(s)
      <4>1. len \in Nat /\ len > 0
        BY <1>1
      <4> HIDE DEF len
      <4>2. (IF 2 <= len THEN len - 2 + 1 ELSE 0) = len - 1
        BY <4>1
      <4> QED BY <4>2 DEF len
    <3> QED BY <3>2, <3>3
  <2>4. <<s[1]>> \o SubSeq(s, 2, Len(s)) = s
    <3>1. SubSeq(s, 1, 1) \o SubSeq(s, 1 + 1, Len(s)) = SubSeq(s, 1, Len(s))
      <4>1. 1 \in 1 .. Len(s) + 1 /\ 1 \in 1 - 1 .. Len(s) /\ Len(s) \in 1 .. Len(s)
        BY <1>1
      <4> QED BY <4>1, ConcatAdjacentSubSeq
    <3>2. 1 + 1 = 2
      OBVIOUS
    <3> QED BY <2>2, <3>1, <3>2, SubSeqFull
  <2>5. (w \o <<s[1]>>) \o SubSeq(s, 2, Len(s)) = w \o (<<s[1]>> \o SubSeq(s, 2, Len(s)))
    <3> DEFINE a == <<s[1]>>
               b == SubSeq(s, 2, Len(s))
    <3>1. a \in Seq(S) /\ b \in Seq(S)
      BY <1>1, <2>3
    <3> HIDE DEF a, b
    <3>2. (w \o a) \o b = w \o (a \o b)
      BY <3>1, ConcatAssociative
    <3> QED BY <3>2 DEF a, b
  <2> QED BY <2>2, <2>3, <2>4, <2>5
<1>3. Append(w, s[1]) = w \o <<s[1]>>
  BY <1>1, AppendIsConcat
<1> QED BY <1>2, <1>3

\* Matrix pushes and pops in a queue.
Stack(s) == {k \in 1 .. Len(s) : s[k] = "stack"}
Count(s) == Cardinality(Stack(s))

LEMMA CountType == ASSUME NEW S, NEW s \in Seq(S) PROVE Count(s) \in Nat /\ IsFiniteSet(Stack(s))
<1>1. IsFiniteSet(1 .. Len(s))
  BY FS_Interval
<1>2. IsFiniteSet(Stack(s))
  BY <1>1, FS_Subset DEF Stack
<1> QED BY <1>2, FS_CardinalityType DEF Count

LEMMA CountEmpty == Count(<<>>) = 0
<1>1. Stack(<<>>) = {}
  BY DEF Stack
<1> QED BY <1>1, FS_EmptySet DEF Count

\* A command added counts if it is a push or a pop.
LEMMA CountAppend ==
  ASSUME NEW S, NEW s \in Seq(S), NEW e \in S
  PROVE  Count(Append(s, e)) = IF e = "stack" THEN Count(s) + 1 ELSE Count(s)
<1>1. Len(Append(s, e)) = Len(s) + 1 /\ Len(s) \in Nat
      /\ \A k \in 1 .. Len(s) : Append(s, e)[k] = s[k]
  BY AppendProperties
<1>2. Append(s, e)[Len(s) + 1] = e
  BY AppendProperties
<1>3. Stack(Append(s, e)) = IF e = "stack" THEN Stack(s) \cup {Len(s) + 1} ELSE Stack(s)
  <2>1. \A k \in 1 .. Len(s) + 1 : k \in 1 .. Len(s) \/ k = Len(s) + 1
    BY <1>1
  <2> QED BY <1>1, <1>2, <2>1 DEF Stack
<1>4. Len(s) + 1 \notin Stack(s)
  BY <1>1 DEF Stack
<1> QED BY <1>3, <1>4, CountType, FS_AddElement DEF Count

\* So does one taken away.
LEMMA CountTail ==
  ASSUME NEW S, NEW s \in Seq(S), s # <<>>
  PROVE  Count(Tail(s)) = IF Head(s) = "stack" THEN Count(s) - 1 ELSE Count(s)
<1>1. /\ Tail(s) \in Seq(S) /\ Len(Tail(s)) = Len(s) - 1 /\ Len(s) \in Nat /\ Len(s) > 0
      /\ \A i \in 1 .. Len(s) - 1 : Tail(s)[i] = s[i + 1]
      /\ Head(s) = s[1]
  BY HeadTailProperties
<1> DEFINE rest == Stack(s) \ {1}
           f == [k \in Stack(Tail(s)) |-> k + 1]
<1>2. f \in Bijection(Stack(Tail(s)), rest)
  <2>1. \A k \in Stack(Tail(s)) : k \in 1 .. Len(s) - 1 /\ k + 1 \in rest
    BY <1>1 DEF Stack
  <2>2. \A a, b \in Stack(Tail(s)) : f[a] = f[b] => a = b
    BY <2>1
  <2>3. \A j \in rest : \E k \in Stack(Tail(s)) : f[k] = j
    <3> SUFFICES ASSUME NEW j \in rest PROVE j - 1 \in Stack(Tail(s)) /\ f[j - 1] = j
      OBVIOUS
    <3>1. j - 1 \in 1 .. Len(s) - 1 /\ s[j] = "stack" /\ (j - 1) + 1 = j
      BY <1>1 DEF Stack
    <3>2. j - 1 \in Stack(Tail(s))
      BY <1>1, <3>1 DEF Stack
    <3> QED BY <3>1, <3>2
  <2>4. f \in [Stack(Tail(s)) -> rest]
    BY <2>1
  <2> HIDE DEF f, rest
  <2> QED BY <2>2, <2>3, <2>4 DEF Bijection, Injection, Surjection, IsInjective
<1>3. IsFiniteSet(Stack(Tail(s))) /\ IsFiniteSet(Stack(s))
  BY <1>1, CountType
<1>4. Cardinality(rest) = Count(Tail(s))
  <2> HIDE DEF f, rest
  <2>1. ExistsBijection(Stack(Tail(s)), rest)
    BY <1>2 DEF ExistsBijection
  <2> QED BY <1>3, <2>1, FS_Bijection DEF Count
<1>5. 1 \in Stack(s) <=> Head(s) = "stack"
  BY <1>1 DEF Stack
<1>6. CASE Head(s) = "stack"
  <2>1. Cardinality(rest) = Count(s) - 1
    BY <1>3, <1>5, <1>6, FS_RemoveElement DEF Count
  <2> QED BY <1>4, <1>6, <2>1
<1>7. CASE Head(s) # "stack"
  <2>1. rest = Stack(s)
    BY <1>5, <1>7
  <2> QED BY <1>4, <1>7, <2>1 DEF Count
<1> QED BY <1>6, <1>7

-----------------------------------------------------------------------------
(* The state of the engine *)
GxState == [pipe : Seq(Commands), queue : Seq(Commands), stallQueue : Seq(Commands),
            stalled : BOOLEAN, busy : BOOLEAN, stackBusy : BOOLEAN, numStack : Int, cycles : Int,
            pipeline : Nat, flush : BOOLEAN, irq : BOOLEAN, refilled : BOOLEAN]

\* The queues keep their bounds, the FIFO holds nothing while the pipe is empty,
\* `over' pushes and pops are counted besides those in the two, and an engine
\* that is not busy has nothing to do.
Sized(g) == /\ Len(g.pipe) <= PipeDepth /\ Len(g.queue) <= FIFODepth
            /\ Len(g.stallQueue) <= StallDepth /\ g.pipeline <= Latency
Fed(g) == g.queue # <<>> => g.pipe # <<>>
StackCounted(g, over) ==
  /\ g.numStack = Count(g.pipe \o g.queue) + over
  /\ g.numStack > 0 => g.stackBusy
IdleEmpty(g) == ~g.busy => g.pipe = <<>> /\ g.pipeline = 0
Consistent(g, over) == g \in GxState /\ Sized(g) /\ Fed(g) /\ StackCounted(g, over) /\ IdleEmpty(g)

\* The ARM9 is stalled while commands wait for room in the FIFO.
StallsWhenFull(g) == /\ g.stalled <=> g.stallQueue # <<>>
                     /\ g.stallQueue # <<>> => Len(g.queue) = FIFODepth

\* The depths of the queues are positive.
LEMMA Depths ==
  /\ PipeDepth \in Nat /\ FIFODepth \in Nat /\ StallDepth \in Nat /\ Half \in Nat
  /\ PipeDepth > 1 /\ FIFODepth > 0 /\ StallDepth > 0 /\ Half > 0 /\ Latency \in Nat
  BY GxAssumption DEF GxAssumption

\* A command added to the second of two queues is added to both.
LEMMA CommandAdded ==
  ASSUME NEW p \in Seq(Commands), NEW q \in Seq(Commands), NEW e \in Commands
  PROVE  p \o Append(q, e) = Append(p \o q, e)
  BY QueuesGrow

\* A queue a command was added to is longer by one.
LEMMA CommandMore ==
  ASSUME NEW p \in Seq(Commands), NEW e \in Commands
  PROVE  Append(p, e) # <<>> /\ Len(Append(p, e)) = Len(p) + 1
  BY AppendProperties

\* CmdFIFOWrite leaves an engine.
LEMMA WriteType ==
  ASSUME NEW g \in GxState, NEW cmd \in Commands
  PROVE  CmdFIFOWrite(g, cmd) \in GxState
<1>1. /\ g.pipe \in Seq(Commands) /\ g.queue \in Seq(Commands) /\ g.stallQueue \in Seq(Commands)
      /\ g.numStack \in Int /\ g.stackBusy \in BOOLEAN
  BY DEF GxState
<1>2. /\ Append(g.pipe, cmd) \in Seq(Commands) /\ Append(g.queue, cmd) \in Seq(Commands)
      /\ Append(g.stallQueue, cmd) \in Seq(Commands)
  BY <1>1
<1>3. ASSUME NEW h \in GxState PROVE Counted(h, cmd) \in GxState
  <2> DEFINE busy == h.stackBusy \/ cmd = "stack"
             num == IF cmd = "stack" THEN h.numStack + 1 ELSE h.numStack
  <2>1. busy \in BOOLEAN /\ num \in Int
    BY DEF GxState
  <2>2. Counted(h, cmd) = [h EXCEPT !.busy = TRUE, !.stackBusy = busy, !.numStack = num]
    BY DEF Counted, GxState
  <2> HIDE DEF busy, num
  <2> QED BY <2>1, <2>2 DEF GxState
<1>4. CASE GoesToPipe(g)
  <2>1. [g EXCEPT !.pipe = Append(g.pipe, cmd)] \in GxState
    BY <1>2 DEF GxState
  <2> QED BY <1>3, <1>4, <2>1 DEF CmdFIFOWrite
<1>5. CASE ~GoesToPipe(g) /\ Len(g.queue) < FIFODepth
  <2>1. [g EXCEPT !.queue = Append(g.queue, cmd)] \in GxState
    BY <1>2 DEF GxState
  <2> QED BY <1>3, <1>5, <2>1 DEF CmdFIFOWrite
<1>6. CASE ~GoesToPipe(g) /\ ~(Len(g.queue) < FIFODepth)
  BY <1>1, <1>2, <1>6 DEF CmdFIFOWrite, GxState
<1> QED BY <1>4, <1>5, <1>6

\* A write that finds room.
FoundRoom(g, cmd, new, over) ==
  /\ Consistent(new, over) /\ new.pipe \o new.queue = Append(g.pipe \o g.queue, cmd)
  /\ new.stallQueue = g.stallQueue /\ new.stalled = g.stalled /\ new.irq = g.irq
  /\ new.cycles = g.cycles /\ Len(new.queue) >= Len(g.queue) /\ new.busy

\* CmdFIFOWrite, when the FIFO has room, appends to what is queued.
LEMMA WriteFinds ==
  ASSUME NEW over \in Int, NEW g, Consistent(g, over), NEW cmd \in Commands, Len(g.queue) < FIFODepth
  PROVE  FoundRoom(g, cmd, CmdFIFOWrite(g, cmd), over)
<1> DEFINE new == CmdFIFOWrite(g, cmd)
<1>1. g \in GxState /\ new \in GxState
  BY WriteType DEF Consistent
<1>2. /\ g.pipe \in Seq(Commands) /\ g.queue \in Seq(Commands)
      /\ Len(g.pipe) \in Nat /\ Len(g.queue) \in Nat /\ g.pipe \o g.queue \in Seq(Commands)
  BY <1>1 DEF GxState
<1>3. new.pipe \o new.queue = Append(g.pipe \o g.queue, cmd)
  <2>1. CASE GoesToPipe(g)
    <3>1. new.pipe = Append(g.pipe, cmd) /\ new.queue = <<>> /\ g.queue = <<>>
      BY <1>1, <2>1 DEF CmdFIFOWrite, Counted, GoesToPipe, GxState
    <3> QED BY <1>2, <3>1, ConcatEmptySeq
  <2>2. CASE ~GoesToPipe(g)
    <3>1. new.pipe = g.pipe /\ new.queue = Append(g.queue, cmd)
      BY <1>1, <2>2 DEF CmdFIFOWrite, Counted, GxState
    <3>2. g.pipe \o Append(g.queue, cmd) = Append(g.pipe \o g.queue, cmd)
      <4>1. g.pipe \in Seq(Commands) /\ g.queue \in Seq(Commands)
        BY <1>2
      <4> QED BY <4>1, CommandAdded, Zenon
    <3> QED BY <3>1, <3>2
  <2> QED BY <2>1, <2>2
<1>4. /\ Sized(new) /\ Fed(new) /\ Len(new.queue) >= Len(g.queue) /\ new.busy
  <2>1. CASE GoesToPipe(g)
    <3>1. /\ new.pipe = Append(g.pipe, cmd) /\ new.queue = <<>> /\ g.queue = <<>> /\ new.busy
          /\ new.stallQueue = g.stallQueue /\ new.pipeline = g.pipeline
      BY <1>1, <2>1 DEF CmdFIFOWrite, Counted, GoesToPipe, GxState
    <3>2. /\ Len(Append(g.pipe, cmd)) = Len(g.pipe) + 1 /\ Len(<<>>) = 0
          /\ Len(g.pipe) < PipeDepth /\ PipeDepth \in Nat /\ FIFODepth \in Nat
          /\ Append(g.pipe, cmd) # <<>>
      <4>1. g.pipe \in Seq(Commands) /\ Len(g.pipe) < PipeDepth
        BY <1>2, <2>1 DEF GoesToPipe
      <4> HIDE DEF new
      <4> QED BY <4>1, CommandMore, Depths
    <3> HIDE DEF new
    <3> QED BY <1>2, <3>1, <3>2 DEF GoesToPipe, Consistent, Sized, Fed
  <2>2. CASE ~GoesToPipe(g)
    <3>1. /\ new.pipe = g.pipe /\ new.queue = Append(g.queue, cmd) /\ new.busy
          /\ new.stallQueue = g.stallQueue /\ new.pipeline = g.pipeline
      BY <1>1, <2>2 DEF CmdFIFOWrite, Counted, GxState
    <3>2. /\ Len(Append(g.queue, cmd)) = Len(g.queue) + 1 /\ PipeDepth \in Nat \ {0}
          /\ FIFODepth \in Nat /\ (g.queue = <<>> => ~(Len(g.pipe) < PipeDepth))
      <4>1. g.queue \in Seq(Commands) /\ (g.queue = <<>> => ~(Len(g.pipe) < PipeDepth))
        BY <1>2, <2>2 DEF GoesToPipe
      <4> HIDE DEF new
      <4> QED BY <4>1, CommandMore, Depths
    <3>3. g.pipe # <<>>
      BY <1>2, <3>2 DEF Consistent, Fed
    <3> HIDE DEF new
    <3> QED BY <1>2, <3>1, <3>2, <3>3 DEF GoesToPipe, Consistent, Sized, Fed
  <2> QED BY <2>1, <2>2
<1>5. StackCounted(new, over)
  <2>1. /\ new.numStack = IF cmd = "stack" THEN g.numStack + 1 ELSE g.numStack
        /\ new.stackBusy = (g.stackBusy \/ cmd = "stack")
    BY <1>1 DEF CmdFIFOWrite, Counted, GxState
  <2>2. Count(Append(g.pipe \o g.queue, cmd)) = IF cmd = "stack" THEN Count(g.pipe \o g.queue) + 1
                                                ELSE Count(g.pipe \o g.queue)
    BY <1>2, CountAppend
  <2>3. Count(g.pipe \o g.queue) \in Nat
    BY <1>2, CountType
  <2>4. g.numStack = Count(g.pipe \o g.queue) + over /\ (g.numStack > 0 => g.stackBusy)
    BY DEF StackCounted, Consistent
  <2> DEFINE c == Count(g.pipe \o g.queue)
  <2> HIDE DEF new, c
  <2>5. c \in Nat /\ g.numStack = c + over
        /\ Count(new.pipe \o new.queue) = IF cmd = "stack" THEN c + 1 ELSE c
    BY <1>3, <2>2, <2>3, <2>4 DEF c
  <2>6. new.numStack = Count(new.pipe \o new.queue) + over
    BY <2>1, <2>5
  <2>7. new.numStack > 0 => new.stackBusy
    BY <2>1, <2>4
  <2> QED BY <2>6, <2>7 DEF StackCounted
<1>6. /\ new.stallQueue = g.stallQueue /\ new.stalled = g.stalled /\ new.irq = g.irq
      /\ new.cycles = g.cycles
  BY <1>1 DEF CmdFIFOWrite, Counted, GxState
<1> HIDE DEF new
<1>7. Consistent(new, over)
  BY <1>1, <1>4, <1>5 DEF Consistent, IdleEmpty
<1> QED BY <1>3, <1>4, <1>6, <1>7 DEF new, FoundRoom

-----------------------------------------------------------------------------
(* Writing *)
IrqTold(g) == IrqDue(g) => g.irq
WellFormed(g) == Consistent(g, 0) /\ StallsWhenFull(g) /\ IrqTold(g)

\* The states an instruction that stores several commands passes through.
LEMMA WrittenSteps ==
  ASSUME NEW g \in GxState, NEW cmds \in Seq(Commands)
  PROVE  \E h \in [0 .. Len(cmds) -> GxState] :
           /\ h[0] = g /\ h[Len(cmds)] = Written(g, cmds)
           /\ \A k \in 1 .. Len(cmds) : h[k] = CmdFIFOWrite(h[k - 1], cmds[k])
<1> DEFINE n == Len(cmds)
           op == [x \in GxState \X Commands |-> CmdFIFOWrite(x[1], x[2])]
           Body(it) == [t \in SUBSET (1 .. n) |->
                          IF t = {} THEN g ELSE CmdFIFOWrite(it[t \ {Max(t)}], cmds[Max(t)])]
           iter == CHOOSE it : it = Body(it)
<1>1. n \in Nat /\ DOMAIN cmds = 1 .. n /\ \A k \in 1 .. n : cmds[k] \in Commands
  OBVIOUS
<1>2. op \in [GxState \X Commands -> GxState]
  BY WriteType
<1>3. PICK f \in [SUBSET (1 .. n) -> GxState] : \A t \in SUBSET (1 .. n) : FoldsTo(f, t, op, g, cmds)
  <2> HIDE DEF op
  <2> QED BY <1>2, FoldTable
<1>4. f = Body(f)
  <2> SUFFICES ASSUME NEW t \in SUBSET (1 .. n), t # {}
               PROVE  op[<<f[t \ {Max(t)}], cmds[Max(t)]>>] = CmdFIFOWrite(f[t \ {Max(t)}], cmds[Max(t)])
    BY <1>3 DEF FoldsTo
  <2>1. Max(t) \in t
    BY <1>1, TopIn
  <2> QED BY <1>1, <2>1
<1>5. iter = Body(iter)
  BY <1>4
<1>6. Written(g, cmds) = iter[1 .. n]
  BY <1>1 DEF Written, FoldLeft, MapThenFoldSet
<1> DEFINE h == [k \in 0 .. n |-> iter[1 .. k]]
<1> HIDE DEF iter
<1>7. h[0] = g
  BY <1>5
<1>8. ASSUME NEW k \in 1 .. n PROVE h[k] = CmdFIFOWrite(h[k - 1], cmds[k])
  <2>1. 1 .. k \in SUBSET (1 .. n) /\ k - 1 \in 0 .. n /\ k \in 0 .. n
    OBVIOUS
  <2>2. iter[1 .. k] = CmdFIFOWrite(iter[1 .. k - 1], cmds[k])
    <3>1. iter[1 .. k] = IF 1 .. k = {} THEN g
                         ELSE CmdFIFOWrite(iter[(1 .. k) \ {Max(1 .. k)}], cmds[Max(1 .. k)])
      BY <1>5, <2>1
    <3>2. Max(1 .. k) = k /\ (1 .. k) \ {k} = 1 .. k - 1 /\ 1 .. k # {}
      BY UpTo
    <3> QED BY <3>1, <3>2
  <2> QED BY <2>1, <2>2
<1> HIDE DEF h
<1>9. \A k \in 0 .. n : h[k] \in GxState
  <2> DEFINE S == {k \in 0 .. n : h[k] \in GxState}
  <2>1. 0 \in S
    BY <1>1, <1>7
  <2>2. ASSUME NEW k \in 0 .. n - 1, k \in S PROVE k + 1 \in S
    <3>1. k + 1 \in 1 .. n /\ (k + 1) - 1 = k
      BY <1>1
    <3> QED BY <1>1, <1>8, <2>2, <3>1, WriteType
  <2> HIDE DEF S
  <2>3. \A k \in 0 .. n : k \in S
    BY <1>1, <2>1, <2>2, CountUp
  <2> QED BY <2>3 DEF S
<1>10. h \in [0 .. n -> GxState]
  BY <1>9 DEF h
<1>11. h[n] = Written(g, cmds)
  BY <1>1, <1>6 DEF h
<1> QED BY <1>7, <1>8, <1>10, <1>11

\* A write appends to what is on the way, or finds the stall queue full.
Took(g, cmd, new) ==
  \/ Len(g.stallQueue) < StallDepth /\ OnTheWay(new) = Append(OnTheWay(g), cmd)
  \/ OnTheWay(new) = OnTheWay(g) /\ Len(new.stallQueue) = StallDepth

\* CmdFIFOWrite appends to what is on the way, or drops what it is given.
LEMMA WriteKeeps ==
  ASSUME NEW g, WellFormed(g), NEW cmd \in Commands
  PROVE  LET new == CmdFIFOWrite(g, cmd) IN
         WellFormed(new) /\ new.cycles = g.cycles /\ Took(g, cmd, new)
<1> DEFINE new == CmdFIFOWrite(g, cmd)
<1>1. g \in GxState /\ new \in GxState
  BY WriteType DEF WellFormed, Consistent
<1>2. /\ g.pipe \in Seq(Commands) /\ g.queue \in Seq(Commands) /\ g.stallQueue \in Seq(Commands)
      /\ Len(g.pipe) \in Nat /\ Len(g.queue) \in Nat /\ Len(g.stallQueue) \in Nat
      /\ g.pipe \o g.queue \in Seq(Commands)
  BY <1>1 DEF GxState
<1>3. CASE Len(g.queue) < FIFODepth
  <2>1. g.stallQueue = <<>> /\ ~g.stalled
    BY <1>1, <1>3, <1>2, Depths DEF WellFormed, StallsWhenFull
  <2>2. FoundRoom(g, cmd, new, 0)
    <3>1. Consistent(g, 0) /\ 0 \in Int
      BY DEF WellFormed
    <3> QED BY <1>3, <3>1, WriteFinds
  <2> HIDE DEF new
  <2>3. /\ new.stallQueue = g.stallQueue /\ new.stalled = g.stalled /\ new.irq = g.irq
        /\ Consistent(new, 0) /\ new.pipe \o new.queue = Append(g.pipe \o g.queue, cmd)
        /\ Len(new.queue) >= Len(g.queue) /\ new.cycles = g.cycles
    BY <2>2 DEF FoundRoom
  <2>4. StallsWhenFull(new)
    BY <2>1, <2>3 DEF StallsWhenFull
  <2>5. IrqTold(new)
    <3>1. Len(new.queue) \in Nat /\ (new.queue = <<>> => Len(new.queue) = 0)
          /\ (Len(g.queue) = 0 => g.queue = <<>>)
      BY <1>1, <1>2 DEF GxState
    <3> QED BY <1>2, <2>3, <3>1, Depths DEF WellFormed, IrqTold, IrqDue
  <2>6. OnTheWay(new) = Append(OnTheWay(g), cmd)
    <3>1. OnTheWay(g) = g.pipe \o g.queue
      BY <1>2, <2>1, ConcatEmptySeq DEF OnTheWay
    <3>2. new.pipe \o new.queue \in Seq(Commands)
      BY <1>1 DEF GxState
    <3>3. OnTheWay(new) = new.pipe \o new.queue
      BY <2>1, <2>3, <3>2, ConcatEmptySeq DEF OnTheWay
    <3> QED BY <2>3, <3>1, <3>3
  <2>7. Len(g.stallQueue) < StallDepth
    BY <2>1, Depths
  <2> QED BY <2>3, <2>4, <2>5, <2>6, <2>7 DEF WellFormed, Took, new
<1>4. CASE Len(g.queue) >= FIFODepth
  <2> DEFINE more == IF Len(g.stallQueue) < StallDepth THEN Append(g.stallQueue, cmd) ELSE g.stallQueue
  <2>0. ~(Len(g.queue) < FIFODepth) /\ g.queue # <<>> /\ Len(g.queue) = FIFODepth
    BY <1>2, <1>4, Depths DEF WellFormed, Consistent, Sized
  <2>1. new = [g EXCEPT !.stallQueue = more, !.stalled = TRUE]
    BY <1>1, <2>0 DEF CmdFIFOWrite, GoesToPipe, GxState
  <2>2. more \in Seq(Commands) /\ more # <<>> /\ Len(more) <= StallDepth
        /\ (Len(g.stallQueue) = StallDepth => more = g.stallQueue)
        /\ (Len(g.stallQueue) < StallDepth => more = Append(g.stallQueue, cmd))
        /\ (Len(g.stallQueue) < StallDepth \/ Len(g.stallQueue) = StallDepth)
    <3>1. Append(g.stallQueue, cmd) # <<>> /\ Len(Append(g.stallQueue, cmd)) = Len(g.stallQueue) + 1
      BY <1>2, CommandMore, Zenon
    <3>2. Len(g.stallQueue) <= StallDepth
      BY DEF WellFormed, Consistent, Sized
    <3>3. Append(g.stallQueue, cmd) \in Seq(Commands)
      BY <1>2
    <3>4. Len(g.stallQueue) = StallDepth => g.stallQueue # <<>>
      BY Depths
    <3> HIDE DEF new
    <3> QED BY <1>2, <3>1, <3>2, <3>3, <3>4, Depths
  <2> HIDE DEF more, new
  <2>3. /\ new.pipe = g.pipe /\ new.queue = g.queue /\ new.stallQueue = more /\ new.stalled
        /\ new.numStack = g.numStack /\ new.stackBusy = g.stackBusy /\ new.busy = g.busy
        /\ new.pipeline = g.pipeline /\ new.irq = g.irq
        /\ new.cycles = g.cycles
    BY <1>1, <2>1 DEF GxState
  <2>4. Consistent(new, 0)
    BY <1>1, <2>2, <2>3 DEF WellFormed, Consistent, Sized, Fed, StackCounted, IdleEmpty
  <2>5. StallsWhenFull(new) /\ IrqTold(new)
    BY <2>0, <2>2, <2>3 DEF WellFormed, StallsWhenFull, IrqTold, IrqDue
  <2>6. Len(g.stallQueue) < StallDepth => OnTheWay(new) = Append(OnTheWay(g), cmd)
    <3>1. (g.pipe \o g.queue) \o Append(g.stallQueue, cmd) = Append((g.pipe \o g.queue) \o g.stallQueue, cmd)
      <4>1. g.pipe \o g.queue \in Seq(Commands) /\ g.stallQueue \in Seq(Commands)
        BY <1>2
      <4> QED BY <4>1, CommandAdded, Zenon
    <3> QED BY <2>2, <2>3, <3>1 DEF OnTheWay
  <2>7. Len(g.stallQueue) = StallDepth => OnTheWay(new) = OnTheWay(g) /\ Len(new.stallQueue) = StallDepth
    BY <2>2, <2>3 DEF OnTheWay
  <2> QED BY <2>2, <2>3, <2>4, <2>5, <2>6, <2>7 DEF WellFormed, Took, new
<1>5. Len(g.queue) < FIFODepth \/ Len(g.queue) >= FIFODepth
  BY <1>2, Depths
<1> QED BY <1>3, <1>4, <1>5

LEMMA OnTheWayType == ASSUME NEW g \in GxState PROVE OnTheWay(g) \in Seq(Commands)
<1>1. g.pipe \in Seq(Commands) /\ g.queue \in Seq(Commands) /\ g.stallQueue \in Seq(Commands)
  BY DEF GxState
<1> QED BY <1>1 DEF OnTheWay

\* A prefix that is longer by one.
LEMMA PrefixGrows ==
  ASSUME NEW S, NEW s \in Seq(S), NEW k \in 0 .. Len(s) - 1
  PROVE  SubSeq(s, 1, k) \in Seq(S) /\ SubSeq(s, 1, k + 1) = Append(SubSeq(s, 1, k), s[k + 1])
<1>1. Len(s) \in Nat /\ k + 1 \in 1 .. Len(s) /\ 1 \in 1 .. Len(s) /\ (k + 1) - 1 = k /\ s[k + 1] \in S
  OBVIOUS
<1>2. SubSeq(s, 1, k) \in Seq(S)
  <2>1. \A i \in 1 .. k : s[i] \in S
    BY <1>1
  <2> QED BY <2>1, SubSeqProperties
<1>3. SubSeq(s, 1, k + 1) = SubSeq(s, 1, (k + 1) - 1) \o <<s[k + 1]>>
  BY <1>1, SubSeqRecursiveSecond
<1>4. Append(SubSeq(s, 1, k), s[k + 1]) = SubSeq(s, 1, k) \o <<s[k + 1]>>
  BY <1>1, <1>2, AppendIsConcat
<1> QED BY <1>1, <1>2, <1>3, <1>4

\* What an instruction stored is appended, as far as there was room.
LEMMA WrittenKeeps ==
  ASSUME NEW g, WellFormed(g), NEW cmds \in Seq(Commands)
  PROVE  /\ WellFormed(Written(g, cmds)) /\ Written(g, cmds).cycles = g.cycles
         /\ \E n \in 0 .. Len(cmds) :
              /\ OnTheWay(Written(g, cmds)) = OnTheWay(g) \o SubSeq(cmds, 1, n)
              /\ n = Len(cmds) \/ Len(Written(g, cmds).stallQueue) = StallDepth
<1>0. g \in GxState /\ OnTheWay(g) \in Seq(Commands) /\ Len(cmds) \in Nat
  BY OnTheWayType DEF WellFormed, Consistent
<1>1. PICK h \in [0 .. Len(cmds) -> GxState] :
           /\ h[0] = g /\ h[Len(cmds)] = Written(g, cmds)
           /\ \A k \in 1 .. Len(cmds) : h[k] = CmdFIFOWrite(h[k - 1], cmds[k])
  BY <1>0, WrittenSteps
<1> DEFINE Reached(k, m) == /\ OnTheWay(h[k]) = OnTheWay(g) \o SubSeq(cmds, 1, m)
                            /\ m = k \/ Len(h[k].stallQueue) = StallDepth
           S == {k \in 0 .. Len(cmds) : /\ WellFormed(h[k]) /\ h[k].cycles = g.cycles
                                         /\ \E m \in 0 .. k : Reached(k, m)}
<1>2. 0 \in S
  <2>1. SubSeq(cmds, 1, 0) = <<>>
    BY SubSeqEmpty
  <2>2. Reached(0, 0)
    BY <1>0, <1>1, <2>1, ConcatEmptySeq
  <2>3. 0 \in 0 .. Len(cmds) /\ 0 \in 0 .. 0 /\ WellFormed(h[0]) /\ h[0].cycles = g.cycles
    BY <1>0, <1>1
  <2> HIDE DEF Reached
  <2> QED BY <2>2, <2>3
<1>3. ASSUME NEW k \in 0 .. Len(cmds) - 1, k \in S PROVE k + 1 \in S
  <2>1. PICK m \in 0 .. k : Reached(k, m)
    BY <1>3
  <2>2. /\ k + 1 \in 1 .. Len(cmds) /\ (k + 1) - 1 = k /\ k \in 0 .. Len(cmds) /\ k + 1 \in 0 .. Len(cmds)
        /\ cmds[k + 1] \in Commands
    BY <1>0
  <2>3. h[k + 1] = CmdFIFOWrite(h[k], cmds[k + 1])
    BY <1>1, <2>2
  <2>4. WellFormed(h[k]) /\ h[k].cycles = g.cycles
    BY <1>3
  <2>5. /\ WellFormed(h[k + 1]) /\ h[k + 1].cycles = g.cycles
        /\ Took(h[k], cmds[k + 1], h[k + 1])
    BY <2>2, <2>3, <2>4, WriteKeeps
  <2>6. CASE OnTheWay(h[k + 1]) = OnTheWay(h[k]) /\ Len(h[k + 1].stallQueue) = StallDepth
    <3>1. m \in 0 .. k + 1 /\ Reached(k + 1, m)
      BY <2>1, <2>6
    <3> QED BY <2>2, <2>5, <3>1
  <2>7. CASE Len(h[k].stallQueue) < StallDepth /\ OnTheWay(h[k + 1]) = Append(OnTheWay(h[k]), cmds[k + 1])
    <3>1. m = k
      BY <2>1, <2>7, Depths
    <3>2. /\ SubSeq(cmds, 1, k) \in Seq(Commands)
          /\ SubSeq(cmds, 1, k + 1) = Append(SubSeq(cmds, 1, k), cmds[k + 1])
      BY PrefixGrows
    <3>3. OnTheWay(g) \o Append(SubSeq(cmds, 1, k), cmds[k + 1])
            = Append(OnTheWay(g) \o SubSeq(cmds, 1, k), cmds[k + 1])
      BY <1>0, <2>2, <3>2, CommandAdded, Zenon
    <3>4. Reached(k + 1, k + 1)
      BY <2>1, <2>7, <3>1, <3>2, <3>3
    <3>5. k + 1 \in 0 .. k + 1
      BY <2>2
    <3> HIDE DEF Reached
    <3> QED BY <2>2, <2>5, <3>4, <3>5
  <2> QED BY <2>5, <2>6, <2>7 DEF Took
<1> HIDE DEF S
<1>4. \A k \in 0 .. Len(cmds) : k \in S
  BY <1>0, <1>2, <1>3, CountUp
<1>5. Len(cmds) \in S
  BY <1>0, <1>4
<1> QED BY <1>1, <1>5 DEF S

-----------------------------------------------------------------------------
(* Refilling *)
\* A sequence without its first k elements.
LEMMA SuffixShrinks ==
  ASSUME NEW S, NEW s \in Seq(S), NEW k \in 0 .. Len(s) - 1
  PROVE  LET t == SubSeq(s, k + 1, Len(s)) IN
         /\ t \in Seq(S) /\ t # <<>> /\ t[1] = s[k + 1] /\ Len(t) = Len(s) - k
         /\ SubSeq(t, 2, Len(t)) = SubSeq(s, k + 2, Len(s)) /\ Tail(t) = SubSeq(s, k + 2, Len(s))
<1> DEFINE t == SubSeq(s, k + 1, Len(s))
<1>1. Len(s) \in Nat /\ k + 1 \in 1 .. Len(s) /\ Len(s) \in k + 1 .. Len(s) /\ (k + 1) + 1 = k + 2
  OBVIOUS
<1>2. t \in Seq(S) /\ Len(t) = Len(s) - k
  <2>1. /\ k + 1 \in Int /\ Len(s) \in Int /\ k + 1 <= Len(s) /\ \A i \in k + 1 .. Len(s) : s[i] \in S
        /\ Len(s) - (k + 1) + 1 = Len(s) - k
    BY <1>1
  <2>2. t \in Seq(S) /\ Len(t) = IF k + 1 <= Len(s) THEN Len(s) - (k + 1) + 1 ELSE 0
    BY <2>1, SubSeqProperties
  <2> HIDE DEF t
  <2> QED BY <2>1, <2>2
<1>3. Head(t) = s[k + 1] /\ Tail(t) = SubSeq(s, k + 2, Len(s))
  BY <1>1, HeadTailOfSubSeq
<1>4. t # <<>> /\ Head(t) = t[1]
  <2> HIDE DEF t
  <2> QED BY <1>1, <1>2
<1>5. SubSeq(t, 2, Len(t)) = Tail(t)
  <2> HIDE DEF t
  <2> QED BY <1>2, <1>4, TailIsSubSeq
<1> QED BY <1>2, <1>3, <1>4, <1>5

\* Half a pipe holds at least one command.
LEMMA HalfPipe == PipeDepth \div 2 \in Nat /\ PipeDepth \div 2 >= 1 /\ 2 * (PipeDepth \div 2) <= PipeDepth
<1>1. PipeDepth \in Nat /\ PipeDepth > 1
  BY Depths
<1> QED BY <1>1

\* Refilling the pipe from the FIFO keeps all commands in order.
LEMMA MovedUpKeeps ==
  ASSUME NEW over \in Int, NEW g \in GxState, Sized(g), Len(g.pipe) <= PipeDepth \div 2,
         StackCounted(g, over), g.busy
  PROVE  LET m == MovedUp(g) IN
         /\ Consistent(m, over) /\ OnTheWay(m) = OnTheWay(g) /\ m.busy
         /\ m.stallQueue = g.stallQueue /\ m.stalled = g.stalled /\ m.cycles = g.cycles
<1> DEFINE half == PipeDepth \div 2
           n == IF Len(g.queue) < half THEN Len(g.queue) ELSE half
           up == SubSeq(g.queue, 1, n)
           rest == SubSeq(g.queue, n + 1, Len(g.queue))
           m == MovedUp(g)
<1>1. /\ g.pipe \in Seq(Commands) /\ g.queue \in Seq(Commands)
      /\ Len(g.pipe) \in Nat /\ Len(g.queue) \in Nat /\ Len(g.stallQueue) \in Nat
      /\ g.stallQueue \in Seq(Commands)
  BY DEF GxState
<1>2. /\ half \in Nat /\ half >= 1 /\ 2 * half <= PipeDepth /\ PipeDepth \in Nat
      /\ Len(g.pipe) <= half
  BY HalfPipe, Depths
<1>3. n \in 0 .. Len(g.queue) /\ n <= half /\ (Len(g.queue) - n > 0 => n > 0)
  <2> DEFINE len == Len(g.queue)
  <2>1. len \in Nat
    BY <1>1
  <2> HIDE DEF half, len
  <2>2. n = IF len < half THEN len ELSE half
    BY DEF len
  <2> HIDE DEF n
  <2>3. n \in 0 .. len /\ n <= half /\ (len - n > 0 => n > 0)
    BY <1>2, <2>1, <2>2
  <2> QED BY <2>3 DEF len
<1>4. m = [g EXCEPT !.pipe = g.pipe \o up, !.queue = rest]
  BY DEF MovedUp, GxState
<1> HIDE DEF half, n
<1>5. /\ up \in Seq(Commands) /\ Len(up) = n
      /\ rest \in Seq(Commands) /\ Len(rest) = Len(g.queue) - n
      /\ (g.pipe \o up) \o rest = g.pipe \o g.queue
  <2>1. MovesUp(Commands, g.pipe, g.queue, n)
    BY <1>1, <1>3, QueueMovesUp
  <2> QED BY <2>1 DEF MovesUp
<1> HIDE DEF up, rest, m
<1>6. /\ g.pipe \o up \in Seq(Commands) /\ Len(g.pipe \o up) = Len(g.pipe) + n
  BY <1>1, <1>5, ConcatProperties
<1>7. /\ m \in GxState /\ m.pipe = g.pipe \o up /\ m.queue = rest /\ m.stallQueue = g.stallQueue
      /\ m.stalled = g.stalled /\ m.busy /\ m.stackBusy = g.stackBusy /\ m.numStack = g.numStack
      /\ m.pipeline = g.pipeline /\ m.cycles = g.cycles
  BY <1>4, <1>5, <1>6 DEF GxState
<1>8. Sized(m)
  <2>1. Len(m.pipe) <= PipeDepth
    BY <1>1, <1>2, <1>3, <1>6, <1>7
  <2>2. Len(m.queue) <= FIFODepth
    <3>1. Len(m.queue) = Len(g.queue) - n /\ n \in Nat /\ Len(g.queue) <= FIFODepth
      BY <1>1, <1>3, <1>5, <1>7 DEF Sized
    <3> QED BY <1>1, <3>1, Depths
  <2> QED BY <1>7, <2>1, <2>2 DEF Sized
<1>9. Fed(m)
  <2> SUFFICES ASSUME m.queue # <<>> PROVE m.pipe # <<>>
    BY DEF Fed
  <2>1. Len(rest) > 0
    BY <1>5, <1>7
  <2>2. n > 0 /\ Len(g.pipe \o up) > 0
    BY <1>1, <1>3, <1>5, <1>6, <2>1
  <2> QED BY <1>7, <2>2
<1>10. StackCounted(m, over) /\ IdleEmpty(m) /\ OnTheWay(m) = OnTheWay(g)
  BY <1>5, <1>7 DEF StackCounted, IdleEmpty, OnTheWay
<1> QED BY <1>7, <1>8, <1>9, <1>10 DEF Consistent, m

\* What becomes of the engine when a command that waited outside goes in.
MovedOver(g, new, over) ==
  /\ Consistent(new, over) /\ OnTheWay(new) = OnTheWay(g)
  /\ new.stallQueue = SubSeq(g.stallQueue, 2, Len(g.stallQueue)) /\ new.stalled = g.stalled
  /\ new.busy /\ new.cycles = g.cycles

LEMMA UnqueueKeeps ==
  ASSUME NEW over \in Int, NEW g, Consistent(g, over), Len(g.queue) < FIFODepth, g.stallQueue # <<>>
  PROVE  MovedOver(g, Unqueue(g, g.stallQueue[1]), over)
<1> DEFINE cmd == g.stallQueue[1]
           rest == SubSeq(g.stallQueue, 2, Len(g.stallQueue))
           w == [g EXCEPT !.stallQueue = rest]
           new == CmdFIFOWrite(w, cmd)
<1>1. g \in GxState /\ Sized(g)
  BY DEF Consistent
<1>2. /\ g.pipe \in Seq(Commands) /\ g.queue \in Seq(Commands) /\ g.stallQueue \in Seq(Commands)
      /\ g.pipe \o g.queue \in Seq(Commands) /\ cmd \in Commands
      /\ Len(g.queue) \in Nat /\ Len(g.stallQueue) \in Nat
  BY <1>1 DEF GxState
<1>3. /\ rest \in Seq(Commands) /\ Len(rest) = Len(g.stallQueue) - 1
      /\ Append(g.pipe \o g.queue, cmd) \o rest = (g.pipe \o g.queue) \o g.stallQueue
  BY <1>2, HeadGoesOver
<1>4. Unqueue(g, cmd) = new
  BY <1>2, Depths DEF Unqueue
<1> HIDE DEF cmd, rest
<1>5. /\ w \in GxState /\ w.pipe = g.pipe /\ w.queue = g.queue /\ w.stallQueue = rest
      /\ w.stalled = g.stalled /\ w.busy = g.busy /\ w.stackBusy = g.stackBusy
      /\ w.numStack = g.numStack /\ w.pipeline = g.pipeline /\ w.cycles = g.cycles
  BY <1>1, <1>3 DEF GxState
<1> HIDE DEF w
<1>6. Consistent(w, over)
  BY <1>2, <1>3, <1>5, Depths DEF Consistent, Sized, Fed, StackCounted, IdleEmpty
<1>7. FoundRoom(w, cmd, new, over)
  BY <1>2, <1>5, <1>6, WriteFinds
<1> HIDE DEF new
<1>8. /\ new.stallQueue = rest /\ new.stalled = g.stalled /\ new.cycles = g.cycles /\ new.busy
      /\ Consistent(new, over) /\ new.pipe \o new.queue = Append(g.pipe \o g.queue, cmd)
  BY <1>5, <1>7 DEF FoundRoom
<1>9. OnTheWay(new) = OnTheWay(g)
  BY <1>3, <1>7, <1>8 DEF OnTheWay
<1>10. MovedOver(g, new, over)
  BY <1>7, <1>8, <1>9 DEF MovedOver, rest
<1> QED BY <1>4, <1>10 DEF cmd

\* Refilling leaves an engine.
LEMMA UnqueueType ==
  ASSUME NEW g \in GxState, NEW cmd \in Commands
  PROVE  Unqueue(g, cmd) \in GxState
<1> DEFINE rest == SubSeq(g.stallQueue, 2, Len(g.stallQueue))
<1>1. rest \in Seq(Commands)
  <2>1. /\ 2 \in Int /\ Len(g.stallQueue) \in Int
        /\ \A i \in 2 .. Len(g.stallQueue) : g.stallQueue[i] \in Commands
    BY DEF GxState
  <2> QED BY <2>1, SubSeqProperties
<1> HIDE DEF rest
<1>2. [g EXCEPT !.stallQueue = rest] \in GxState
  BY <1>1 DEF GxState
<1> QED BY <1>2, WriteType DEF Unqueue, rest

\* The states the refill from the stall queue passes through.
LEMMA UnqueuedSteps ==
  ASSUME NEW g \in GxState, NEW cmds \in Seq(Commands)
  PROVE  \E h \in [0 .. Len(cmds) -> GxState] :
           /\ h[0] = g /\ h[Len(cmds)] = FoldLeft(Unqueue, g, cmds)
           /\ \A k \in 1 .. Len(cmds) : h[k] = Unqueue(h[k - 1], cmds[k])
<1> DEFINE n == Len(cmds)
           op == [x \in GxState \X Commands |-> Unqueue(x[1], x[2])]
           Body(it) == [t \in SUBSET (1 .. n) |->
                          IF t = {} THEN g ELSE Unqueue(it[t \ {Max(t)}], cmds[Max(t)])]
           iter == CHOOSE it : it = Body(it)
<1>1. n \in Nat /\ DOMAIN cmds = 1 .. n /\ \A k \in 1 .. n : cmds[k] \in Commands
  OBVIOUS
<1>2. op \in [GxState \X Commands -> GxState]
  BY UnqueueType
<1>3. PICK f \in [SUBSET (1 .. n) -> GxState] : \A t \in SUBSET (1 .. n) : FoldsTo(f, t, op, g, cmds)
  <2> HIDE DEF op
  <2> QED BY <1>2, FoldTable
<1>4. f = Body(f)
  <2> SUFFICES ASSUME NEW t \in SUBSET (1 .. n), t # {}
               PROVE  op[<<f[t \ {Max(t)}], cmds[Max(t)]>>] = Unqueue(f[t \ {Max(t)}], cmds[Max(t)])
    BY <1>3 DEF FoldsTo
  <2>1. Max(t) \in t
    BY <1>1, TopIn
  <2> QED BY <1>1, <2>1
<1>5. iter = Body(iter)
  BY <1>4
<1>6. FoldLeft(Unqueue, g, cmds) = iter[1 .. n]
  BY <1>1 DEF FoldLeft, MapThenFoldSet
<1> DEFINE h == [k \in 0 .. n |-> iter[1 .. k]]
<1> HIDE DEF iter
<1>7. h[0] = g
  BY <1>5
<1>8. ASSUME NEW k \in 1 .. n PROVE h[k] = Unqueue(h[k - 1], cmds[k])
  <2>1. 1 .. k \in SUBSET (1 .. n) /\ k - 1 \in 0 .. n /\ k \in 0 .. n
    OBVIOUS
  <2>2. iter[1 .. k] = Unqueue(iter[1 .. k - 1], cmds[k])
    <3>1. iter[1 .. k] = IF 1 .. k = {} THEN g
                         ELSE Unqueue(iter[(1 .. k) \ {Max(1 .. k)}], cmds[Max(1 .. k)])
      BY <1>5, <2>1
    <3>2. Max(1 .. k) = k /\ (1 .. k) \ {k} = 1 .. k - 1 /\ 1 .. k # {}
      BY UpTo
    <3> QED BY <3>1, <3>2
  <2> QED BY <2>1, <2>2
<1> HIDE DEF h
<1>9. \A k \in 0 .. n : h[k] \in GxState
  <2> DEFINE S == {k \in 0 .. n : h[k] \in GxState}
  <2>1. 0 \in S
    BY <1>1, <1>7
  <2>2. ASSUME NEW k \in 0 .. n - 1, k \in S PROVE k + 1 \in S
    <3>1. k + 1 \in 1 .. n /\ (k + 1) - 1 = k
      BY <1>1
    <3> QED BY <1>1, <1>8, <2>2, <3>1, UnqueueType
  <2> HIDE DEF S
  <2>3. \A k \in 0 .. n : k \in S
    BY <1>1, <2>1, <2>2, CountUp
  <2> QED BY <2>3 DEF S
<1>10. h \in [0 .. n -> GxState]
  BY <1>9 DEF h
<1>11. h[n] = FoldLeft(Unqueue, g, cmds)
  BY <1>1, <1>6 DEF h
<1> QED BY <1>7, <1>8, <1>10, <1>11

\* The refill from the stall queue keeps all commands in order, and ends with
\* that queue empty or the FIFO full.
LEMMA UnqueuedKeeps ==
  ASSUME NEW over \in Int, NEW g, Consistent(g, over)
  PROVE  LET new == FoldLeft(Unqueue, g, g.stallQueue) IN
         /\ Consistent(new, over) /\ OnTheWay(new) = OnTheWay(g) /\ new.stalled = g.stalled
         /\ new.stallQueue # <<>> => Len(new.queue) = FIFODepth
         /\ g.stallQueue = <<>> => new.stallQueue = <<>>
         /\ g.busy => new.busy
         /\ new.cycles = g.cycles
<1> DEFINE s == g.stallQueue
           n == Len(s)
           new == FoldLeft(Unqueue, g, s)
<1>0. g \in GxState /\ s \in Seq(Commands) /\ n \in Nat
  BY DEF Consistent, GxState
<1>1. PICK h \in [0 .. n -> GxState] :
           /\ h[0] = g /\ h[n] = new
           /\ \A k \in 1 .. n : h[k] = Unqueue(h[k - 1], s[k])
  BY <1>0, UnqueuedSteps
<1> HIDE DEF new
<1> DEFINE Kept(k) == /\ Consistent(h[k], over) /\ OnTheWay(h[k]) = OnTheWay(g) /\ h[k].stalled = g.stalled
                      /\ g.busy => h[k].busy
                      /\ h[k].cycles = g.cycles
                      /\ h[k].stallQueue = SubSeq(s, k + 1, n) \/ Len(h[k].queue) = FIFODepth
           S == {k \in 0 .. n : Kept(k)}
<1>2. 0 \in S
  <2>1. SubSeq(s, 0 + 1, n) = s
    BY <1>0, SubSeqFull
  <2> QED BY <1>0, <1>1, <2>1
<1>3. ASSUME NEW k \in 0 .. n - 1, k \in S PROVE k + 1 \in S
  <2>1. Kept(k)
    BY <1>3
  <2>2. k + 1 \in 1 .. n /\ (k + 1) - 1 = k /\ k + 1 \in 0 .. n /\ (k + 1) + 1 = k + 2
    BY <1>0
  <2>3. h[k + 1] = Unqueue(h[k], s[k + 1])
    BY <1>1, <2>2
  <2>4. Len(h[k].queue) <= FIFODepth /\ Len(h[k].queue) \in Nat
    BY <2>1 DEF Consistent, Sized, GxState
  <2>5. CASE Len(h[k].queue) = FIFODepth
    <3>1. h[k + 1] = h[k]
      BY <2>3, <2>5, Depths DEF Unqueue
    <3> QED BY <2>1, <2>2, <2>5, <3>1
  <2>6. CASE Len(h[k].queue) < FIFODepth
    <3>1. h[k].stallQueue = SubSeq(s, k + 1, n)
      BY <2>1, <2>6, Depths
    <3>2. /\ SubSeq(s, k + 1, n) # <<>> /\ SubSeq(s, k + 1, n)[1] = s[k + 1]
          /\ SubSeq(SubSeq(s, k + 1, n), 2, Len(SubSeq(s, k + 1, n))) = SubSeq(s, k + 2, n)
      BY <1>0, SuffixShrinks
    <3> HIDE DEF s, n
    <3>3. /\ Consistent(h[k + 1], over) /\ OnTheWay(h[k + 1]) = OnTheWay(h[k])
          /\ h[k + 1].stallQueue = SubSeq(h[k].stallQueue, 2, Len(h[k].stallQueue))
          /\ h[k + 1].stalled = h[k].stalled /\ h[k + 1].busy
          /\ h[k + 1].cycles = h[k].cycles
      <4>1. h[k + 1] = Unqueue(h[k], h[k].stallQueue[1]) /\ h[k].stallQueue # <<>> /\ Consistent(h[k], over)
        BY <2>1, <2>3, <3>1, <3>2
      <4>2. MovedOver(h[k], Unqueue(h[k], h[k].stallQueue[1]), over)
        BY <2>6, <4>1, UnqueueKeeps
      <4>3. MovedOver(h[k], h[k + 1], over)
        BY <4>1, <4>2
      <4> QED BY <4>3 DEF MovedOver
    <3> QED BY <2>1, <2>2, <3>1, <3>2, <3>3
  <2>7. Len(h[k].queue) = FIFODepth \/ Len(h[k].queue) < FIFODepth
    BY <2>4, Depths
  <2> QED BY <2>5, <2>6, <2>7
<1> HIDE DEF S
<1>4. \A k \in 0 .. n : k \in S
  BY <1>0, <1>2, <1>3, CountUp
<1>5. Kept(n)
  <2>1. n \in S
    BY <1>0, <1>4
  <2> HIDE DEF Kept
  <2> QED BY <2>1 DEF S
<1>6. SubSeq(s, n + 1, n) = <<>>
  BY <1>0, SubSeqEmpty
<1>7. s = <<>> => n = 0
  OBVIOUS
<1> QED BY <1>1, <1>5, <1>6, <1>7 DEF new

\* The refill of both, and the end of the stall that it brings.
LEMMA RefillKeeps ==
  ASSUME NEW over \in Int, NEW g \in GxState, Sized(g), Len(g.pipe) <= PipeDepth \div 2,
         StackCounted(g, over), g.busy, g.stalled <=> g.stallQueue # <<>>
  PROVE  LET new == Refill(g) IN
         /\ Consistent(new, over) /\ StallsWhenFull(new) /\ IrqTold(new) /\ OnTheWay(new) = OnTheWay(g)
         /\ new.busy /\ new.cycles = g.cycles
<1> DEFINE m == MovedUp(g)
           r == Requeued(g)
           new == Refill(g)
<1>1. /\ Consistent(m, over) /\ OnTheWay(m) = OnTheWay(g) /\ m.busy
      /\ m.stallQueue = g.stallQueue /\ m.stalled = g.stalled /\ m.cycles = g.cycles
  BY MovedUpKeeps
<1> HIDE DEF m
<1>2. /\ Consistent(r, over) /\ OnTheWay(r) = OnTheWay(m) /\ r.stalled = m.stalled
      /\ r.stallQueue # <<>> => Len(r.queue) = FIFODepth
      /\ m.stallQueue = <<>> => r.stallQueue = <<>>
      /\ r.busy /\ r.cycles = m.cycles
  <2>1. r = FoldLeft(Unqueue, m, m.stallQueue)
    BY <1>1 DEF Requeued, m
  <2> HIDE DEF r
  <2> QED BY <1>1, <2>1, UnqueuedKeeps
<1> DEFINE stalled == StallStays(r, Len(g.stallQueue))
           refilled == r.refilled \/ Len(r.queue) < Half
           irq == IrqDue(r)
<1>3. r \in GxState /\ g.stallQueue \in Seq(Commands) /\ Len(g.stallQueue) \in Nat
  BY <1>2 DEF Consistent, GxState
<1>4. new = [r EXCEPT !.stalled = stalled, !.refilled = refilled, !.irq = irq]
  BY <1>3 DEF Refill, GxState
<1>5. stalled \in BOOLEAN /\ refilled \in BOOLEAN /\ irq \in BOOLEAN
  BY <1>3 DEF StallStays, IrqDue, GxState
<1>6. stalled <=> r.stallQueue # <<>>
  BY <1>1, <1>2, <1>3 DEF StallStays
<1> HIDE DEF stalled, refilled, irq, new, r
<1>7. /\ new \in GxState /\ new.pipe = r.pipe /\ new.queue = r.queue /\ new.stallQueue = r.stallQueue
      /\ new.stalled = stalled /\ new.busy = r.busy /\ new.stackBusy = r.stackBusy
      /\ new.numStack = r.numStack /\ new.pipeline = r.pipeline /\ new.irq = irq
      /\ new.cycles = r.cycles
  BY <1>3, <1>4, <1>5 DEF GxState
<1>8. Consistent(new, over) /\ OnTheWay(new) = OnTheWay(r)
  BY <1>2, <1>7 DEF Consistent, Sized, Fed, StackCounted, IdleEmpty, OnTheWay
<1>9. StallsWhenFull(new)
  BY <1>2, <1>6, <1>7 DEF StallsWhenFull
<1>10. IrqTold(new)
  BY <1>7 DEF IrqTold, IrqDue, irq
<1> QED BY <1>1, <1>2, <1>7, <1>8, <1>9, <1>10 DEF new

\* CmdFIFORead takes the first command off the way.
LEMMA PopKeeps ==
  ASSUME NEW g, WellFormed(g), g.pipe # <<>>
  PROVE  LET new == CmdFIFORead(g) IN
         /\ Consistent(new, IF Head(g.pipe) = "stack" THEN 1 ELSE 0)
         /\ StallsWhenFull(new) /\ IrqTold(new)
         /\ OnTheWay(new) = Tail(OnTheWay(g)) /\ OnTheWay(g) # <<>> /\ new.busy
         /\ new.cycles = g.cycles
<1> DEFINE over == IF Head(g.pipe) = "stack" THEN 1 ELSE 0
           popped == [g EXCEPT !.pipe = Tail(g.pipe)]
           new == CmdFIFORead(g)
<1>0. g \in GxState /\ over \in Int
  BY DEF WellFormed, Consistent
<1>1. /\ g.pipe \in Seq(Commands) /\ g.queue \in Seq(Commands) /\ g.stallQueue \in Seq(Commands)
      /\ Len(g.pipe) \in Nat /\ Len(g.queue) \in Nat
  BY <1>0 DEF GxState
<1>2. /\ Tail(g.pipe) \in Seq(Commands) /\ Len(Tail(g.pipe)) = Len(g.pipe) - 1
  BY <1>1, HeadTailProperties
<1>3. /\ popped \in GxState /\ popped.pipe = Tail(g.pipe) /\ popped.queue = g.queue
      /\ popped.stallQueue = g.stallQueue /\ popped.stalled = g.stalled /\ popped.busy = g.busy
      /\ popped.stackBusy = g.stackBusy /\ popped.numStack = g.numStack /\ popped.pipeline = g.pipeline
      /\ popped.irq = g.irq /\ popped.cycles = g.cycles
  BY <1>0, <1>2 DEF GxState
<1>4. new = IF Len(popped.pipe) <= PipeDepth \div 2 THEN Refill(popped) ELSE popped
  BY DEF CmdFIFORead
<1> HIDE DEF popped, new, over
<1>5. Sized(popped) /\ popped.busy
  <2>1. g.busy
    BY DEF WellFormed, Consistent, IdleEmpty
  <2>2. Len(g.pipe) - 1 <= PipeDepth
    BY <1>1, Depths DEF WellFormed, Consistent, Sized
  <2> QED BY <1>2, <1>3, <2>1, <2>2 DEF WellFormed, Consistent, Sized
<1>6. /\ Tail(g.pipe) \o g.queue = Tail(g.pipe \o g.queue) /\ g.pipe \o g.queue # <<>>
      /\ Head(g.pipe \o g.queue) = Head(g.pipe) /\ g.pipe \o g.queue \in Seq(Commands)
  BY <1>1, QueuesShrink
<1>7. StackCounted(popped, over)
  <2>1. Count(Tail(g.pipe \o g.queue)) = IF Head(g.pipe) = "stack" THEN Count(g.pipe \o g.queue) - 1
                                         ELSE Count(g.pipe \o g.queue)
    BY <1>6, CountTail
  <2>2. Count(g.pipe \o g.queue) \in Nat
    BY <1>6, CountType
  <2>3. g.numStack = Count(g.pipe \o g.queue) + 0 /\ (g.numStack > 0 => g.stackBusy)
    <3>1. StackCounted(g, 0)
      BY DEF WellFormed, Consistent
    <3> QED BY <3>1 DEF StackCounted
  <2>4. popped.numStack = Count(popped.pipe \o popped.queue) + over
    <3> DEFINE c == Count(g.pipe \o g.queue)
    <3>1. c \in Nat /\ g.numStack = c
      BY <2>2, <2>3
    <3>2. Count(popped.pipe \o popped.queue) = IF Head(g.pipe) = "stack" THEN c - 1 ELSE c
      BY <1>3, <1>6, <2>1
    <3> HIDE DEF c
    <3> QED BY <1>3, <3>1, <3>2 DEF over
  <2> QED BY <1>3, <2>3, <2>4 DEF StackCounted
<1>8. OnTheWay(popped) = Tail(OnTheWay(g)) /\ OnTheWay(g) # <<>>
  <2>1. /\ Tail(g.pipe \o g.queue) \o g.stallQueue = Tail((g.pipe \o g.queue) \o g.stallQueue)
        /\ (g.pipe \o g.queue) \o g.stallQueue # <<>>
    BY <1>1, <1>6, QueuesShrink
  <2> QED BY <1>3, <1>6, <2>1 DEF OnTheWay
<1>9. popped.stalled <=> popped.stallQueue # <<>>
  BY <1>3 DEF WellFormed, StallsWhenFull
<1>10. CASE Len(popped.pipe) <= PipeDepth \div 2
  BY <1>0, <1>3, <1>4, <1>5, <1>7, <1>8, <1>9, <1>10, RefillKeeps DEF new, over
<1>11. CASE ~(Len(popped.pipe) <= PipeDepth \div 2)
  <2>1. new = popped
    BY <1>4, <1>11
  <2>2. Fed(popped)
    <3>1. popped.pipe # <<>>
      BY <1>11, HalfPipe
    <3> QED BY <3>1 DEF Fed
  <2>3. Consistent(popped, over)
    BY <1>3, <1>5, <1>7, <2>2 DEF Consistent, IdleEmpty
  <2>4. StallsWhenFull(popped) /\ IrqTold(popped)
    BY <1>3 DEF WellFormed, StallsWhenFull, IrqTold, IrqDue
  <2> QED BY <1>3, <1>5, <1>8, <2>1, <2>3, <2>4 DEF new, over
<1> QED BY <1>10, <1>11 DEF new, over

-----------------------------------------------------------------------------
(* Executing *)
Costs == \A cmd \in Commands : Cost[cmd] \in Nat \ {0}
\* Every command costs some cycles.
LEMMA CostsAre == Costs
  BY GxAssumption DEF GxAssumption, Costs

\* Executing takes the first command off the way.
LEMMA ExecuteKeeps ==
  ASSUME NEW g, WellFormed(g), g.pipe # <<>>
  PROVE  /\ WellFormed(ExecuteCommand(g)) /\ OnTheWay(ExecuteCommand(g)) = Tail(OnTheWay(g))
         /\ OnTheWay(g) # <<>>
         /\ ExecuteCommand(g).cycles > 0 \/ ExecuteCommand(g).cycles > g.cycles
<1> DEFINE cmd == Head(g.pipe)
           read == CmdFIFORead(g)
           done == AddCycles(read, Cost[cmd])
           new == ExecuteCommand(g)
<1>1. cmd \in Commands /\ Cost[cmd] \in Nat \ {0} /\ Cost["swap"] \in Nat \ {0} /\ Latency \in Nat
  <2>1. cmd \in Commands
    BY DEF WellFormed, Consistent, GxState
  <2>2. "swap" \in Commands
    BY GxAssumption DEF GxAssumption
  <2> QED BY <2>1, <2>2, CostsAre, Depths DEF Costs
<1>2. /\ Consistent(read, IF cmd = "stack" THEN 1 ELSE 0) /\ StallsWhenFull(read) /\ IrqTold(read)
      /\ OnTheWay(read) = Tail(OnTheWay(g)) /\ OnTheWay(g) # <<>> /\ read.busy
      /\ read.cycles = g.cycles
  BY PopKeeps
<1>3. read \in GxState
  BY <1>2 DEF Consistent
<1> HIDE DEF read, cmd
<1> DEFINE pipeline == IF cmd = "swap" THEN 0 ELSE IF cmd = "stack" THEN done.pipeline ELSE Latency
           cycles == IF cmd = "swap" THEN Cost["swap"] ELSE read.cycles + Cost[cmd]
           numStack == IF cmd = "stack" THEN read.numStack - 1 ELSE read.numStack
           flush == IF cmd = "swap" THEN TRUE ELSE read.flush
<1>4. /\ done.pipeline \in Nat /\ done.pipeline <= Latency
      /\ done = [read EXCEPT !.cycles = read.cycles + Cost[cmd], !.pipeline = done.pipeline]
  <2>1. /\ read.pipeline \in Nat /\ read.pipeline <= Latency
    BY <1>2, <1>3 DEF Consistent, Sized, GxState
  <2>2. done = [read EXCEPT !.cycles = read.cycles + Cost[cmd],
                  !.pipeline = IF read.pipeline > Cost[cmd] THEN read.pipeline - Cost[cmd] ELSE 0]
    BY <1>3 DEF AddCycles, GxState
  <2>3. done.pipeline = IF read.pipeline > Cost[cmd] THEN read.pipeline - Cost[cmd] ELSE 0
    BY <1>3, <2>2 DEF GxState
  <2> HIDE DEF done
  <2> QED BY <1>1, <2>1, <2>2, <2>3
<1>5. new = [read EXCEPT !.cycles = cycles, !.pipeline = pipeline, !.numStack = numStack, !.flush = flush]
  <2>1. new = IF cmd = "swap" THEN [done EXCEPT !.flush = TRUE, !.cycles = Cost["swap"], !.pipeline = 0]
              ELSE IF cmd = "stack" THEN [done EXCEPT !.numStack = @ - 1]
              ELSE [done EXCEPT !.pipeline = Latency]
    BY DEF ExecuteCommand, cmd, read
  <2> HIDE DEF new, done
  <2> QED BY <1>3, <1>4, <2>1 DEF GxState
<1>6. /\ cycles \in Int /\ numStack \in Int /\ flush \in BOOLEAN /\ pipeline \in Nat /\ pipeline <= Latency
  <2>1. read.cycles \in Int /\ read.numStack \in Int /\ read.flush \in BOOLEAN
    BY <1>3 DEF GxState
  <2> HIDE DEF done
  <2>2. cycles \in Int /\ numStack \in Int
    BY <1>1, <2>1
  <2>3. flush \in BOOLEAN
    BY <2>1
  <2>4. pipeline \in Nat /\ pipeline <= Latency
    BY <1>1, <1>4
  <2> QED BY <2>2, <2>3, <2>4
<1>12. cycles > 0 \/ cycles > read.cycles
  <2>1. read.cycles \in Int
    BY <1>3 DEF GxState
  <2> QED BY <1>1, <2>1
<1>7. numStack = Count(read.pipe \o read.queue) /\ (numStack > 0 => read.stackBusy)
  <2> HIDE DEF done, new
  <2>1. StackCounted(read, IF cmd = "stack" THEN 1 ELSE 0)
    BY <1>2 DEF Consistent
  <2>2. Count(read.pipe \o read.queue) \in Nat
    <3>1. read.pipe \o read.queue \in Seq(Commands)
      BY <1>3 DEF GxState
    <3> QED BY <3>1, CountType
  <2> QED BY <1>3, <2>1, <2>2 DEF StackCounted, GxState
<1> HIDE DEF cycles, pipeline, numStack, flush, done, new
<1>8. /\ new \in GxState /\ new.pipe = read.pipe /\ new.queue = read.queue
      /\ new.stallQueue = read.stallQueue /\ new.stalled = read.stalled /\ new.busy = read.busy
      /\ new.stackBusy = read.stackBusy /\ new.numStack = numStack /\ new.pipeline = pipeline
      /\ new.irq = read.irq /\ new.cycles = cycles
  BY <1>3, <1>5, <1>6 DEF GxState
<1>10. Consistent(new, 0)
  <2>1. StackCounted(new, 0)
    <3>1. Count(read.pipe \o read.queue) = Count(read.pipe \o read.queue) + 0
      <4>1. read.pipe \o read.queue \in Seq(Commands)
        BY <1>3 DEF GxState
      <4>2. Count(read.pipe \o read.queue) \in Nat
        BY <4>1, CountType
      <4> QED BY <4>2
    <3> QED BY <1>7, <1>8, <3>1 DEF StackCounted
  <2> QED BY <1>2, <1>6, <1>8, <2>1 DEF Consistent, Sized, Fed, IdleEmpty
<1>11. StallsWhenFull(new) /\ IrqTold(new) /\ OnTheWay(new) = OnTheWay(read)
  BY <1>2, <1>8 DEF StallsWhenFull, IrqTold, IrqDue, OnTheWay
<1> QED BY <1>2, <1>8, <1>10, <1>11, <1>12 DEF WellFormed, new

WellFormedStates == {g \in GxState : WellFormed(g)}

\* The engine executes one command or does nothing.
LEMMA NextExecutes ==
  ASSUME NEW g \in WellFormedStates, NEW k \in Int
  PROVE  LET new == ExecuteNext(g, k) IN
         /\ new \in WellFormedStates
         /\ \/ OnTheWay(new) = OnTheWay(g)
            \/ OnTheWay(g) # <<>> /\ OnTheWay(new) = Tail(OnTheWay(g))
         /\ \/ new = g /\ (g.cycles > 0 \/ g.pipe = <<>>)
            \/ new.cycles > 0 \/ new.cycles > g.cycles
<1>1. g \in GxState /\ WellFormed(g)
  BY DEF WellFormedStates
<1>2. CASE g.cycles <= 0 /\ g.pipe # <<>>
  <2> DEFINE b == StackBusy(g)
             w == [g EXCEPT !.stackBusy = b]
             new == ExecuteCommand(w)
  <2>1. ExecuteNext(g, k) = new
    BY <1>2 DEF ExecuteNext
  <2>2. b \in BOOLEAN /\ (g.numStack > 0 => b)
    BY <1>1 DEF StackBusy, WellFormed, Consistent, StackCounted, GxState
  <2> HIDE DEF b, new
  <2>3. /\ w \in GxState /\ w.pipe = g.pipe /\ w.queue = g.queue /\ w.stallQueue = g.stallQueue
        /\ w.stalled = g.stalled /\ w.busy = g.busy /\ w.stackBusy = b /\ w.numStack = g.numStack
        /\ w.pipeline = g.pipeline /\ w.irq = g.irq /\ w.cycles = g.cycles
    BY <1>1, <2>2 DEF GxState
  <2> HIDE DEF w
  <2>4. WellFormed(w) /\ OnTheWay(w) = OnTheWay(g)
    BY <1>1, <2>2, <2>3
    DEF WellFormed, Consistent, Sized, Fed, StackCounted, IdleEmpty, StallsWhenFull, IrqTold, IrqDue, OnTheWay
  <2>5. /\ WellFormed(new) /\ OnTheWay(new) = Tail(OnTheWay(w)) /\ OnTheWay(w) # <<>>
        /\ new.cycles > 0 \/ new.cycles > w.cycles
    BY <1>2, <2>3, <2>4, ExecuteKeeps DEF new
  <2>6. new \in WellFormedStates
    BY <2>5 DEF WellFormed, Consistent, WellFormedStates
  <2> QED BY <2>1, <2>3, <2>4, <2>5, <2>6
<1>3. CASE ~(g.cycles <= 0 /\ g.pipe # <<>>)
  <2>1. ExecuteNext(g, k) = g /\ (g.cycles > 0 \/ g.pipe = <<>>)
    BY <1>1, <1>3 DEF ExecuteNext, GxState
  <2> QED BY <2>1
<1> QED BY <1>2, <1>3

\* One command executed leaves the engine well formed.
LEMMA NextKeeps ==
  ASSUME NEW g \in WellFormedStates, NEW k \in Int PROVE ExecuteNext(g, k) \in WellFormedStates
  BY NextExecutes

\* The states the engine passes through in the cycles it is given.
LEMMA NextSteps ==
  ASSUME NEW g \in WellFormedStates, NEW cmds \in Seq(Int)
  PROVE  \E h \in [0 .. Len(cmds) -> WellFormedStates] :
           /\ h[0] = g /\ h[Len(cmds)] = FoldLeft(ExecuteNext, g, cmds)
           /\ \A k \in 1 .. Len(cmds) : h[k] = ExecuteNext(h[k - 1], cmds[k])
<1> DEFINE n == Len(cmds)
           op == [x \in WellFormedStates \X Int |-> ExecuteNext(x[1], x[2])]
           Body(it) == [t \in SUBSET (1 .. n) |->
                          IF t = {} THEN g ELSE ExecuteNext(it[t \ {Max(t)}], cmds[Max(t)])]
           iter == CHOOSE it : it = Body(it)
<1>1. n \in Nat /\ DOMAIN cmds = 1 .. n /\ \A k \in 1 .. n : cmds[k] \in Int
  OBVIOUS
<1>2. op \in [WellFormedStates \X Int -> WellFormedStates]
  BY NextKeeps
<1>3. PICK f \in [SUBSET (1 .. n) -> WellFormedStates] : \A t \in SUBSET (1 .. n) : FoldsTo(f, t, op, g, cmds)
  <2> HIDE DEF op
  <2> QED BY <1>2, FoldTable
<1>4. f = Body(f)
  <2> SUFFICES ASSUME NEW t \in SUBSET (1 .. n), t # {}
               PROVE  op[<<f[t \ {Max(t)}], cmds[Max(t)]>>] = ExecuteNext(f[t \ {Max(t)}], cmds[Max(t)])
    BY <1>3 DEF FoldsTo
  <2>1. Max(t) \in t
    BY <1>1, TopIn
  <2> QED BY <1>1, <2>1
<1>5. iter = Body(iter)
  BY <1>4
<1>6. FoldLeft(ExecuteNext, g, cmds) = iter[1 .. n]
  BY <1>1 DEF FoldLeft, MapThenFoldSet
<1> DEFINE h == [k \in 0 .. n |-> iter[1 .. k]]
<1> HIDE DEF iter
<1>7. h[0] = g
  BY <1>5
<1>8. ASSUME NEW k \in 1 .. n PROVE h[k] = ExecuteNext(h[k - 1], cmds[k])
  <2>1. 1 .. k \in SUBSET (1 .. n) /\ k - 1 \in 0 .. n /\ k \in 0 .. n
    OBVIOUS
  <2>2. iter[1 .. k] = ExecuteNext(iter[1 .. k - 1], cmds[k])
    <3>1. iter[1 .. k] = IF 1 .. k = {} THEN g
                         ELSE ExecuteNext(iter[(1 .. k) \ {Max(1 .. k)}], cmds[Max(1 .. k)])
      BY <1>5, <2>1
    <3>2. Max(1 .. k) = k /\ (1 .. k) \ {k} = 1 .. k - 1 /\ 1 .. k # {}
      <4>1. k \in Nat \ {0}
        BY <1>1
      <4> HIDE DEF h, op, Body
      <4> QED BY <4>1, UpTo
    <3> QED BY <3>1, <3>2
  <2> QED BY <2>1, <2>2
<1> HIDE DEF h
<1>9. \A k \in 0 .. n : h[k] \in WellFormedStates
  <2> DEFINE S == {k \in 0 .. n : h[k] \in WellFormedStates}
  <2>1. 0 \in S
    BY <1>1, <1>7
  <2>2. ASSUME NEW k \in 0 .. n - 1, k \in S PROVE k + 1 \in S
    <3>1. k + 1 \in 1 .. n /\ (k + 1) - 1 = k
      BY <1>1
    <3> QED BY <1>1, <1>8, <2>2, <3>1, NextKeeps
  <2> HIDE DEF S
  <2>3. \A k \in 0 .. n : k \in S
    BY <1>1, <2>1, <2>2, CountUp
  <2> QED BY <2>3 DEF S
<1>10. h \in [0 .. n -> WellFormedStates]
  BY <1>9 DEF h
<1>11. h[n] = FoldLeft(ExecuteNext, g, cmds)
  BY <1>1, <1>6 DEF h
<1> QED BY <1>7, <1>8, <1>10, <1>11

\* What the engine executes comes off the way in order.
Suffix(new, old) == \E n \in 0 .. Len(old) : new = SubSeq(old, n + 1, Len(old))

\* A queue ends with itself,
LEMMA SuffixSame == ASSUME NEW S, NEW s \in Seq(S) PROVE Suffix(s, s)
<1>1. 0 \in 0 .. Len(s) /\ SubSeq(s, 0 + 1, Len(s)) = s
  BY SubSeqFull
<1> QED BY <1>1 DEF Suffix

\* and with what it ends with without its first.
LEMMA SuffixTail ==
  ASSUME NEW S, NEW s \in Seq(S), NEW t, Suffix(t, s), t # <<>>
  PROVE  Suffix(Tail(t), s)
<1>1. PICK n \in 0 .. Len(s) : t = SubSeq(s, n + 1, Len(s))
  BY DEF Suffix
<1>2. Len(s) \in Nat
  OBVIOUS
<1>3. n # Len(s)
  BY <1>1, <1>2, SubSeqEmpty
<1>4. n \in 0 .. Len(s) - 1 /\ n + 1 \in 0 .. Len(s) /\ (n + 1) + 1 = n + 2
  BY <1>2, <1>3
<1>5. Tail(t) = SubSeq(s, n + 2, Len(s))
  BY <1>1, <1>4, SuffixShrinks
<1> QED BY <1>4, <1>5 DEF Suffix

\* All that is executed in one run comes off the way in order.
LEMMA ExecutedKeeps ==
  ASSUME NEW g, WellFormed(g), g.cycles >= 0, NEW elapsed \in Nat
  PROVE  LET new == Executed(g, elapsed) IN
         /\ WellFormed(new) /\ Suffix(OnTheWay(new), OnTheWay(g))
         /\ new.cycles > 0 \/ new.pipe = <<>>
<1> DEFINE b == [g EXCEPT !.cycles = g.cycles - elapsed]
           ks == [k \in 1 .. elapsed + 1 |-> k]
           new == Executed(g, elapsed)
<1>1. g \in GxState /\ g.cycles \in Nat
  BY DEF WellFormed, Consistent, GxState
<1>2. /\ b \in GxState /\ b.cycles = g.cycles - elapsed /\ OnTheWay(b) = OnTheWay(g) /\ WellFormed(b)
  <2>1. /\ b \in GxState /\ b.pipe = g.pipe /\ b.queue = g.queue /\ b.stallQueue = g.stallQueue
        /\ b.stalled = g.stalled /\ b.busy = g.busy /\ b.stackBusy = g.stackBusy /\ b.numStack = g.numStack
        /\ b.pipeline = g.pipeline /\ b.irq = g.irq /\ b.cycles = g.cycles - elapsed
    <3> DEFINE c == g.cycles - elapsed
    <3>1. c \in Int
      BY <1>1
    <3> HIDE DEF c
    <3>2. b = [g EXCEPT !.cycles = c]
      BY DEF c
    <3> HIDE DEF b
    <3> QED BY <1>1, <3>1, <3>2 DEF GxState, c
  <2> HIDE DEF b
  <2> QED BY <2>1
      DEF WellFormed, Consistent, Sized, Fed, StackCounted, IdleEmpty, StallsWhenFull, IrqTold, IrqDue,
          OnTheWay
<1>3. ks \in Seq(Int) /\ Len(ks) = elapsed + 1
  OBVIOUS
<1>4. new = FoldLeft(ExecuteNext, b, ks)
  BY DEF Executed
<1> HIDE DEF b, ks, new
<1>5. b \in WellFormedStates
  BY <1>2 DEF WellFormedStates
<1>6. PICK h \in [0 .. Len(ks) -> WellFormedStates] :
           /\ h[0] = b /\ h[Len(ks)] = new
           /\ \A k \in 1 .. Len(ks) : h[k] = ExecuteNext(h[k - 1], ks[k])
  BY <1>3, <1>4, <1>5, NextSteps
<1>7. OnTheWay(g) \in Seq(Commands)
  BY <1>1, OnTheWayType
<1> DEFINE n == elapsed + 1
           Kept(k) == /\ Suffix(OnTheWay(h[k]), OnTheWay(g))
                      /\ h[k].cycles > 0 \/ h[k].pipe = <<>> \/ h[k].cycles >= k - elapsed
           S == {k \in 0 .. n : Kept(k)}
<1>8. 0 \in S
  <2>1. Suffix(OnTheWay(h[0]), OnTheWay(g))
    BY <1>2, <1>6, <1>7, SuffixSame
  <2>2. h[0].cycles >= 0 - elapsed
    BY <1>1, <1>2, <1>6
  <2> QED BY <2>1, <2>2
<1>9. ASSUME NEW k \in 0 .. n - 1, k \in S PROVE k + 1 \in S
  <2>1. Kept(k)
    BY <1>9
  <2>2. /\ k + 1 \in 1 .. Len(ks) /\ (k + 1) - 1 = k /\ k + 1 \in 0 .. n /\ k \in 0 .. Len(ks)
        /\ k + 1 \in 0 .. Len(ks)
    BY <1>3
  <2>3. h[k + 1] = ExecuteNext(h[k], ks[k + 1]) /\ h[k] \in WellFormedStates /\ ks[k + 1] \in Int
    BY <1>3, <1>6, <2>2
  <2>4. /\ h[k + 1] \in WellFormedStates
        /\ \/ OnTheWay(h[k + 1]) = OnTheWay(h[k])
           \/ OnTheWay(h[k]) # <<>> /\ OnTheWay(h[k + 1]) = Tail(OnTheWay(h[k]))
        /\ \/ h[k + 1] = h[k] /\ (h[k].cycles > 0 \/ h[k].pipe = <<>>)
           \/ h[k + 1].cycles > 0 \/ h[k + 1].cycles > h[k].cycles
    BY <2>3, NextExecutes
  <2>5. Suffix(OnTheWay(h[k + 1]), OnTheWay(g))
    BY <1>7, <2>1, <2>4, SuffixTail
  <2>6. h[k + 1].cycles > 0 \/ h[k + 1].pipe = <<>> \/ h[k + 1].cycles >= (k + 1) - elapsed
    <3>1. h[k].cycles \in Int /\ h[k + 1].cycles \in Int
      BY <2>3, <2>4 DEF WellFormedStates, GxState
    <3>2. CASE h[k].cycles >= k - elapsed
      BY <2>4, <3>1, <3>2
    <3>3. CASE h[k].cycles > 0 \/ h[k].pipe = <<>>
      <4>1. h[k + 1] = h[k]
        BY <2>3, <3>1, <3>3 DEF ExecuteNext
      <4> QED BY <3>3, <4>1
    <3> QED BY <2>1, <3>2, <3>3
  <2> QED BY <2>2, <2>5, <2>6
<1> HIDE DEF S
<1>10. \A k \in 0 .. n : k \in S
  <2>1. n \in Nat
    OBVIOUS
  <2> HIDE DEF n, Kept
  <2> QED BY <1>8, <1>9, <2>1, CountUp
<1>11. Kept(n)
  <2>1. n \in S
    BY <1>10
  <2> HIDE DEF Kept
  <2> QED BY <2>1 DEF S
<1>12. h[n] = new /\ new \in WellFormedStates
  <2>1. n \in 0 .. Len(ks) /\ n = Len(ks)
    BY <1>3
  <2> QED BY <1>6, <2>1
<1>13. WellFormed(new) /\ new.cycles \in Int
  BY <1>12 DEF WellFormedStates, GxState
<1>14. n - elapsed > 0
  OBVIOUS
<1>15. new.cycles > 0 \/ new.pipe = <<>>
  BY <1>11, <1>12, <1>13, <1>14
<1> QED BY <1>11, <1>12, <1>13, <1>15 DEF new

\* So it does when the engine comes to rest.
LEMMA EndedKeeps ==
  ASSUME NEW g, WellFormed(g), g.cycles <= 0, g.pipe = <<>>
  PROVE  WellFormed(Ended(g)) /\ OnTheWay(Ended(g)) = OnTheWay(g) /\ Ended(g).cycles = 0
<1> DEFINE pipeline == IF ~g.busy THEN g.pipeline
                       ELSE IF g.pipeline > -g.cycles THEN g.pipeline - (-g.cycles) ELSE 0
           busy == g.busy /\ pipeline > 0
           ended == IF ~g.busy THEN [g EXCEPT !.cycles = 0] ELSE FinishWork(g)
           stackBusy == StackBusy(ended)
           new == Ended(g)
<1>1. g \in GxState /\ g.cycles \in Int /\ g.pipeline \in Nat /\ g.pipeline <= Latency /\ g.busy \in BOOLEAN
  BY DEF WellFormed, Consistent, Sized, GxState
<1>2. /\ pipeline \in Nat /\ pipeline <= Latency /\ busy \in BOOLEAN
      /\ (~g.busy => g.pipeline = 0) /\ (~busy => pipeline = 0)
  <2>1. ~g.busy => g.pipeline = 0
    BY DEF WellFormed, Consistent, IdleEmpty
  <2>2. pipeline \in Nat /\ pipeline <= Latency
    <3> HIDE DEF ended, new
    <3> QED BY <1>1, Depths
  <2> QED BY <1>1, <2>1, <2>2
<1>3. ended = [g EXCEPT !.cycles = 0, !.pipeline = pipeline, !.busy = busy]
  <2>1. CASE ~g.busy
    <3>1. [g EXCEPT !.cycles = 0, !.pipeline = g.pipeline, !.busy = FALSE] = [g EXCEPT !.cycles = 0]
      BY <1>1, <2>1 DEF GxState
    <3> QED BY <2>1, <3>1
  <2>2. CASE g.busy
    <3> DEFINE rest == AddCycles(g, -g.cycles)
    <3>1. rest = [g EXCEPT !.cycles = g.cycles + (-g.cycles), !.pipeline = pipeline]
      BY <1>1, <2>2 DEF AddCycles, GxState
    <3> HIDE DEF pipeline
    <3>2. rest.pipeline = pipeline
      BY <1>1, <3>1 DEF GxState
    <3>3. ended = [rest EXCEPT !.cycles = 0, !.busy = rest.pipeline > 0]
      BY <2>2 DEF FinishWork
    <3> HIDE DEF rest, ended
    <3>4. busy = (rest.pipeline > 0)
      BY <2>2, <3>2
    <3> HIDE DEF busy
    <3>5. ended = [rest EXCEPT !.cycles = 0, !.busy = busy]
      BY <3>3, <3>4
    <3> QED BY <1>1, <3>1, <3>5 DEF GxState
  <2> QED BY <1>1, <2>1, <2>2
<1>4. new = [ended EXCEPT !.stackBusy = stackBusy]
  BY DEF Ended
<1> HIDE DEF pipeline, busy, ended, new
<1>5. /\ ended \in GxState /\ ended.pipe = g.pipe /\ ended.queue = g.queue /\ ended.stallQueue = g.stallQueue
      /\ ended.stalled = g.stalled /\ ended.busy = busy /\ ended.stackBusy = g.stackBusy
      /\ ended.numStack = g.numStack /\ ended.pipeline = pipeline /\ ended.irq = g.irq /\ ended.cycles = 0
  <2>1. g \in GxState /\ pipeline \in Nat /\ busy \in BOOLEAN
    BY <1>1, <1>2
  <2>2. ended \in GxState
    <3> DEFINE c == 0
    <3>1. c \in Int /\ ended = [g EXCEPT !.cycles = c, !.pipeline = pipeline, !.busy = busy]
      BY <1>3
    <3> HIDE DEF c
    <3> QED BY <2>1, <3>1 DEF GxState
  <2>3. /\ ended.pipe = g.pipe /\ ended.queue = g.queue /\ ended.stallQueue = g.stallQueue
        /\ ended.stalled = g.stalled /\ ended.busy = busy /\ ended.stackBusy = g.stackBusy
        /\ ended.numStack = g.numStack /\ ended.pipeline = pipeline /\ ended.irq = g.irq /\ ended.cycles = 0
    BY <1>3, <2>1 DEF GxState
  <2> QED BY <2>2, <2>3
<1>6. stackBusy \in BOOLEAN /\ (ended.numStack > 0 => stackBusy)
  BY <1>1, <1>5 DEF StackBusy, WellFormed, Consistent, StackCounted, GxState
<1> HIDE DEF stackBusy
<1>7. /\ new \in GxState /\ new.pipe = g.pipe /\ new.queue = g.queue /\ new.stallQueue = g.stallQueue
      /\ new.stalled = g.stalled /\ new.busy = busy /\ new.stackBusy = stackBusy
      /\ new.numStack = g.numStack /\ new.pipeline = pipeline /\ new.irq = g.irq /\ new.cycles = 0
  BY <1>4, <1>5, <1>6 DEF GxState
<1>8. WellFormed(new)
  BY <1>2, <1>5, <1>6, <1>7
  DEF WellFormed, Consistent, Sized, Fed, StackCounted, IdleEmpty, StallsWhenFull, IrqTold, IrqDue
<1> QED BY <1>7, <1>8 DEF OnTheWay, new

\* And in the whole of Run.
LEMMA RunKeeps ==
  ASSUME NEW g, WellFormed(g), g.cycles >= 0, NEW elapsed \in Nat
  PROVE  /\ WellFormed(Run(g, elapsed)) /\ Suffix(OnTheWay(Run(g, elapsed)), OnTheWay(g))
         /\ Run(g, elapsed).cycles >= 0
<1> DEFINE ran == Executed(g, elapsed)
<1>1. g \in GxState /\ OnTheWay(g) \in Seq(Commands)
  BY OnTheWayType DEF WellFormed, Consistent
<1>2. CASE Held(g)
  BY <1>1, <1>2, SuffixSame DEF Run
<1>3. CASE ~Held(g)
  <2>1. /\ WellFormed(ran) /\ Suffix(OnTheWay(ran), OnTheWay(g)) /\ (ran.cycles > 0 \/ ran.pipe = <<>>)
    BY ExecutedKeeps
  <2>2. Run(g, elapsed) = IF ran.cycles <= 0 /\ ran.pipe = <<>> THEN Ended(ran) ELSE ran
    BY <1>3 DEF Run
  <2> HIDE DEF ran
  <2>3. CASE ran.cycles <= 0 /\ ran.pipe = <<>>
    BY <2>1, <2>2, <2>3, EndedKeeps
  <2>4. CASE ~(ran.cycles <= 0 /\ ran.pipe = <<>>)
    <3>1. ran.cycles \in Int
      BY <2>1 DEF WellFormed, Consistent, GxState
    <3> QED BY <2>1, <2>2, <2>4, <3>1
  <2> QED BY <2>3, <2>4
<1> QED BY <1>2, <1>3

-----------------------------------------------------------------------------
(* The turns of the frame loop *)
Turns ==
  /\ turn \in {"slice", "program", "dma", "engine"} /\ chan \in Channels
  /\ left \in 0 .. SliceCycles /\ lead \in 0 .. SliceCycles /\ untilBlank \in 0 .. FrameCycles
  /\ turn \in {"program", "dma"} => left <= untilBlank /\ lead + left <= SliceCycles
  /\ turn = "program" => left > 0
  /\ turn = "slice" => left = 0 /\ lead = 0 /\ untilBlank > 0

Engine == WellFormed(gx) /\ gx.cycles >= 0

\* The bounds of the turns.
LEMMA Sizes == /\ NumChannels \in Nat /\ NumChannels > 0 /\ ChunkSize \in Nat
               /\ SliceCycles \in Nat /\ SliceCycles > 0 /\ FrameCycles \in Nat /\ FrameCycles > 0
  BY TransferAssumption DEF TransferAssumption

\* The shorter of two slices.
LEMMA SmallerIs ==
  ASSUME NEW a \in Nat, NEW b \in Nat
  PROVE  Smaller(a, b) \in Nat /\ Smaller(a, b) <= a /\ Smaller(a, b) <= b
         /\ (Smaller(a, b) = a \/ Smaller(a, b) = b)
  BY DEF Smaller

\* At the start nobody has had a turn,
LEMMA InitTurns == GxInit => Turns
  BY Sizes DEF GxInit, Turns, Channels

\* the engine is empty,
LEMMA InitEngine == GxInit => Engine
<1> SUFFICES ASSUME gx = Idle PROVE Engine
  BY DEF GxInit
<1>1. Len(<<>>) = 0 /\ <<>> \in Seq(Commands) /\ <<>> \o <<>> = <<>>
  OBVIOUS
<1>2. gx \in GxState
  BY <1>1 DEF Idle, GxState
<1>3. /\ gx.pipe = <<>> /\ gx.queue = <<>> /\ gx.stallQueue = <<>> /\ gx.stalled = FALSE /\ gx.busy = FALSE
      /\ gx.stackBusy = FALSE /\ gx.numStack = 0 /\ gx.cycles = 0 /\ gx.pipeline = 0 /\ gx.irq = (FIFOIrq # 0)
  BY DEF Idle
<1>4. StackCounted(gx, 0)
  BY <1>1, <1>3, CountEmpty DEF StackCounted
<1>5. IrqTold(gx)
  <2>1. IrqDue(gx) => FIFOIrq = 1 \/ FIFOIrq = 2
    BY DEF IrqDue
  <2>2. FIFOIrq = 1 \/ FIFOIrq = 2 => FIFOIrq # 0
    OBVIOUS
  <2> QED BY <1>3, <2>1, <2>2 DEF IrqTold
<1> QED BY <1>1, <1>2, <1>3, <1>4, <1>5, Depths
        DEF Engine, WellFormed, Consistent, Sized, Fed, IdleEmpty, StallsWhenFull

\* The channels take turns.
LEMMA ChannelAfter == ASSUME NEW c \in Channels PROVE (c + 1) % NumChannels \in Channels
  BY Sizes DEF Channels

\* Every step leaves the turns as they should be.
LEMMA StepTurns == Turns /\ Engine /\ GxNext => Turns'
<1> SUFFICES ASSUME Turns, Engine, GxNext PROVE Turns'
  OBVIOUS
<1>0. /\ chan \in Channels /\ left \in Nat /\ lead \in Nat /\ untilBlank \in Nat
      /\ left <= SliceCycles /\ lead <= SliceCycles /\ untilBlank <= FrameCycles
  BY Sizes DEF Turns
<1>1. 0 \in Channels
  BY Sizes DEF Channels
<1>2. Target \in Nat /\ Target <= SliceCycles /\ Target <= untilBlank /\ (untilBlank > 0 => Target > 0)
  BY <1>0, Sizes, SmallerIs DEF Target
<1>3. CASE StalledSlice
  <2>1. CyclesToRunFor(gx) \in Nat
    <3>1. gx.cycles \in Int
      BY DEF Engine, WellFormed, Consistent, GxState
    <3> QED BY <3>1 DEF CyclesToRunFor
  <2>2. lead' \in Nat /\ lead' <= Target
    BY <1>2, <1>3, <2>1, SmallerIs DEF StalledSlice
  <2> QED BY <1>0, <1>2, <1>3, <2>2, Sizes DEF StalledSlice, Turns
<1>4. CASE BeginSlice
  BY <1>0, <1>1, <1>2, <1>4, Sizes DEF BeginSlice, Turns
<1>5. CASE EndSlice
  BY <1>0, <1>5, Sizes DEF EndSlice, Turns
<1>6. CASE SkipChannel
  BY <1>0, <1>6, ChannelAfter, Sizes DEF SkipChannel, NextChannel, Turns
<1>7. CASE StopMoving
  BY <1>0, <1>7, ChannelAfter, Sizes DEF StopMoving, NextChannel, Turns
<1>8. ASSUME NEW word \in DmaWords, MoveWord(word) PROVE Turns'
  BY <1>0, <1>8, Sizes DEF MoveWord, MayMove, Elapse, Turns
<1>9. ASSUME turn = "program", Executes, lead' = lead + 1 \/ lead' = 1 PROVE Turns'
  BY <1>0, <1>9, Sizes DEF Executes, Elapse, Turns
<1>10. CASE ReadStat
  BY <1>9, <1>10 DEF ReadStat
<1>11. CASE AckIrq
  BY <1>9, <1>11 DEF AckIrq
<1>12. ASSUME NEW cmds \in Stores, Store(cmds) PROVE Turns'
  BY <1>9, <1>12 DEF Store
<1>13. ASSUME NEW d \in Channels, NEW val \in Controls[d], WriteChannel(d, val) PROVE Turns'
  BY <1>9, <1>13 DEF WriteChannel
<1>14. CASE OtherCode
  BY <1>0, <1>14, Sizes DEF OtherCode, Elapse, Turns
<1> QED BY <1>3, <1>4, <1>5, <1>6, <1>7, <1>8, <1>10, <1>11, <1>12, <1>13, <1>14 DEF GxNext

-----------------------------------------------------------------------------
\* The marks on the engine that are no part of the queues.
SameButMarks(new, g) == WellFormed(new) /\ OnTheWay(new) = OnTheWay(g) /\ new.cycles = g.cycles

\* Acknowledging an interrupt, and the vertical blank, leave the queues alone.
LEMMA MarksKeep ==
  ASSUME NEW g, WellFormed(g), NEW refilled \in BOOLEAN, NEW flush \in BOOLEAN, NEW irq \in BOOLEAN,
         IrqDue(g) => irq
  PROVE  SameButMarks([g EXCEPT !.refilled = refilled, !.flush = flush, !.irq = irq], g)
<1> DEFINE new == [g EXCEPT !.refilled = refilled, !.flush = flush, !.irq = irq]
<1>1. g \in GxState
  BY DEF WellFormed, Consistent
<1>2. new \in GxState
  BY <1>1 DEF GxState
<1>3. /\ new.pipe = g.pipe /\ new.queue = g.queue /\ new.stallQueue = g.stallQueue
      /\ new.stalled = g.stalled /\ new.busy = g.busy /\ new.stackBusy = g.stackBusy
      /\ new.numStack = g.numStack /\ new.pipeline = g.pipeline /\ new.irq = irq /\ new.cycles = g.cycles
  BY <1>1 DEF GxState
<1> HIDE DEF new
<1>4. WellFormed(new) /\ OnTheWay(new) = OnTheWay(g)
  BY <1>2, <1>3
  DEF WellFormed, Consistent, Sized, Fed, StackCounted, IdleEmpty, StallsWhenFull, IrqTold, IrqDue, OnTheWay
<1> QED BY <1>3, <1>4 DEF new, SameButMarks

\* What a step does to the engine.
LEMMA StoreKeeps ==
  ASSUME Engine, NEW cmds \in Seq(Commands), gx' = Written(gx, cmds)
  PROVE  Engine' /\ Accepts(cmds) /\ gx'.stalled \in BOOLEAN
<1>1. /\ WellFormed(gx') /\ gx'.cycles = gx.cycles
      /\ \E n \in 0 .. Len(cmds) : /\ OnTheWay(gx') = OnTheWay(gx) \o SubSeq(cmds, 1, n)
                                   /\ n = Len(cmds) \/ Len(gx'.stallQueue) = StallDepth
  BY WrittenKeeps DEF Engine
<1> QED BY <1>1 DEF Engine, Accepts, WellFormed, Consistent, GxState

\* What a run does to the engine, and the marks set and cleared after it.
LEMMA EngineKeeps ==
  ASSUME Engine, NEW elapsed \in Nat,
         NEW g, g = Run([gx EXCEPT !.refilled = FALSE], elapsed)
  PROVE  /\ WellFormed(g) /\ g.cycles >= 0 /\ Suffix(OnTheWay(g), OnTheWay(gx)) /\ g.flush \in BOOLEAN
         /\ WellFormed([g EXCEPT !.refilled = FALSE])
         /\ \A f \in BOOLEAN : LET new == [g EXCEPT !.refilled = FALSE, !.flush = f] IN
              WellFormed(new) /\ new.cycles >= 0 /\ OnTheWay(new) = OnTheWay(g)
<1> DEFINE w == [gx EXCEPT !.refilled = FALSE]
<1>1. gx \in GxState /\ WellFormed(gx) /\ gx.flush \in BOOLEAN /\ gx.irq \in BOOLEAN /\ (IrqDue(gx) => gx.irq)
  BY DEF Engine, WellFormed, Consistent, IrqTold, GxState
<1>2. w = [gx EXCEPT !.refilled = FALSE, !.flush = gx.flush, !.irq = gx.irq]
  BY <1>1 DEF GxState
<1>3. WellFormed(w) /\ OnTheWay(w) = OnTheWay(gx) /\ w.cycles >= 0
  <2> HIDE DEF w
  <2> QED BY <1>1, <1>2, MarksKeep DEF Engine, SameButMarks
<1> HIDE DEF w
<1>4. WellFormed(g) /\ Suffix(OnTheWay(g), OnTheWay(w)) /\ g.cycles >= 0
  BY <1>3, RunKeeps DEF w
<1>5. g \in GxState /\ g.flush \in BOOLEAN /\ g.irq \in BOOLEAN /\ (IrqDue(g) => g.irq)
  BY <1>4 DEF WellFormed, Consistent, IrqTold, GxState
<1>6. ASSUME NEW f \in BOOLEAN
      PROVE  LET new == [g EXCEPT !.refilled = FALSE, !.flush = f] IN
             WellFormed(new) /\ new.cycles >= 0 /\ OnTheWay(new) = OnTheWay(g)
  <2> DEFINE new == [g EXCEPT !.refilled = FALSE, !.flush = f]
  <2>1. new = [g EXCEPT !.refilled = FALSE, !.flush = f, !.irq = g.irq]
    BY <1>5 DEF GxState
  <2> HIDE DEF new
  <2>2. WellFormed(new) /\ new.cycles >= 0 /\ OnTheWay(new) = OnTheWay(g)
    <3>1. SameButMarks(new, g)
      BY <1>4, <1>5, <2>1, MarksKeep
    <3> QED BY <1>4, <3>1 DEF SameButMarks
  <2> QED BY <2>2 DEF new
<1>7. [g EXCEPT !.refilled = FALSE] = [g EXCEPT !.refilled = FALSE, !.flush = g.flush]
  BY <1>5 DEF GxState
<1> QED BY <1>3, <1>4, <1>5, <1>6, <1>7
-----------------------------------------------------------------------------
(* Transfers *)

ControlType == [enable : BOOLEAN, gxMode : BOOLEAN, repeat : BOOLEAN, count : Nat \ {0}]
ChannelType == [cnt : ControlType, gxMode : BOOLEAN, rem : Nat, iter : Nat, running : BOOLEAN,
                inProgress : BOOLEAN, executing : BOOLEAN, stall : BOOLEAN,
                moved : Nat, goal : Nat, resumed : BOOLEAN]

\* A channel in mid-transfer has left what it has not moved.
Balanced(c) ==
  /\ c \in ChannelType /\ c.iter <= c.rem /\ (c.running => c.inProgress)
  /\ c.inProgress /\ ~c.resumed => c.moved + c.rem = c.goal

TransfersInv == dma \in [Channels -> ChannelType] /\ \A d \in Channels : Balanced(dma[d])

\* A channel that starts, or goes on, has its count before it.
LEMMA StartBalances ==
  ASSUME NEW c, Balanced(c)
  PROVE  Balanced(Start(c)) /\ Start(c).inProgress
<1>1. CASE c.running
  BY <1>1 DEF Start, Balanced
<1>2. CASE ~c.running /\ c.inProgress
  <2> DEFINE n == IF c.gxMode THEN Smaller(c.rem, ChunkSize) ELSE c.rem
  <2>1. n \in Nat /\ n <= c.rem
    BY SmallerIs, Sizes DEF Balanced, ChannelType
  <2>2. Start(c) = [c EXCEPT !.rem = c.rem, !.iter = n, !.running = TRUE, !.inProgress = TRUE,
                             !.moved = c.moved, !.goal = c.goal]
    BY <1>2 DEF Start, Balanced, ChannelType
  <2> HIDE DEF n
  <2> QED BY <2>1, <2>2, <1>2 DEF Balanced, ChannelType
<1>3. CASE ~c.running /\ ~c.inProgress
  <2> DEFINE all == c.cnt.count
             n == IF c.gxMode THEN Smaller(all, ChunkSize) ELSE all
             none == 0
  <2>1. all \in Nat /\ none \in Nat /\ none + all = all
    BY DEF Balanced, ChannelType, ControlType
  <2>2. Start(c) = [c EXCEPT !.rem = all, !.iter = n, !.running = TRUE, !.inProgress = TRUE,
                             !.moved = none, !.goal = all]
    BY <1>3 DEF Start, Balanced, ChannelType
  <2> HIDE DEF all, none
  <2>3. n \in Nat /\ n <= all
    BY <2>1, SmallerIs, Sizes
  <2> HIDE DEF n
  <2> QED BY <2>1, <2>2, <2>3 DEF Balanced, ChannelType
<1> QED BY <1>1, <1>2, <1>3

\* Starting the channels that wait ends no transfer.
LEMMA CheckKeeps ==
  ASSUME NEW cs \in [Channels -> ChannelType], \A d \in Channels : Balanced(cs[d])
  PROVE  \A new \in {CheckDMAs(cs), CheckFIFODMA(cs, gx)} :
           /\ new \in [Channels -> ChannelType]
           /\ \A d \in Channels : Balanced(new[d]) /\ (cs[d].inProgress => new[d].inProgress)
<1> DEFINE new == CheckDMAs(cs)
<1>1. new = [d \in Channels |-> new[d]]
  BY DEF CheckDMAs
<1>2. ASSUME NEW d \in Channels PROVE Balanced(new[d]) /\ (cs[d].inProgress => new[d].inProgress)
  <2>1. new[d] = Start(cs[d]) \/ new[d] = cs[d]
    BY DEF CheckDMAs
  <2>2. Balanced(Start(cs[d])) /\ Start(cs[d]).inProgress
    BY StartBalances
  <2> QED BY <2>1, <2>2
<1>3. \A d \in Channels : new[d] \in ChannelType
  BY <1>2 DEF Balanced
<1> QED BY <1>1, <1>2, <1>3 DEF CheckFIFODMA

\* What a step does to the channels: it leaves them alone, starts the waiting ones, or
\* changes one of them and may then do so.
Ends(d) == dma[d].inProgress /\ ~dma'[d].inProgress
Exact == \A d \in Channels : Ends(d) /\ ~dma[d].resumed => dma[d].moved = dma[d].goal

\* A step of one channel is exact if it is for that channel.
LEMMA OneChannel ==
  ASSUME TransfersInv, NEW d \in Channels, NEW c, Balanced(c),
         dma[d].inProgress /\ ~c.inProgress /\ ~dma[d].resumed => dma[d].moved = dma[d].goal,
         \/ dma' = [dma EXCEPT ![d] = c]
         \/ dma' = CheckFIFODMA([dma EXCEPT ![d] = c], gx)
  PROVE  TransfersInv' /\ Exact
<1> DEFINE cs == [dma EXCEPT ![d] = c]
<1>1. cs \in [Channels -> ChannelType]
  BY DEF TransfersInv, Balanced
<1>2. cs[d] = c /\ \A e \in Channels \ {d} : cs[e] = dma[e]
  BY DEF TransfersInv
<1>3. \A e \in Channels : Balanced(cs[e])
  BY <1>2 DEF TransfersInv
<1> HIDE DEF cs
<1>4. /\ dma' \in [Channels -> ChannelType]
      /\ \A e \in Channels : Balanced(dma'[e]) /\ (cs[e].inProgress => dma'[e].inProgress)
  BY <1>1, <1>3, CheckKeeps DEF cs
<1>5. TransfersInv'
  BY <1>4 DEF TransfersInv, Balanced
<1> QED BY <1>2, <1>4, <1>5 DEF Exact, Ends

\* A step that changes no channel, or starts some, is exact.
LEMMA AllChannels ==
  ASSUME TransfersInv, dma' = dma \/ dma' = CheckDMAs(dma)
  PROVE  TransfersInv' /\ Exact
<1>1. dma \in [Channels -> ChannelType] /\ \A d \in Channels : Balanced(dma[d])
  BY DEF TransfersInv
<1>2. /\ dma' \in [Channels -> ChannelType]
      /\ \A d \in Channels : Balanced(dma'[d]) /\ (dma[d].inProgress => dma'[d].inProgress)
  BY <1>1, CheckKeeps
<1> QED BY <1>2 DEF TransfersInv, Balanced, Exact, Ends

\* At the start no channel is in a transfer.
LEMMA InitTransfers == GxInit => TransfersInv
<1> SUFFICES ASSUME GxInit PROVE TransfersInv
  OBVIOUS
<1> DEFINE off == [cnt |-> ChannelOff, gxMode |-> FALSE, rem |-> 0, iter |-> 0, running |-> FALSE,
                   inProgress |-> FALSE, executing |-> FALSE, stall |-> FALSE,
                   moved |-> 0, goal |-> 0, resumed |-> FALSE]
<1>1. dma = [d \in Channels |-> off]
  BY DEF GxInit
<1>2. ChannelOff \in ControlType
  BY DEF ChannelOff, ControlType
<1>3. off \in ChannelType
  BY <1>2 DEF ChannelType
<1>4. Balanced(off)
  BY <1>3 DEF Balanced
<1> HIDE DEF off
<1> QED BY <1>1, <1>3, <1>4 DEF TransfersInv

\* Every step keeps each channel balanced, and ends a transfer only at its goal.
LEMMA StepTransfers == TransfersInv /\ Turns /\ Engine /\ GxNext => TransfersInv' /\ Exact
<1> SUFFICES ASSUME TransfersInv, Turns, Engine, GxNext PROVE TransfersInv' /\ Exact
  OBVIOUS
<1>1. CASE StalledSlice \/ BeginSlice \/ SkipChannel \/ AckIrq \/ OtherCode
           \/ \E cmds \in Stores : Store(cmds)
  <2>1. dma' = dma
    BY <1>1 DEF StalledSlice, BeginSlice, SkipChannel, AckIrq, OtherCode, Store
  <2> QED BY <2>1, AllChannels
<1>2. CASE EndSlice \/ ReadStat
  <2>1. dma' = dma \/ dma' = CheckDMAs(dma)
    BY <1>2 DEF EndSlice, ReadStat, EngineRuns
  <2> QED BY <2>1, AllChannels
<1>3. ASSUME NEW word \in DmaWords, MoveWord(word) PROVE TransfersInv' /\ Exact
  <2> DEFINE old == dma[chan]
             c == Moved(old, gx'.stalled)
  <2>1. dma' = [dma EXCEPT ![chan] = c] /\ old.running /\ old.iter > 0
    <3>1. dma' = [dma EXCEPT ![chan] = c]
      BY <1>3 DEF MoveWord
    <3>2. old.running /\ old.iter > 0
      BY <1>3 DEF MoveWord, MayMove
    <3> QED BY <3>1, <3>2
  <2>2. Balanced(old)
    BY DEF TransfersInv, Turns
  <2>3. gx'.stalled \in BOOLEAN
    <3>1. word \in Seq(Commands) /\ gx' = Written(gx, word)
      BY <1>3, TransferAssumption DEF TransferAssumption, MoveWord
    <3> QED BY <3>1, StoreKeeps
  <2>4. Balanced(c) /\ c.inProgress
    <3> DEFINE iter == old.iter - 1
               rem == old.rem - 1
               moved == old.moved + 1
    <3>1. /\ old.iter \in Nat /\ old.rem \in Nat /\ old.moved \in Nat /\ old.goal \in Nat
          /\ old.iter <= old.rem
      BY <2>2 DEF Balanced, ChannelType
    <3>2. /\ iter \in Nat /\ rem \in Nat /\ moved \in Nat /\ iter <= rem
          /\ moved + rem = old.moved + old.rem
      BY <2>1, <3>1
    <3>3. c = [old EXCEPT !.iter = iter, !.rem = rem, !.executing = TRUE,
                          !.stall = gx'.stalled, !.moved = moved]
      BY <2>2 DEF Moved, Balanced, ChannelType
    <3> HIDE DEF c, iter, rem, moved
    <3>4. c \in ChannelType
      BY <2>2, <2>3, <3>2, <3>3 DEF Balanced, ChannelType
    <3>5. /\ c.iter = iter /\ c.rem = rem /\ c.moved = moved /\ c.goal = old.goal
          /\ c.running = old.running /\ c.inProgress = old.inProgress /\ c.resumed = old.resumed
      BY <2>2, <3>3 DEF Balanced, ChannelType
    <3> QED BY <2>1, <2>2, <3>1, <3>2, <3>4, <3>5 DEF Balanced
  <2> HIDE DEF c
  <2> QED BY <2>1, <2>4, OneChannel DEF Turns
<1>4. CASE StopMoving
  <2> DEFINE old == dma[chan]
             c == [old EXCEPT !.executing = FALSE, !.stall = FALSE]
             paused == [c EXCEPT !.running = FALSE]
             over == [c EXCEPT !.cnt.enable = @ /\ c.cnt.repeat, !.running = FALSE,
                               !.inProgress = FALSE, !.resumed = FALSE, !.moved = 0, !.goal = 0]
  <2>1. \/ dma' = [dma EXCEPT ![chan] = c]
        \/ dma' = [dma EXCEPT ![chan] = paused]
        \/ dma' = CheckFIFODMA([dma EXCEPT ![chan] = paused], gx)
        \/ c.rem = 0 /\ dma' = [dma EXCEPT ![chan] = over]
    BY <1>4 DEF StopMoving
  <2>2. Balanced(old)
    BY DEF TransfersInv, Turns
  <2>3. Balanced(c) /\ c.inProgress = old.inProgress /\ c.rem = old.rem /\ c.cnt = old.cnt
    BY <2>2 DEF Balanced, ChannelType
  <2>4. Balanced(paused) /\ paused.inProgress = old.inProgress
    BY <2>2 DEF Balanced, ChannelType
  <2>5. Balanced(over)
    <3>1. [c.cnt EXCEPT !.enable = @ /\ c.cnt.repeat] \in ControlType
      BY <2>3 DEF Balanced, ChannelType, ControlType
    <3>2. over = [old EXCEPT !.executing = FALSE, !.stall = FALSE,
                             !.cnt = [c.cnt EXCEPT !.enable = @ /\ c.cnt.repeat], !.running = FALSE,
                             !.inProgress = FALSE, !.resumed = FALSE, !.moved = 0, !.goal = 0]
      BY <2>2 DEF Balanced, ChannelType
    <3> HIDE DEF over, c
    <3> QED BY <2>2, <3>1, <3>2 DEF Balanced, ChannelType
  <2>6. c.rem = 0 /\ old.inProgress /\ ~old.resumed => old.moved = old.goal
    BY <2>2, <2>3 DEF Balanced, ChannelType
  <2> HIDE DEF c, paused, over
  <2>7. CASE dma' = [dma EXCEPT ![chan] = c]
    BY <2>3, <2>7, OneChannel DEF Turns
  <2>8. CASE \/ dma' = [dma EXCEPT ![chan] = paused]
             \/ dma' = CheckFIFODMA([dma EXCEPT ![chan] = paused], gx)
    BY <2>4, <2>8, OneChannel DEF Turns
  <2>9. CASE c.rem = 0 /\ dma' = [dma EXCEPT ![chan] = over]
    BY <2>5, <2>6, <2>9, OneChannel DEF Turns
  <2> QED BY <2>1, <2>7, <2>8, <2>9
<1>5. ASSUME NEW d \in Channels, NEW val \in Controls[d], WriteChannel(d, val)
      PROVE  TransfersInv' /\ Exact
  <2> DEFINE old == dma[d]
             c == [old EXCEPT !.cnt = val]
             enabled == [c EXCEPT !.gxMode = val.gxMode, !.moved = 0, !.goal = val.count,
                                  !.resumed = old.inProgress]
  <2>1. \/ dma' = [dma EXCEPT ![d] = c]
        \/ dma' = CheckFIFODMA([dma EXCEPT ![d] = enabled], gx)
        \/ dma' = [dma EXCEPT ![d] = Start(enabled)]
    BY <1>5 DEF WriteChannel
  <2>2. Balanced(old)
    BY DEF TransfersInv
  <2>3. val \in ControlType
    BY TransferAssumption DEF TransferAssumption, ControlType
  <2>4. Balanced(c) /\ c.inProgress = old.inProgress
    BY <2>2, <2>3 DEF Balanced, ChannelType
  <2>5. Balanced(enabled) /\ enabled.inProgress = old.inProgress
    <3>1. enabled = [old EXCEPT !.cnt = val, !.gxMode = val.gxMode, !.moved = 0, !.goal = val.count,
                                !.resumed = old.inProgress]
      BY <2>2 DEF Balanced, ChannelType
    <3>2. val.gxMode \in BOOLEAN /\ val.count \in Nat /\ old.inProgress \in BOOLEAN
      BY <2>2, <2>3 DEF Balanced, ChannelType, ControlType
    <3> HIDE DEF enabled, c
    <3> QED BY <2>2, <2>3, <3>1, <3>2 DEF Balanced, ChannelType
  <2>6. Balanced(Start(enabled)) /\ Start(enabled).inProgress
    BY <2>5, StartBalances DEF Balanced
  <2> HIDE DEF c, enabled
  <2>7. CASE dma' = [dma EXCEPT ![d] = c]
    BY <2>4, <2>7, OneChannel
  <2>8. CASE dma' = CheckFIFODMA([dma EXCEPT ![d] = enabled], gx)
    BY <2>5, <2>8, OneChannel
  <2>9. CASE dma' = [dma EXCEPT ![d] = Start(enabled)]
    BY <2>6, <2>9, OneChannel
  <2> QED BY <2>1, <2>7, <2>8, <2>9
<1> QED BY <1>1, <1>2, <1>3, <1>4, <1>5 DEF GxNext

-----------------------------------------------------------------------------
(* The engine and the channels among the other devices *)
GxInv == Engine /\ Turns /\ TransfersInv

Takes == Suffix(OnTheWay(gx'), OnTheWay(gx))

\* A step that leaves the engine alone takes nothing.
LEMMA Untouched == Engine /\ UNCHANGED gx => Engine' /\ Takes
<1> SUFFICES ASSUME Engine, UNCHANGED gx PROVE Engine' /\ Takes
  OBVIOUS
<1>1. OnTheWay(gx) \in Seq(Commands)
  BY OnTheWayType DEF Engine, WellFormed, Consistent
<1> QED BY <1>1, SuffixSame DEF Engine, Takes

\* A store, by the program or by a channel, appends.
LEMMA StoresKeep ==
  ASSUME Engine
  PROVE  /\ \A cmds \in Stores : Store(cmds) => Engine' /\ Accepts(cmds)
         /\ \A word \in DmaWords : MoveWord(word) => Engine' /\ Accepts(word)
<1>1. ASSUME NEW cmds \in Stores, Store(cmds) PROVE Engine' /\ Accepts(cmds)
  BY <1>1, StoreKeeps, TransferAssumption DEF TransferAssumption, Store
<1>2. ASSUME NEW word \in DmaWords, MoveWord(word) PROVE Engine' /\ Accepts(word)
  BY <1>2, StoreKeeps, TransferAssumption DEF TransferAssumption, MoveWord
<1> QED BY <1>1, <1>2

\* No other step does more than take the oldest commands.
LEMMA OthersTake ==
  ASSUME Engine, Turns,
         \/ StalledSlice \/ BeginSlice \/ EndSlice \/ SkipChannel \/ StopMoving
         \/ ReadStat \/ AckIrq \/ OtherCode
         \/ \E d \in Channels : \E val \in Controls[d] : WriteChannel(d, val)
  PROVE  Engine' /\ Takes
<1>1. lead \in Nat
  BY Sizes DEF Turns
<1>2. CASE StalledSlice \/ BeginSlice \/ SkipChannel \/ StopMoving \/ OtherCode
  BY <1>2, Untouched DEF StalledSlice, BeginSlice, SkipChannel, StopMoving, OtherCode
<1>3. ASSUME NEW d \in Channels, NEW val \in Controls[d], WriteChannel(d, val) PROVE Engine' /\ Takes
  BY <1>3, Untouched DEF WriteChannel
<1> DEFINE g == Run([gx EXCEPT !.refilled = FALSE], lead)
<1>4. /\ WellFormed(g) /\ g.cycles >= 0 /\ Suffix(OnTheWay(g), OnTheWay(gx)) /\ g.flush \in BOOLEAN
      /\ \A f \in BOOLEAN : LET new == [g EXCEPT !.refilled = FALSE, !.flush = f] IN
           WellFormed(new) /\ new.cycles >= 0 /\ OnTheWay(new) = OnTheWay(g)
  BY <1>1, EngineKeeps
<1>5. CASE EndSlice
  <2> DEFINE f == g.flush /\ untilBlank > 0
  <2>1. gx' = [g EXCEPT !.refilled = FALSE, !.flush = f]
    BY <1>5 DEF EndSlice
  <2>2. f \in BOOLEAN
    OBVIOUS
  <2> HIDE DEF g, f
  <2>3. WellFormed(gx') /\ gx'.cycles >= 0 /\ OnTheWay(gx') = OnTheWay(g)
    BY <1>4, <2>1, <2>2
  <2> QED BY <1>4, <2>3 DEF Engine, Takes
<1>6. CASE ReadStat
  <2>1. gx' = [g EXCEPT !.refilled = FALSE]
    BY <1>6 DEF ReadStat, EngineRuns
  <2>2. [g EXCEPT !.refilled = FALSE] = [g EXCEPT !.refilled = FALSE, !.flush = g.flush]
    <3> HIDE DEF g
    <3>1. g \in GxState
      BY <1>4 DEF WellFormed, Consistent
    <3> QED BY <3>1 DEF GxState
  <2> HIDE DEF g
  <2>3. WellFormed(gx') /\ gx'.cycles >= 0 /\ OnTheWay(gx') = OnTheWay(g)
    BY <1>4, <2>1, <2>2
  <2> QED BY <1>4, <2>3 DEF Engine, Takes
<1>7. CASE AckIrq
  <2> DEFINE isDue == IrqDue(gx)
  <2>1. gx \in GxState /\ WellFormed(gx) /\ OnTheWay(gx) \in Seq(Commands)
    BY OnTheWayType DEF Engine, WellFormed, Consistent
  <2>2. isDue \in BOOLEAN
    BY DEF IrqDue
  <2>3. gx' = [gx EXCEPT !.refilled = gx.refilled, !.flush = gx.flush, !.irq = isDue]
    <3>1. gx' = [gx EXCEPT !.irq = isDue]
      BY <1>7 DEF AckIrq
    <3> HIDE DEF isDue
    <3> QED BY <2>1, <3>1 DEF GxState
  <2>4. gx.refilled \in BOOLEAN /\ gx.flush \in BOOLEAN
    BY <2>1 DEF GxState
  <2>5. SameButMarks(gx', gx)
    <3>1. IrqDue(gx) => isDue
      OBVIOUS
    <3> HIDE DEF isDue
    <3> QED BY <2>1, <2>2, <2>3, <2>4, <3>1, MarksKeep
  <2>6. Suffix(OnTheWay(gx), OnTheWay(gx))
    BY <2>1, SuffixSame
  <2> QED BY <2>5, <2>6 DEF SameButMarks, Engine, Takes
<1> QED BY <1>2, <1>3, <1>5, <1>6, <1>7

\* Every step keeps the engine well formed.
LEMMA NextKeepsEngine == Engine /\ Turns /\ GxNext => Engine'
  BY StoresKeep, OthersTake DEF GxNext

\* The invariant holds at the start,
LEMMA InitGxInv == GxInit => GxInv
  BY InitEngine, InitTurns, InitTransfers DEF GxInv

\* every step of the engine and its channels keeps it,
LEMMA NextGxInv == GxInv /\ GxNext => GxInv'
  BY NextKeepsEngine, StepTurns, StepTransfers DEF GxInv

\* and so does every other step.
LEMMA StutterGxInv == GxInv /\ UNCHANGED gxvars => GxInv'
<1>1. UNCHANGED gxvars => UNCHANGED gx /\ UNCHANGED dma /\ UNCHANGED turn /\ UNCHANGED chan
                          /\ UNCHANGED left /\ UNCHANGED lead /\ UNCHANGED untilBlank
  BY DEF gxvars
<1> QED BY <1>1 DEF GxInv, Engine, Turns, TransfersInv

\* The other devices leave the engine and its channels alone.
LEMMA GeometrySteps == [DevNext]_devvars => GxNext \/ UNCHANGED gxvars
  BY DEF DevNext, devvars, RingMoves, IPCMoves, TimersMove, GeometryMoves, SoundMoves, ProgramMoves

\* The invariant of the engine and its channels.
LEMMA GeometryInv == DevSpec => []GxInv
<1>1. DevInit => GxInv
  BY InitGxInv DEF DevInit
<1>2. GxInv /\ [DevNext]_devvars => GxInv'
  BY GeometrySteps, NextGxInv, StutterGxInv
<1> QED BY <1>1, <1>2, PTL DEF DevSpec

\* What the status tells follows from it.
LEMMA StatusFollows == GxInv => StatusTruthful /\ GxTypeOK
<1> SUFFICES ASSUME GxInv PROVE StatusTruthful /\ GxTypeOK
  OBVIOUS
<1>1. /\ gx \in GxState /\ Sized(gx) /\ Fed(gx) /\ StackCounted(gx, 0) /\ IdleEmpty(gx)
      /\ StallsWhenFull(gx) /\ IrqTold(gx) /\ gx.cycles >= 0
  BY DEF GxInv, Engine, WellFormed, Consistent
<1>2. /\ gx.pipe \in Seq(Commands) /\ gx.queue \in Seq(Commands) /\ gx.pipe \o gx.queue \in Seq(Commands)
      /\ gx.cycles \in Nat /\ gx.pipeline \in 0 .. Latency
  BY <1>1, Depths DEF GxState, Sized
<1>3. Count(gx.pipe \o gx.queue) \in Nat
  BY <1>2, CountType
<1>4. gx.numStack = Count(gx.pipe \o gx.queue)
  <2> DEFINE c == Count(gx.pipe \o gx.queue)
  <2>1. c \in Nat /\ gx.numStack = c + 0
    BY <1>1, <1>3 DEF StackCounted
  <2> HIDE DEF c
  <2>2. gx.numStack = c
    BY <2>1
  <2> QED BY <2>2 DEF c
<1>5. gx.numStack = Stacked
  <2>1. DOMAIN (gx.pipe \o gx.queue) = 1 .. Len(gx.pipe \o gx.queue)
    BY <1>2
  <2> QED BY <1>4, <2>1 DEF Stacked, Count, Stack
<1>6. ~gx.busy => OnTheWay(gx) = <<>> /\ gx.pipeline = 0
  <2> SUFFICES ASSUME ~gx.busy PROVE OnTheWay(gx) = <<>> /\ gx.pipeline = 0
    OBVIOUS
  <2>1. gx.pipe = <<>> /\ gx.pipeline = 0
    BY <1>1 DEF IdleEmpty
  <2>2. gx.queue = <<>>
    BY <1>1, <2>1 DEF Fed
  <2>3. gx.stallQueue = <<>>
    <3>1. Len(gx.queue) = 0
      BY <2>2
    <3> QED BY <1>1, <3>1, Depths DEF StallsWhenFull
  <2> QED BY <2>1, <2>2, <2>3 DEF OnTheWay
<1>7. StatusTruthful
  BY <1>1, <1>5, <1>6 DEF StatusTruthful, StackCounted, IrqTold, StallsWhenFull
<1>8. \A d \in Channels : dma[d].iter <= dma[d].rem /\ (dma[d].running => dma[d].inProgress)
  BY DEF GxInv, TransfersInv, Balanced
<1>9. GxTypeOK
  BY <1>1, <1>2, <1>3, <1>4, <1>8 DEF GxInv, Turns, GxTypeOK, Sized
<1> QED BY <1>7, <1>9

\* What GXSTAT and the interrupt line tell the program of the 3D engine is so,
\* for every depth of its queues: the bits CmdFIFOWrite, CmdFIFORead and
\* ExecuteCommand set, and the ones Run clears (GPU3D.cpp).
THEOREM EngineTellsTheTruth == DevSpec => []StatusTruthful
  BY GeometryInv, StatusFollows, PTL

\* A command stays behind the ones written before it, whichever of pipe, FIFO
\* and stall queue each of them is in, and only the oldest are taken out: what
\* CmdFIFOWrite, CmdFIFORead and Run make of the three (GPU3D.cpp).
THEOREM EngineKeepsOrder == DevSpec => CommandsInOrder
<1> DEFINE Ordered ==
      /\ \A cmds \in Stores : Store(cmds) => Accepts(cmds)
      /\ \A word \in DmaWords : MoveWord(word) => Accepts(word)
      /\ ~(\E cmds \in Stores : Store(cmds)) /\ ~(\E word \in DmaWords : MoveWord(word)) =>
           \E n \in 0 .. Len(OnTheWay(gx)) :
             OnTheWay(gx)' = SubSeq(OnTheWay(gx), n + 1, Len(OnTheWay(gx)))
<1>1. GxInv /\ GxNext => Ordered
  <2> SUFFICES ASSUME GxInv, GxNext PROVE Ordered
    OBVIOUS
  <2>1. Engine /\ Turns
    BY DEF GxInv
  <2>2. /\ \A cmds \in Stores : Store(cmds) => Accepts(cmds)
        /\ \A word \in DmaWords : MoveWord(word) => Accepts(word)
    BY <2>1, StoresKeep
  <2>3. ASSUME ~(\E cmds \in Stores : Store(cmds)), ~(\E word \in DmaWords : MoveWord(word))
        PROVE  Takes
    BY <2>1, <2>3, OthersTake DEF GxNext
  <2> QED BY <2>2, <2>3 DEF Takes, Suffix
<1>2. GxInv /\ [DevNext]_devvars => [Ordered]_gxvars
  <2> HIDE DEF Ordered
  <2> QED BY <1>1, GeometrySteps
<1> QED BY <1>2, GeometryInv, PTL DEF DevSpec, CommandsInOrder

\* A transfer that ends has moved the words it was asked for, however often
\* the engine stalled it and wherever its chunks and the slices ended: Start
\* and Run9 (DMA.cpp).
THEOREM TransfersMoveAll == DevSpec => TransfersExact
<1>1. GxInv /\ GxNext => Exact
  BY StepTransfers DEF GxInv
<1>2. GxInv /\ [DevNext]_devvars =>
        [\A d \in Channels : dma[d].inProgress /\ ~dma'[d].inProgress /\ ~dma[d].resumed
                               => dma[d].moved = dma[d].goal]_gxvars
  BY <1>1, GeometrySteps DEF Exact, Ends
<1> QED BY <1>2, GeometryInv, PTL DEF DevSpec, TransfersExact
=============================================================================
