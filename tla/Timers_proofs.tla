--------------------------- MODULE Timers_proofs ---------------------------
(***************************************************************************)
(* What is proved of the timers, for any number of them, any width of a    *)
(* counter and any values programs write: running them late is the same as *)
(* running them cycle by cycle.  The code runs one timer after the other,  *)
(* each through all its overflows; the console runs all timers at once,    *)
(* cycle after cycle.  RunMatches and CatchUpFollows exchange the two      *)
(* orders.  At the end, with what the other modules prove, the types of    *)
(* all devices.                                                            *)
(***************************************************************************)
EXTENDS Queues_proofs

-----------------------------------------------------------------------------
(* The code.  Its folds are turned into the states they pass through. *)

\* What a control register holds.
ControlValues == [start : BOOLEAN, countUp : BOOLEAN, irq : BOOLEAN, scale : 1 .. Unit]

\* What a timer that wraps starts from.
Reloaded(i) == reload[i] * Unit

\* The types.  The bounds of the counters are the part that takes work.
TimTypes ==
  /\ control \in [Timers -> ControlValues]
  /\ reload \in [Timers -> 0 .. Counts - 1]
  /\ counter \in [Timers -> 0 .. Top - 1] /\ exact \in [Timers -> 0 .. Top - 1]
  /\ behind \in 0 .. MaxSlice
  /\ raised \subseteq Timers /\ due \subseteq Timers /\ spoilt \subseteq Timers

\* The states of the code while it catches up.
RunStates == [count : [Timers -> Nat], irqs : SUBSET Timers, carry : BOOLEAN]

\* Timer t counts the overflows of timer j, directly or through others.
Led(j, t) == Running(j) /\ j <= t /\ \A q \in j + 1 .. t : Chained(q)

\* What the assumption on the constants says of them.
LEMMA TimerNumbers ==
  /\ NumTimers \in Nat /\ NumTimers > 0 /\ Unit \in Nat /\ Unit > 0 /\ MaxSlice \in Nat
  /\ Top \in Nat /\ Top >= Unit
<1>1. NumTimers \in Nat \ {0} /\ Unit \in Nat \ {0} /\ Counts \in Nat \ {0} /\ MaxSlice \in Nat
  BY TimerAssumption DEF TimerAssumption
<1>2. \A a, b \in Nat : a > 0 => a * b \in Nat /\ a * b >= b
  OBVIOUS
<1> QED BY <1>1, <1>2 DEF Top

\* A timer that wraps starts a count below the top at least.
LEMMA ReloadedIs ==
  ASSUME TimTypes, NEW i \in Timers
  PROVE  Reloaded(i) \in Nat /\ Reloaded(i) + Unit <= Top
<1>1. reload[i] \in Nat /\ reload[i] + 1 <= Counts /\ Counts \in Nat /\ Unit \in Nat
  BY TimerAssumption DEF TimTypes, TimerAssumption
<1>2. \A a, b, c \in Nat : a + 1 <= b => a * c \in Nat /\ a * c + c <= b * c
  <2> SUFFICES ASSUME NEW a \in Nat, NEW b \in Nat, NEW c \in Nat, a + 1 <= b
               PROVE  a * c \in Nat /\ a * c + c <= b * c
    OBVIOUS
  <2>1. PICK d \in Nat : b = a + 1 + d
    <3>1. b - a - 1 \in Nat /\ b = a + 1 + (b - a - 1)
      OBVIOUS
    <3> QED BY <3>1
  <2>2. b * c = a * c + c + d * c /\ d * c \in Nat /\ a * c \in Nat
    BY <2>1
  <2> QED BY <2>2
<1> QED BY <1>1, <1>2 DEF Reloaded, Top

\* The overflow of a timer takes it below the top by what it went past it.
LEMMA OwnOverflowIs ==
  ASSUME TimTypes, NEW s \in RunStates, NEW j \in Timers, s.count[j] >= Top
  PROVE  LET n == OwnOverflow(s, j)
         IN /\ n \in RunStates
            /\ n.count[j] = s.count[j] - Top + Reloaded(j)
            /\ \A t \in Timers \ {j} : n.count[t] = s.count[t] /\ (t \in n.irqs <=> t \in s.irqs)
            /\ j \in n.irqs <=> j \in s.irqs \/ control[j].irq
<1>1. Top \in Nat /\ Reloaded(j) \in Nat /\ control[j].irq \in BOOLEAN
  BY TimerNumbers, ReloadedIs DEF TimTypes, ControlValues
<1>2. s.count \in [Timers -> Nat] /\ s.irqs \in SUBSET Timers /\ s.carry \in BOOLEAN /\ s.count[j] \in Nat
  BY DEF RunStates
<1> DEFINE new == [s.count EXCEPT ![j] = @ - Top + Reloaded(j)]
<1>3. new \in [Timers -> Nat] /\ new[j] = s.count[j] - Top + Reloaded(j) /\ \A t \in Timers \ {j} : new[t] = s.count[t]
  <2>1. s.count[j] - Top + Reloaded(j) \in Nat
    BY <1>1, <1>2
  <2> QED BY <1>2, <2>1
<1>4. OwnOverflow(s, j) = [count |-> new, irqs |-> IF control[j].irq THEN s.irqs \cup {j} ELSE s.irqs, carry |-> s.carry]
  <2>1. [s EXCEPT !.count[j] = @ - Top + reload[j] * Unit] = [count |-> new, irqs |-> s.irqs, carry |-> s.carry]
    BY DEF RunStates, Reloaded
  <2>2. OwnOverflow(s, j) = Request([count |-> new, irqs |-> s.irqs, carry |-> s.carry], j)
    BY <2>1 DEF OwnOverflow
  <2> HIDE DEF new
  <2> QED BY <2>2 DEF Request
<1> HIDE DEF new
<1> QED BY <1>1, <1>2, <1>3, <1>4 DEF RunStates

\* One link of the chain.
LEMMA CarryIs ==
  ASSUME TimTypes, NEW s \in RunStates, NEW i \in Timers
  PROVE  LET n == Carry(s, i)
         IN /\ n \in RunStates
            /\ \A t \in Timers \ {i} : n.count[t] = s.count[t] /\ (t \in n.irqs <=> t \in s.irqs)
            /\ ~s.carry \/ ~Chained(i) => n.count = s.count /\ n.irqs = s.irqs /\ ~n.carry
            /\ s.carry /\ Chained(i) /\ s.count[i] + Unit < Top =>
                 n.count[i] = s.count[i] + Unit /\ n.irqs = s.irqs /\ ~n.carry
            /\ s.carry /\ Chained(i) /\ ~(s.count[i] + Unit < Top) =>
                 n.count[i] = Reloaded(i) /\ n.carry /\ (i \in n.irqs <=> i \in s.irqs \/ control[i].irq)
<1>1. Unit \in Nat /\ Reloaded(i) \in Nat /\ control[i].irq \in BOOLEAN
  BY TimerNumbers, ReloadedIs DEF TimTypes, ControlValues
<1>2. s.count \in [Timers -> Nat] /\ s.irqs \in SUBSET Timers /\ s.carry \in BOOLEAN /\ s.count[i] \in Nat
  BY DEF RunStates
<1>3. CASE ~s.carry \/ ~Chained(i)
  <2>1. Carry(s, i) = [count |-> s.count, irqs |-> s.irqs, carry |-> FALSE]
    BY <1>3 DEF Carry, RunStates
  <2> QED BY <1>2, <1>3, <2>1 DEF RunStates
<1>4. CASE s.carry /\ Chained(i) /\ s.count[i] + Unit < Top
  <2> DEFINE new == [s.count EXCEPT ![i] = @ + Unit]
  <2>1. Carry(s, i) = [count |-> new, irqs |-> s.irqs, carry |-> FALSE]
    BY <1>4 DEF Carry, RunStates
  <2>2. new \in [Timers -> Nat] /\ new[i] = s.count[i] + Unit /\ \A t \in Timers \ {i} : new[t] = s.count[t]
    BY <1>1, <1>2
  <2> HIDE DEF new
  <2> QED BY <1>2, <1>4, <2>1, <2>2 DEF RunStates
<1>5. CASE s.carry /\ Chained(i) /\ ~(s.count[i] + Unit < Top)
  <2> DEFINE new == [s.count EXCEPT ![i] = Reloaded(i)]
  <2>1. Carry(s, i) = [count |-> new, irqs |-> IF control[i].irq THEN s.irqs \cup {i} ELSE s.irqs, carry |-> s.carry]
    BY <1>5 DEF Carry, Request, RunStates, Reloaded
  <2>2. new \in [Timers -> Nat] /\ new[i] = Reloaded(i) /\ \A t \in Timers \ {i} : new[t] = s.count[t]
    BY <1>1, <1>2
  <2> HIDE DEF new
  <2> QED BY <1>1, <1>2, <1>5, <2>1, <2>2 DEF RunStates
<1> QED BY <1>2, <1>3, <1>4, <1>5

\* The states the overflow of a timer passes through, one for each timer above it.
LEMMA CarrySteps ==
  ASSUME TimTypes, NEW s \in RunStates, NEW j \in Timers, s.count[j] >= Top
  PROVE  \E h \in [0 .. NumTimers - 1 - j -> RunStates] :
           /\ h[0] = [OwnOverflow(s, j) EXCEPT !.carry = TRUE]
           /\ h[NumTimers - 1 - j] = HandleTimerOverflow(s, j)
           /\ \A k \in 1 .. NumTimers - 1 - j : h[k] = Carry(h[k - 1], j + k)
<1> DEFINE n == NumTimers - 1 - j
           b == [k \in 1 .. n |-> j + k]
           base == [OwnOverflow(s, j) EXCEPT !.carry = TRUE]
           op == [x \in RunStates \X Timers |-> Carry(x[1], x[2])]
           Body(it) == [t \in SUBSET (1 .. n) |->
                          IF t = {} THEN base ELSE Carry(it[t \ {Max(t)}], b[Max(t)])]
           iter == CHOOSE it : it = Body(it)
<1>1. n \in Nat /\ DOMAIN b = 1 .. n /\ Len(b) = n /\ b \in Seq(Timers) /\ \A k \in 1 .. n : b[k] = j + k /\ b[k] \in Timers
  BY TimerNumbers DEF Timers
<1>2. op \in [RunStates \X Timers -> RunStates]
  BY CarryIs
<1>3. base \in RunStates
  <2>1. OwnOverflow(s, j) \in RunStates
    BY OwnOverflowIs
  <2> QED BY <2>1 DEF RunStates
<1> HIDE DEF base
<1>4. PICK f \in [SUBSET (1 .. n) -> RunStates] : \A t \in SUBSET (1 .. n) : FoldsTo(f, t, op, base, b)
  <2> HIDE DEF op, b
  <2> QED BY <1>1, <1>2, <1>3, FoldTable
<1>5. f = Body(f)
  <2> SUFFICES ASSUME NEW t \in SUBSET (1 .. n), t # {}
               PROVE  op[<<f[t \ {Max(t)}], b[Max(t)]>>] = Carry(f[t \ {Max(t)}], b[Max(t)])
    BY <1>4 DEF FoldsTo
  <2>1. Max(t) \in t
    BY <1>1, TopIn
  <2> HIDE DEF b
  <2> QED BY <1>1, <2>1
<1>6. iter = Body(iter)
  BY <1>5
<1>7. HandleTimerOverflow(s, j) = iter[1 .. n]
  BY <1>1 DEF HandleTimerOverflow, FoldLeft, MapThenFoldSet, base
<1> DEFINE h == [k \in 0 .. n |-> iter[1 .. k]]
<1> HIDE DEF iter
<1>8. h[0] = base
  BY <1>1, <1>6
<1>9. ASSUME NEW k \in 1 .. n PROVE h[k] = Carry(h[k - 1], j + k)
  <2>1. 1 .. k \in SUBSET (1 .. n) /\ k - 1 \in 0 .. n /\ k \in 0 .. n
    BY <1>1
  <2>2. iter[1 .. k] = Carry(iter[1 .. k - 1], b[k])
    <3>1. iter[1 .. k] = IF 1 .. k = {} THEN base
                         ELSE Carry(iter[(1 .. k) \ {Max(1 .. k)}], b[Max(1 .. k)])
      BY <1>6, <2>1
    <3>2. Max(1 .. k) = k /\ (1 .. k) \ {k} = 1 .. k - 1 /\ 1 .. k # {}
      BY UpTo
    <3> QED BY <3>1, <3>2
  <2> HIDE DEF b
  <2> QED BY <1>1, <2>1, <2>2
<1> HIDE DEF h
<1>10. \A k \in 0 .. n : h[k] \in RunStates
  <2> DEFINE S == {k \in 0 .. n : h[k] \in RunStates}
  <2> HIDE DEF b
  <2>1. 0 \in S
    BY <1>1, <1>3, <1>8
  <2>2. ASSUME NEW k \in 0 .. n - 1, k \in S PROVE k + 1 \in S
    <3>1. k + 1 \in 1 .. n /\ (k + 1) - 1 = k /\ j + (k + 1) \in Timers /\ k + 1 \in 0 .. n
      BY <1>1
    <3>2. h[k + 1] = Carry(h[k], j + (k + 1))
      BY <1>9, <3>1
    <3> QED BY <2>2, <3>1, <3>2, CarryIs
  <2> HIDE DEF S
  <2>3. \A k \in 0 .. n : k \in S
    BY <1>1, <2>1, <2>2, CountUp
  <2> QED BY <2>3 DEF S
<1>11. h \in [0 .. n -> RunStates]
  BY <1>10 DEF h
<1>12. h[n] = HandleTimerOverflow(s, j)
  BY <1>1, <1>7 DEF h
<1> QED BY <1>8, <1>9, <1>11, <1>12 DEF base

\* The timers that wrap in one cycle, from what they show before it.
Adds(i, wr) == IF Running(i) THEN control[i].scale
               ELSE IF Chained(i) /\ i - 1 \in wr THEN Unit ELSE 0
\* Timer i is among those that wrap exactly when it reaches the top.
Wrap(c, wr, i) == i \in wr <=> c[i] + Adds(i, wr) >= Top
\* What it shows after the cycle.
Shows(c, wr, i) ==
  IF i \in wr THEN Reloaded(i) + (IF Running(i) THEN c[i] + control[i].scale - Top ELSE 0)
  ELSE c[i] + Adds(i, wr)

\* What is not above a group of timers does not depend on what is in it.
Closed(U) == U \subseteq Timers /\ \A i \in U : \A j \in Timers : j <= i => j \in U

\* From s to n only the timers that j leads may change.
Untied(s, n, j) ==
  \A t \in Timers : ~Led(j, t) => n.count[t] = s.count[t] /\ (t \in n.irqs <=> t \in s.irqs)

\* What the overflow of timer j makes of the timers it leads is what a cycle of
\* the console in which j wraps makes of them.
LEMMA OverflowIs ==
  ASSUME TimTypes, NEW s \in RunStates, NEW j \in Timers, Running(j), s.count[j] >= Top,
         NEW U, Closed(U), NEW c \in [Timers -> 0 .. Top - 1], NEW wr \in SUBSET Timers,
         j \in U => j \in wr,
         \A t \in U : Led(j, t) /\ t # j => s.count[t] = c[t] /\ Wrap(c, wr, t)
  PROVE  LET n == HandleTimerOverflow(s, j)
         IN /\ n \in RunStates /\ Untied(s, n, j)
            /\ n.count[j] = s.count[j] - Top + Reloaded(j)
            /\ \A t \in U : Led(j, t) =>
                 /\ t # j => n.count[t] = Shows(c, wr, t)
                 /\ t \in n.irqs <=> t \in s.irqs \/ (t \in wr /\ control[t].irq)
<1> DEFINE n == NumTimers - 1 - j
           own == OwnOverflow(s, j)
<1>1. PICK h \in [0 .. n -> RunStates] :
           /\ h[0] = [own EXCEPT !.carry = TRUE]
           /\ h[n] = HandleTimerOverflow(s, j)
           /\ \A k \in 1 .. n : h[k] = Carry(h[k - 1], j + k)
  BY CarrySteps
<1>2. /\ own \in RunStates /\ own.count[j] = s.count[j] - Top + Reloaded(j)
      /\ \A t \in Timers \ {j} : own.count[t] = s.count[t] /\ (t \in own.irqs <=> t \in s.irqs)
      /\ j \in own.irqs <=> j \in s.irqs \/ control[j].irq
  BY OwnOverflowIs
<1> HIDE DEF own
<1>3. n \in Nat /\ j \in Nat /\ Timers = 0 .. j + n /\ NumTimers \in Nat
  BY TimerNumbers DEF Timers
<1>4. Led(j, j)
  BY <1>3 DEF Led
<1> DEFINE
     Done(k) ==
       /\ \A t \in Timers : ~Led(j, t) \/ t > j + k =>
             h[k].count[t] = own.count[t] /\ (t \in h[k].irqs <=> t \in own.irqs)
       /\ h[k].count[j] = own.count[j]
       /\ \A t \in U : Led(j, t) /\ t <= j + k =>
             /\ t # j => h[k].count[t] = Shows(c, wr, t)
             /\ t \in h[k].irqs <=> t \in s.irqs \/ (t \in wr /\ control[t].irq)
       /\ h[k].carry => Led(j, j + k)
       /\ Led(j, j + k) /\ j + k \in U => (h[k].carry <=> j + k \in wr)
     S == {k \in 0 .. n : Done(k)}
<1> HIDE DEF n
<1>5. 0 \in S
  <2>1. h[0].count = own.count /\ h[0].irqs = own.irqs /\ h[0].carry
    BY <1>1, <1>2 DEF RunStates
  <2>2. \A t \in Timers : Led(j, t) /\ t <= j + 0 => t = j
    BY <1>3 DEF Led
  <2>3. j + 0 = j
    BY <1>3
  <2>4. ASSUME NEW t \in U, Led(j, t), t <= j + 0
        PROVE  /\ t # j => h[0].count[t] = Shows(c, wr, t)
               /\ t \in h[0].irqs <=> t \in s.irqs \/ (t \in wr /\ control[t].irq)
    <3>1. t = j
      BY <2>2, <2>4 DEF Closed
    <3> QED BY <1>2, <2>1, <2>4, <3>1
  <2>5. Led(j, j + 0) /\ j + 0 \in U => (h[0].carry <=> j + 0 \in wr)
    BY <2>1, <2>3
  <2>6. Done(0)
    BY <1>4, <2>1, <2>3, <2>4, <2>5
  <2> HIDE DEF Done
  <2> QED BY <1>3, <2>6
<1>6. ASSUME NEW k \in 0 .. n - 1, k \in S PROVE k + 1 \in S
  <2> DEFINE i == j + (k + 1)
  <2>1. Done(k)
    BY <1>6
  <2>2. /\ k \in 0 .. n /\ k + 1 \in 1 .. n /\ (k + 1) - 1 = k /\ k + 1 \in 0 .. n
        /\ i \in Timers /\ i - 1 = j + k /\ i # j /\ j + k \in Timers
    BY <1>3
  <2>3. /\ h[k + 1] = Carry(h[k], i) /\ h[k] \in RunStates /\ h[k + 1] \in RunStates
    BY <1>1, <2>2
  <2>4. Led(j, i) <=> Led(j, j + k) /\ Chained(i)
    <3>1. i \in j + 1 .. i /\ \A q \in j + 1 .. i : q = i \/ q \in j + 1 .. j + k
      BY <1>3, <2>2
    <3>2. \A q \in j + 1 .. j + k : q \in j + 1 .. i
      BY <1>3, <2>2
    <3>3. j <= i /\ j <= j + k
      BY <1>3, <2>2
    <3> HIDE DEF i
    <3> QED BY <3>1, <3>2, <3>3 DEF Led
  <2>5. \A t \in Timers : t <= i => t = i \/ t <= j + k
    BY <1>3, <2>2 DEF Timers
  <2>6. \A t \in Timers : t > i => t > j + k
    BY <1>3, <2>2 DEF Timers
  <2>7. i > j + k
    BY <1>3
  <2> HIDE DEF i
  <2>8. /\ \A t \in Timers \ {i} : h[k + 1].count[t] = h[k].count[t] /\ (t \in h[k + 1].irqs <=> t \in h[k].irqs)
        /\ ~h[k].carry \/ ~Chained(i) => h[k + 1].count = h[k].count /\ h[k + 1].irqs = h[k].irqs /\ ~h[k + 1].carry
        /\ h[k].carry /\ Chained(i) /\ h[k].count[i] + Unit < Top =>
             h[k + 1].count[i] = h[k].count[i] + Unit /\ h[k + 1].irqs = h[k].irqs /\ ~h[k + 1].carry
        /\ h[k].carry /\ Chained(i) /\ ~(h[k].count[i] + Unit < Top) =>
             h[k + 1].count[i] = Reloaded(i) /\ h[k + 1].carry /\ (i \in h[k + 1].irqs <=> i \in h[k].irqs \/ control[i].irq)
    <3> DEFINE m == Carry(h[k], i)
    <3>1. /\ \A t \in Timers \ {i} : m.count[t] = h[k].count[t] /\ (t \in m.irqs <=> t \in h[k].irqs)
          /\ ~h[k].carry \/ ~Chained(i) => m.count = h[k].count /\ m.irqs = h[k].irqs /\ ~m.carry
          /\ h[k].carry /\ Chained(i) /\ h[k].count[i] + Unit < Top =>
               m.count[i] = h[k].count[i] + Unit /\ m.irqs = h[k].irqs /\ ~m.carry
          /\ h[k].carry /\ Chained(i) /\ ~(h[k].count[i] + Unit < Top) =>
               m.count[i] = Reloaded(i) /\ m.carry /\ (i \in m.irqs <=> i \in h[k].irqs \/ control[i].irq)
      BY <2>2, <2>3, CarryIs
    <3> HIDE DEF m
    <3>2. h[k + 1] = m
      BY <2>3 DEF m
    <3> QED BY <3>1, <3>2
  <2>9. \A t \in Timers : ~Led(j, t) \/ t > i =>
             h[k + 1].count[t] = own.count[t] /\ (t \in h[k + 1].irqs <=> t \in own.irqs)
    <3> SUFFICES ASSUME NEW t \in Timers, ~Led(j, t) \/ t > i
                 PROVE  h[k + 1].count[t] = own.count[t] /\ (t \in h[k + 1].irqs <=> t \in own.irqs)
      OBVIOUS
    <3>1. CASE t # i
      BY <2>1, <2>6, <2>8, <3>1
    <3>2. CASE t = i
      <4>1. ~Led(j, i)
        BY <1>3, <2>2, <3>2
      <4>2. ~h[k].carry \/ ~Chained(i)
        BY <2>1, <2>4, <4>1
      <4> QED BY <2>1, <2>8, <3>2, <4>1, <4>2
    <3> QED BY <3>1, <3>2
  <2>10. h[k + 1].count[j] = own.count[j]
    BY <2>1, <2>2, <2>8
  <2>11. h[k + 1].carry => Led(j, i)
    <3>1. h[k].carry \in BOOLEAN /\ (h[k + 1].carry => h[k].carry /\ Chained(i))
      BY <2>8, <2>3 DEF RunStates
    <3> QED BY <2>1, <2>4, <3>1
  <2>12. ASSUME Led(j, i), i \in U
         PROVE  /\ h[k + 1].count[i] = Shows(c, wr, i)
                /\ i \in h[k + 1].irqs <=> i \in s.irqs \/ (i \in wr /\ control[i].irq)
                /\ h[k + 1].carry <=> i \in wr
    <3>1. Led(j, j + k) /\ Chained(i) /\ ~Running(i)
      BY <2>4, <2>12 DEF Chained, Running
    <3>2. j + k \in U
      BY <2>2, <2>7, <2>12, <1>3 DEF Closed
    <3>3. h[k].carry <=> i - 1 \in wr
      BY <2>1, <2>2, <3>1, <3>2
    <3>4. h[k].count[i] = c[i] /\ Wrap(c, wr, i) /\ (i \in h[k].irqs <=> i \in s.irqs)
      BY <1>2, <2>1, <2>2, <2>7, <2>12
    <3>5. c[i] \in Nat /\ c[i] < Top /\ Top \in Nat /\ Unit \in Nat
      BY <2>2, TimerNumbers
    <3>6. CASE i - 1 \in wr
      <4>1. Adds(i, wr) = Unit
        BY <3>1, <3>6 DEF Adds
      <4>2. CASE c[i] + Unit < Top
        <5>1. i \notin wr
          BY <3>4, <3>5, <4>1, <4>2 DEF Wrap
        <5>2. Shows(c, wr, i) = c[i] + Unit
          BY <4>1, <5>1 DEF Shows
        <5>3. h[k + 1].count[i] = h[k].count[i] + Unit /\ h[k + 1].irqs = h[k].irqs /\ ~h[k + 1].carry
          BY <2>8, <3>1, <3>3, <3>4, <3>6, <4>2
        <5> QED BY <3>4, <5>1, <5>2, <5>3
      <4>3. CASE ~(c[i] + Unit < Top)
        <5>1. i \in wr
          BY <3>4, <3>5, <4>1, <4>3 DEF Wrap
        <5>2. Reloaded(i) + 0 = Reloaded(i)
          BY ReloadedIs, <2>2
        <5>3. Shows(c, wr, i) = Reloaded(i)
          BY <3>1, <5>1, <5>2 DEF Shows
        <5>4. h[k + 1].count[i] = Reloaded(i) /\ h[k + 1].carry /\ (i \in h[k + 1].irqs <=> i \in h[k].irqs \/ control[i].irq)
          BY <2>8, <3>1, <3>3, <3>4, <3>6, <4>3
        <5> QED BY <3>4, <5>1, <5>3, <5>4
      <4> QED BY <4>2, <4>3
    <3>7. CASE i - 1 \notin wr
      <4>1. Adds(i, wr) = 0 /\ ~h[k].carry
        BY <3>1, <3>3, <3>7 DEF Adds
      <4>2. i \notin wr /\ c[i] + 0 = c[i]
        BY <3>4, <3>5, <4>1 DEF Wrap
      <4>3. Shows(c, wr, i) = c[i]
        BY <4>1, <4>2 DEF Shows
      <4>4. h[k + 1].count = h[k].count /\ h[k + 1].irqs = h[k].irqs /\ ~h[k + 1].carry
        BY <2>8, <4>1
      <4> QED BY <3>4, <4>2, <4>3, <4>4
    <3> QED BY <3>6, <3>7
  <2>13. \A t \in U : Led(j, t) /\ t <= i =>
             /\ t # j => h[k + 1].count[t] = Shows(c, wr, t)
             /\ t \in h[k + 1].irqs <=> t \in s.irqs \/ (t \in wr /\ control[t].irq)
    <3> SUFFICES ASSUME NEW t \in U, Led(j, t), t <= i
                 PROVE  /\ t # j => h[k + 1].count[t] = Shows(c, wr, t)
                        /\ t \in h[k + 1].irqs <=> t \in s.irqs \/ (t \in wr /\ control[t].irq)
      OBVIOUS
    <3>1. CASE t = i
      BY <2>12, <3>1
    <3>2. CASE t # i
      <4>1. t \in Timers \ {i} /\ t <= j + k
        BY <2>5, <3>2 DEF Closed
      <4> QED BY <2>1, <2>8, <4>1
    <3> QED BY <3>1, <3>2
  <2>14. Done(k + 1)
    BY <2>9, <2>10, <2>11, <2>12, <2>13 DEF i
  <2> HIDE DEF Done
  <2> QED BY <2>2, <2>14
<1> HIDE DEF S
<1>7. \A k \in 0 .. n : k \in S
  BY <1>3, <1>5, <1>6, CountUp
<1>8. Done(n)
  <2>1. n \in S
    BY <1>3, <1>7
  <2> HIDE DEF Done
  <2> QED BY <2>1 DEF S
<1>9. h[n] \in RunStates
  BY <1>1, <1>3
<1>10. \A t \in U : t \in Timers /\ t <= j + n
  BY <1>3 DEF Closed
<1>11. Untied(s, h[n], j)
  BY <1>2, <1>4, <1>8 DEF Untied
<1> QED BY <1>1, <1>2, <1>8, <1>9, <1>10, <1>11

-----------------------------------------------------------------------------
(* Who wraps *)

\* The same for all timers of a group.
Fits(c, wr, U) == \A t \in U : Wrap(c, wr, t)

\* A timer moves by its scale or by one count, and only if something moves it.
LEMMA AddsAre ==
  ASSUME TimTypes, NEW t \in Timers, NEW wr
  PROVE  /\ Adds(t, wr) \in 0 .. Unit
         /\ control[t].scale \in 1 .. Unit
         /\ Running(t) => Adds(t, wr) = control[t].scale
         /\ Adds(t, wr) # 0 => Running(t) \/ (Chained(t) /\ ~Running(t) /\ t - 1 \in wr)
BY TimerNumbers DEF TimTypes, ControlValues, Adds, Running, Chained

\* A timer has one leader at most.
LEMMA OneLeader ==
  ASSUME NEW i \in Timers, NEW j \in Timers, NEW t \in Timers, Led(i, t), Led(j, t)
  PROVE  i = j
<1>1. i < j => Chained(j)
  BY DEF Led, Timers
<1>2. j < i => Chained(i)
  BY DEF Led, Timers
<1>3. i < j \/ j < i \/ i = j
  BY DEF Timers
<1> QED BY <1>1, <1>2, <1>3 DEF Led, Running, Chained

\* A timer that wraps is led by one that wraps.
LEMMA WrapsAreLed ==
  ASSUME TimTypes, NEW U, Closed(U), NEW c \in [Timers -> 0 .. Top - 1], NEW wr \in SUBSET Timers,
         Fits(c, wr, U), NEW t \in U, t \in wr
  PROVE  \E j \in Timers : Led(j, t) /\ j \in wr
<1> DEFINE Tied(i) == i \in U /\ i \in wr => \E j \in Timers : Led(j, i) /\ j \in wr
           S == {i \in 0 .. t : Tied(i)}
<1>1. t \in Nat /\ t \in Timers /\ \A i \in 0 .. t : i \in U /\ i \in Timers
  BY TimerNumbers DEF Closed, Timers
<1>2. ASSUME NEW i \in 0 .. t, i \in wr
      PROVE  Running(i) \/ (Chained(i) /\ i - 1 \in wr)
  <2>1. c[i] + Adds(i, wr) >= Top /\ c[i] \in 0 .. Top - 1 /\ Top \in Nat
    BY <1>1, <1>2, TimerNumbers DEF Fits, Wrap
  <2>2. Adds(i, wr) # 0
    BY <2>1
  <2> QED BY <1>1, <2>2, AddsAre
<1>3. \A i \in 0 .. t : Running(i) => Led(i, i)
  BY <1>1 DEF Led
<1>4. 0 \in S
  <2>1. 0 - 1 \notin wr
    BY DEF Timers
  <2> QED BY <1>1, <1>2, <1>3, <2>1
<1>5. ASSUME NEW i \in 0 .. t - 1, i \in S PROVE i + 1 \in S
  <2>1. i + 1 \in 0 .. t /\ (i + 1) - 1 = i /\ i \in Timers /\ i + 1 \in Timers /\ i \in U
    BY <1>1
  <2>2. CASE i + 1 \in wr
    <3>1. CASE Running(i + 1)
      BY <1>3, <2>1, <2>2, <3>1
    <3>2. CASE Chained(i + 1) /\ i \in wr
      <4>1. PICK j \in Timers : Led(j, i) /\ j \in wr
        BY <1>5, <2>1, <3>2
      <4>2. Led(j, i + 1)
        <5>1. \A q \in j + 1 .. i + 1 : q = i + 1 \/ q \in j + 1 .. i
          BY <2>1 DEF Timers
        <5>2. j <= i + 1
          BY <4>1, <2>1 DEF Led, Timers
        <5> QED BY <4>1, <3>2, <5>1, <5>2 DEF Led
      <4> QED BY <2>1, <4>1, <4>2
    <3> QED BY <1>2, <2>1, <2>2, <3>1, <3>2
  <2> QED BY <2>1, <2>2
<1> HIDE DEF S
<1>6. \A i \in 0 .. t : i \in S
  BY <1>1, <1>4, <1>5, CountUp
<1>7. t \in S
  BY <1>1, <1>6
<1> QED BY <1>7 DEF S

\* A timer whose leader does not wrap, or that has none, stays as it is.
LEMMA StaysUnlessLed ==
  ASSUME TimTypes, NEW U, Closed(U), NEW c \in [Timers -> 0 .. Top - 1], NEW wr \in SUBSET Timers,
         Fits(c, wr, U), NEW t \in U, ~Running(t), \A j \in Timers : Led(j, t) => j \notin wr
  PROVE  t \notin wr /\ Shows(c, wr, t) = c[t]
<1>1. t \in Timers /\ t \in Nat
  BY TimerNumbers DEF Closed, Timers
<1>2. t \notin wr
  BY WrapsAreLed
<1>3. Adds(t, wr) = 0
  <2> SUFFICES ASSUME Chained(t), t - 1 \in wr PROVE FALSE
    BY <1>1, AddsAre
  <2>1. t - 1 \in Timers /\ t - 1 \in U
    BY <1>1 DEF Closed, Timers
  <2>2. PICK j \in Timers : Led(j, t - 1) /\ j \in wr
    BY <2>1, WrapsAreLed
  <2>3. Led(j, t)
    <3>1. \A q \in j + 1 .. t : q = t \/ q \in j + 1 .. t - 1
      BY <1>1 DEF Timers
    <3>2. j <= t
      BY <1>1, <2>1, <2>2 DEF Led, Timers
    <3> QED BY <2>2, <3>1, <3>2 DEF Led
  <2> QED BY <2>2, <2>3
<1>4. c[t] + 0 = c[t]
  BY <1>1, TimerNumbers
<1> QED BY <1>2, <1>3, <1>4 DEF Shows

-----------------------------------------------------------------------------
(* Running one timer *)

\* One turn of the loop in RunTimer, and the counter it starts from.
Once(s, j) == IF s.count[j] >= Top THEN HandleTimerOverflow(s, j) ELSE s

Advanced(s, j) == [s EXCEPT !.count[j] = @ + behind * control[j].scale]

\* The cycles there are to catch up, and what they add to a counter.
LEMMA BehindIs ==
  ASSUME TimTypes, NEW j \in Timers
  PROVE  /\ behind \in Nat /\ behind * control[j].scale \in Nat
         /\ \A k \in 0 .. behind : (behind - k) * control[j].scale \in Nat
         /\ \A k \in 0 .. behind - 1 :
              (behind - k) * control[j].scale = (behind - (k + 1)) * control[j].scale + control[j].scale
<1>1. behind \in Nat /\ control[j].scale \in Nat
  BY TimerNumbers DEF TimTypes, ControlValues
<1>2. \A a, b \in Nat : a * b \in Nat /\ (a + 1) * b = a * b + b
  OBVIOUS
<1>3. \A k \in 0 .. behind : behind - k \in Nat
  BY <1>1
<1>4. \A k \in 0 .. behind - 1 : behind - (k + 1) \in Nat /\ behind - k = (behind - (k + 1)) + 1
  BY <1>1
<1> QED BY <1>1, <1>2, <1>3, <1>4

\* The counter as it is before its overflows are handled.
LEMMA AdvancedIs ==
  ASSUME TimTypes, NEW s \in RunStates, NEW j \in Timers
  PROVE  LET n == Advanced(s, j)
         IN /\ n \in RunStates /\ n.irqs = s.irqs
            /\ n.count[j] = s.count[j] + behind * control[j].scale
            /\ \A t \in Timers \ {j} : n.count[t] = s.count[t]
<1> DEFINE new == [s.count EXCEPT ![j] = @ + behind * control[j].scale]
<1>1. Advanced(s, j) = [count |-> new, irqs |-> s.irqs, carry |-> s.carry]
  BY DEF Advanced, RunStates
<1>2. s.count \in [Timers -> Nat] /\ s.irqs \in SUBSET Timers /\ s.carry \in BOOLEAN
  BY DEF RunStates
<1>3. new \in [Timers -> Nat] /\ new[j] = s.count[j] + behind * control[j].scale
      /\ \A t \in Timers \ {j} : new[t] = s.count[t]
  BY <1>2, BehindIs
<1> HIDE DEF new
<1> QED BY <1>1, <1>2, <1>3 DEF RunStates

\* One overflow changes only the timers that are led.
LEMMA OnceIs ==
  ASSUME TimTypes, NEW s \in RunStates, NEW j \in Timers, Running(j)
  PROVE  Once(s, j) \in RunStates /\ Untied(s, Once(s, j), j)
<1>1. CASE s.count[j] >= Top
  <2>1. counter \in [Timers -> 0 .. Top - 1] /\ Closed({}) /\ {} \in SUBSET Timers
    BY DEF TimTypes, Closed
  <2>2. HandleTimerOverflow(s, j) \in RunStates /\ Untied(s, HandleTimerOverflow(s, j), j)
    BY <1>1, <2>1, OverflowIs
  <2> QED BY <1>1, <2>2 DEF Once
<1>2. CASE ~(s.count[j] >= Top)
  BY <1>2 DEF Once, Untied
<1> QED BY <1>1, <1>2

\* The states the run of a timer passes through, one for each cycle.
LEMMA RunSteps ==
  ASSUME TimTypes, NEW s \in RunStates, NEW j \in Timers, Running(j)
  PROVE  \E h \in [0 .. behind -> RunStates] :
           /\ h[0] = Advanced(s, j) /\ h[behind] = RunTimer(s, j)
           /\ \A k \in 1 .. behind : h[k] = Once(h[k - 1], j)
<1> DEFINE n == behind
           b == [k \in 1 .. n |-> k]
           base == Advanced(s, j)
           op == [x \in RunStates \X Nat |-> Once(x[1], j)]
           Body(it) == [t \in SUBSET (1 .. n) |->
                          IF t = {} THEN base ELSE Once(it[t \ {Max(t)}], j)]
           iter == CHOOSE it : it = Body(it)
<1>1. n \in Nat /\ DOMAIN b = 1 .. n /\ Len(b) = n /\ b \in Seq(Nat) /\ \A k \in 1 .. n : b[k] = k
  BY BehindIs
<1>2. op \in [RunStates \X Nat -> RunStates]
  BY OnceIs
<1>3. base \in RunStates
  BY AdvancedIs
<1>4. PICK f \in [SUBSET (1 .. n) -> RunStates] : \A t \in SUBSET (1 .. n) : FoldsTo(f, t, op, base, b)
  <2> HIDE DEF op, b, base
  <2> QED BY <1>1, <1>2, <1>3, FoldTable
<1> HIDE DEF base
<1>5. f = Body(f)
  <2> SUFFICES ASSUME NEW t \in SUBSET (1 .. n), t # {}
               PROVE  op[<<f[t \ {Max(t)}], b[Max(t)]>>] = Once(f[t \ {Max(t)}], j)
    BY <1>4 DEF FoldsTo
  <2>1. Max(t) \in t
    BY <1>1, TopIn
  <2> HIDE DEF b
  <2>2. f[t \ {Max(t)}] \in RunStates
    BY <1>4
  <2>3. Max(t) \in 1 .. n
    BY <2>1
  <2>4. b[Max(t)] \in Nat
    BY <1>1, <2>3
  <2> QED BY <2>2, <2>4
<1>6. iter = Body(iter)
  BY <1>5
<1>7. RunTimer(s, j) = iter[1 .. n]
  BY <1>1 DEF RunTimer, FoldLeft, MapThenFoldSet, base, Once, Advanced
<1> DEFINE h == [k \in 0 .. n |-> iter[1 .. k]]
<1> HIDE DEF iter
<1>8. h[0] = base
  BY <1>1, <1>6
<1>9. ASSUME NEW k \in 1 .. n PROVE h[k] = Once(h[k - 1], j)
  <2>1. 1 .. k \in SUBSET (1 .. n) /\ k - 1 \in 0 .. n /\ k \in 0 .. n
    BY <1>1
  <2>2. iter[1 .. k] = Once(iter[1 .. k - 1], j)
    <3>1. iter[1 .. k] = IF 1 .. k = {} THEN base ELSE Once(iter[(1 .. k) \ {Max(1 .. k)}], j)
      BY <1>6, <2>1
    <3>2. Max(1 .. k) = k /\ (1 .. k) \ {k} = 1 .. k - 1 /\ 1 .. k # {}
      BY UpTo, <1>1
    <3> QED BY <3>1, <3>2
  <2> QED BY <2>1, <2>2
<1> HIDE DEF h
<1>10. \A k \in 0 .. n : h[k] \in RunStates
  <2> DEFINE S == {k \in 0 .. n : h[k] \in RunStates}
  <2>1. 0 \in S
    BY <1>1, <1>3, <1>8
  <2>2. ASSUME NEW k \in 0 .. n - 1, k \in S PROVE k + 1 \in S
    <3>1. k + 1 \in 1 .. n /\ (k + 1) - 1 = k /\ k + 1 \in 0 .. n
      BY <1>1
    <3>2. h[k + 1] = Once(h[k], j)
      BY <1>9, <3>1
    <3> QED BY <2>2, <3>1, <3>2, OnceIs
  <2> HIDE DEF S
  <2>3. \A k \in 0 .. n : k \in S
    BY <1>1, <2>1, <2>2, CountUp
  <2> QED BY <2>3 DEF S
<1>11. h \in [0 .. n -> RunStates]
  BY <1>10 DEF h
<1>12. h[n] = RunTimer(s, j)
  BY <1>1, <1>7 DEF h
<1> QED BY <1>8, <1>9, <1>11, <1>12 DEF base

-----------------------------------------------------------------------------
(* The cycles since the last catch-up *)

\* What the timers of U have shown since the last catch-up, h[k] after k
\* cycles, and which ones wrapped in each, w[k].
Ran(h, w, U) ==
  /\ h \in [0 .. behind -> [Timers -> 0 .. Top - 1]] /\ w \in [1 .. behind -> SUBSET Timers]
  /\ \A t \in U : h[0][t] = counter[t]
  /\ \A k \in 1 .. behind : /\ Fits(h[k - 1], w[k], U)
                           /\ \A t \in U : h[k][t] = Shows(h[k - 1], w[k], t)

\* Timer t wrapped in one of the first k cycles.
Wrapped(w, t, k) == \E q \in 1 .. k : t \in w[q]

\* What running timer j makes of the timers it leads.
Matches(s, n, j, h, w, U) ==
  \A t \in U : Led(j, t) =>
    n.count[t] = h[behind][t] /\ (t \in n.irqs <=> t \in s.irqs \/ (Wrapped(w, t, behind) /\ control[t].irq))

\* A running timer is run through all its overflows, and the timers it leads with
\* it, to where the cycles of the console take them.  After the overflows of k
\* cycles the timers it leads are where they are after k cycles.
LEMMA RunMatches ==
  ASSUME TimTypes, NEW s \in RunStates, NEW j \in Timers, Running(j),
         NEW U, Closed(U), NEW h, NEW w, Ran(h, w, U),
         \A t \in U : Led(j, t) => s.count[t] = counter[t]
  PROVE  LET n == RunTimer(s, j)
         IN n \in RunStates /\ Untied(s, n, j) /\ Matches(s, n, j, h, w, U)
<1> DEFINE b == behind
           scale == control[j].scale
<1>1. PICK g \in [0 .. b -> RunStates] :
        /\ g[0] = Advanced(s, j) /\ g[b] = RunTimer(s, j)
        /\ \A k \in 1 .. b : g[k] = Once(g[k - 1], j)
  BY RunSteps
<1>2. b \in Nat /\ b * scale \in Nat /\ Top \in Nat /\ scale \in Nat
      /\ \A k \in 0 .. b : (b - k) * scale \in Nat
      /\ \A i \in 0 .. b - 1 : (b - i) * scale = (b - (i + 1)) * scale + scale
  BY BehindIs, TimerNumbers, AddsAre
<1>3. Led(j, j)
  BY DEF Led, Timers
<1>4. /\ g[0].irqs = s.irqs /\ g[0].count[j] = s.count[j] + b * scale
      /\ \A t \in Timers \ {j} : g[0].count[t] = s.count[t]
  BY <1>1, AdvancedIs
<1> HIDE DEF scale, b
<1>5. Untied(s, g[b], j)
  <2> DEFINE S == {k \in 0 .. b : Untied(s, g[k], j)}
  <2>1. 0 \in S
    BY <1>2, <1>3, <1>4 DEF Untied
  <2>2. ASSUME NEW k \in 0 .. b - 1, k \in S PROVE k + 1 \in S
    <3>1. k + 1 \in 1 .. b /\ (k + 1) - 1 = k /\ k + 1 \in 0 .. b /\ k \in 0 .. b
      BY <1>2
    <3>2. g[k + 1] = Once(g[k], j) /\ g[k] \in RunStates
      BY <1>1, <3>1
    <3>3. Untied(g[k], g[k + 1], j)
      BY <3>2, OnceIs
    <3> QED BY <2>2, <3>1, <3>3 DEF Untied
  <2> HIDE DEF S
  <2>3. \A k \in 0 .. b : k \in S
    BY <1>2, <2>1, <2>2, CountUp
  <2>4. b \in S
    BY <1>2, <2>3
  <2> QED BY <2>4 DEF S
<1>6. ASSUME j \in U PROVE Matches(s, g[b], j, h, w, U)
  <2>1. /\ \A k \in 0 .. b : h[k] \in [Timers -> 0 .. Top - 1]
        /\ \A k \in 1 .. b : w[k] \in SUBSET Timers
        /\ \A t \in U : h[0][t] = counter[t]
        /\ \A k \in 1 .. b : Fits(h[k - 1], w[k], U) /\ \A t \in U : h[k][t] = Shows(h[k - 1], w[k], t)
    BY DEF Ran, b
  <2> DEFINE
       Meets(k, m) ==
         /\ g[m].count[j] = h[k][j] + (b - k) * scale
         /\ \A t \in U : Led(j, t) =>
              /\ t # j => g[m].count[t] = h[k][t]
              /\ t \in g[m].irqs <=> t \in s.irqs \/ (Wrapped(w, t, k) /\ control[t].irq)
       S == {k \in 0 .. b : \E m \in 0 .. k : Meets(k, m)}
  <2>2. 0 \in S
    <3>1. \A t \in Timers : ~Wrapped(w, t, 0)
      BY DEF Wrapped
    <3>2. b - 0 = b /\ h[0][j] = s.count[j]
      BY <1>2, <1>3, <1>6, <2>1
    <3>3. \A t \in U : t \in Timers
      BY DEF Closed
    <3>4. Meets(0, 0)
      BY <1>4, <2>1, <3>1, <3>2, <3>3
    <3> HIDE DEF Meets
    <3> QED BY <1>2, <3>4
  <2>3. ASSUME NEW k \in 0 .. b - 1, k \in S PROVE k + 1 \in S
    <3>1. k + 1 \in 1 .. b /\ (k + 1) - 1 = k /\ k + 1 \in 0 .. b /\ k \in 0 .. b
      BY <1>2
    <3>2. PICK m \in 0 .. k : Meets(k, m)
      BY <2>3
    <3> DEFINE c == h[k]
               wr == w[k + 1]
    <3>3. /\ c \in [Timers -> 0 .. Top - 1] /\ wr \in SUBSET Timers /\ Fits(c, wr, U)
          /\ \A t \in U : h[k + 1][t] = Shows(c, wr, t)
      BY <2>1, <3>1
    <3>4. \A t \in U : Wrapped(w, t, k + 1) <=> Wrapped(w, t, k) \/ t \in wr
      <4>1. \A q \in 1 .. k + 1 : q = k + 1 \/ q \in 1 .. k
        BY <3>1
      <4>2. \A q \in 1 .. k : q \in 1 .. k + 1
        BY <3>1
      <4>3. k + 1 \in 1 .. k + 1
        BY <3>1
      <4> QED BY <4>1, <4>2, <4>3 DEF Wrapped
    <3>5. g[m] \in RunStates /\ m \in 0 .. b /\ m \in 0 .. k + 1
      <4>1. b \in Nat
        BY <1>2
      <4>2. m \in 0 .. b /\ m \in 0 .. k + 1
        BY <3>1, <4>1
      <4> QED BY <1>1, <4>2
    <3>6. /\ g[m].count[j] = c[j] + (b - k) * scale
          /\ (b - k) * scale = (b - (k + 1)) * scale + scale
          /\ (b - (k + 1)) * scale \in Nat /\ c[j] \in 0 .. Top - 1
      BY <1>2, <3>1, <3>2, <3>3
    <3>7. \A t \in U : Led(j, t) =>
              /\ t # j => g[m].count[t] = c[t]
              /\ t \in g[m].irqs <=> t \in s.irqs \/ (Wrapped(w, t, k) /\ control[t].irq)
      BY <3>2
    <3>8. Adds(j, wr) = scale /\ (j \in wr <=> c[j] + scale >= Top)
      BY <1>6, <3>3, AddsAre DEF Fits, Wrap, scale
    <3> HIDE DEF c, wr
    <3>9. CASE j \in wr
      <4>1. g[m].count[j] >= Top
        BY <1>2, <3>6, <3>8, <3>9
      <4>2. m + 1 \in 1 .. b /\ (m + 1) - 1 = m /\ m + 1 \in 0 .. k + 1
        BY <1>2, <3>1
      <4>3. g[m + 1] = HandleTimerOverflow(g[m], j)
        BY <1>1, <4>1, <4>2 DEF Once
      <4>4. \A t \in U : Led(j, t) /\ t # j => g[m].count[t] = c[t] /\ Wrap(c, wr, t)
        BY <3>3, <3>7 DEF Fits
      <4> DEFINE n == HandleTimerOverflow(g[m], j)
      <4>5. /\ n.count[j] = g[m].count[j] - Top + Reloaded(j)
            /\ \A t \in U : Led(j, t) =>
                 /\ t # j => n.count[t] = Shows(c, wr, t)
                 /\ t \in n.irqs <=> t \in g[m].irqs \/ (t \in wr /\ control[t].irq)
        BY <3>3, <3>5, <3>9, <4>1, <4>4, OverflowIs
      <4> HIDE DEF n
      <4>6. g[m + 1] = n
        BY <4>3 DEF n
      <4>7. h[k + 1][j] = Reloaded(j) + (c[j] + scale - Top)
        BY <1>6, <3>3, <3>9 DEF Shows, scale
      <4>8. n.count[j] = h[k + 1][j] + (b - (k + 1)) * scale
        <5>1. Reloaded(j) \in Nat
          BY ReloadedIs
        <5> DEFINE rest == (b - (k + 1)) * scale
        <5> HIDE DEF rest
        <5>2. g[m].count[j] = c[j] + (rest + scale) /\ rest \in Nat
          BY <3>6 DEF rest
        <5>3. c[j] \in Nat /\ Top \in Nat /\ scale \in Nat
          BY <1>2, <3>6
        <5>4. n.count[j] = (c[j] + (rest + scale)) - Top + Reloaded(j)
          BY <4>5, <5>2
        <5>5. n.count[j] = h[k + 1][j] + rest
          BY <4>7, <5>1, <5>2, <5>3, <5>4
        <5> QED BY <5>5 DEF rest
      <4>9. Meets(k + 1, m + 1)
        BY <3>3, <3>4, <3>7, <4>5, <4>6, <4>8
      <4> HIDE DEF Meets
      <4> QED BY <3>1, <4>2, <4>9
    <3>10. CASE j \notin wr
      <4>1. ASSUME NEW t \in U, Led(j, t), t # j PROVE t \notin wr /\ h[k + 1][t] = c[t]
        <5>1. t \in Timers
          BY DEF Closed
        <5>2. \A i \in Timers : Led(i, t) => i \notin wr
          BY <3>10, <4>1, <5>1, OneLeader
        <5>3. ~Running(t)
          <6>1. Running(t) => Led(t, t)
            BY <5>1 DEF Led, Timers
          <6> QED BY <4>1, <5>1, <6>1, OneLeader
        <5>4. t \notin wr /\ Shows(c, wr, t) = c[t]
          BY <3>3, <5>2, <5>3, StaysUnlessLed
        <5> QED BY <3>3, <5>4
      <4>2. h[k + 1][j] = c[j] + scale
        BY <1>6, <3>3, <3>8, <3>10 DEF Shows
      <4>3. g[m].count[j] = h[k + 1][j] + (b - (k + 1)) * scale
        <5> DEFINE rest == (b - (k + 1)) * scale
        <5> HIDE DEF rest
        <5>1. g[m].count[j] = c[j] + (rest + scale) /\ rest \in Nat
          BY <3>6 DEF rest
        <5>2. g[m].count[j] = h[k + 1][j] + rest
          BY <1>2, <3>6, <4>2, <5>1
        <5> QED BY <5>2 DEF rest
      <4>4. Meets(k + 1, m)
        BY <3>4, <3>7, <3>10, <4>1, <4>3
      <4> HIDE DEF Meets
      <4> QED BY <3>1, <3>5, <4>4
    <3> QED BY <3>9, <3>10
  <2> HIDE DEF S
  <2>4. b \in S
    <3>1. \A k \in 0 .. b : k \in S
      BY <1>2, <2>2, <2>3, CountUp
    <3> QED BY <1>2, <3>1
  <2>5. PICK m \in 0 .. b : Meets(b, m)
    <3> HIDE DEF Meets
    <3> QED BY <2>4 DEF S
  <2>6. g[m].count[j] = h[b][j] /\ g[m].count[j] < Top
    <3>1. b - b = 0 /\ 0 * scale = 0 /\ h[b][j] \in 0 .. Top - 1
      BY <1>2, <2>1
    <3> QED BY <1>2, <2>5, <3>1
  <2>7. \A k \in 0 .. b : k >= m => g[k] = g[m]
    <3> DEFINE Q == {k \in 0 .. b : k >= m => g[k] = g[m]}
    <3>1. 0 \in Q
      BY <1>2
    <3>2. ASSUME NEW k \in 0 .. b - 1, k \in Q PROVE k + 1 \in Q
      <4>1. k + 1 \in 1 .. b /\ (k + 1) - 1 = k /\ k + 1 \in 0 .. b
        BY <1>2
      <4>2. CASE k >= m
        <5>1. g[k + 1] = Once(g[m], j)
          BY <1>1, <3>2, <4>1, <4>2
        <5>2. ~(g[m].count[j] >= Top)
          <6>1. g[m].count[j] \in Nat
            BY <1>1, <2>5 DEF RunStates
          <6> QED BY <1>2, <2>6, <6>1
        <5> QED BY <4>1, <5>1, <5>2 DEF Once
      <4>3. CASE k < m
        <5>1. k + 1 >= m => k + 1 = m
          BY <4>3
        <5> QED BY <4>1, <5>1
      <4> QED BY <4>2, <4>3
    <3> HIDE DEF Q
    <3>3. \A k \in 0 .. b : k \in Q
      BY <1>2, <3>1, <3>2, CountUp
    <3> QED BY <3>3 DEF Q
  <2>8. g[b] = g[m]
    BY <1>2, <2>7
  <2> QED BY <2>5, <2>6, <2>8 DEF Matches, b
<1>7. ASSUME j \notin U PROVE Matches(s, g[b], j, h, w, U)
  <2>1. \A t \in U : ~Led(j, t)
    BY <1>7 DEF Closed, Led
  <2> QED BY <2>1 DEF Matches
<1>8. g[b] \in RunStates
  BY <1>1, <1>2
<1> QED BY <1>1, <1>5, <1>6, <1>7, <1>8

-----------------------------------------------------------------------------
(* All timers *)

\* One turn of the loop in RunTimers.
RunIfOn(s, i) == IF Running(i) THEN RunTimer(s, i) ELSE s

\* What is run keeps its types.
LEMMA RunIfOnType ==
  ASSUME TimTypes, NEW s \in RunStates, NEW i \in Timers
  PROVE  RunIfOn(s, i) \in RunStates
<1>1. CASE Running(i)
  <2> DEFINE h == [k \in 0 .. behind |-> counter]
             w == [k \in 1 .. behind |-> {}]
  <2>1. Ran(h, w, {}) /\ Closed({})
    BY DEF Ran, Closed, TimTypes, Fits
  <2> HIDE DEF h, w
  <2>2. RunTimer(s, i) \in RunStates
    BY <1>1, <2>1, RunMatches
  <2> QED BY <1>1, <2>2 DEF RunIfOn
<1> QED BY <1>1 DEF RunIfOn

\* The states a catch-up passes through, one for each timer.
LEMMA CatchUpSteps ==
  ASSUME TimTypes
  PROVE  \E h \in [0 .. NumTimers -> RunStates] :
           /\ h[0] = [count |-> counter, irqs |-> {}, carry |-> FALSE] /\ h[NumTimers] = CaughtUp
           /\ \A k \in 1 .. NumTimers : h[k] = RunIfOn(h[k - 1], k - 1)
<1> DEFINE n == NumTimers
           b == [k \in 1 .. n |-> k - 1]
           base == [count |-> counter, irqs |-> {}, carry |-> FALSE]
           op == [x \in RunStates \X Timers |-> RunIfOn(x[1], x[2])]
           Body(it) == [t \in SUBSET (1 .. n) |->
                          IF t = {} THEN base ELSE RunIfOn(it[t \ {Max(t)}], b[Max(t)])]
           iter == CHOOSE it : it = Body(it)
<1>1. n \in Nat /\ DOMAIN b = 1 .. n /\ Len(b) = n /\ b \in Seq(Timers) /\ \A k \in 1 .. n : b[k] = k - 1 /\ b[k] \in Timers
  BY TimerNumbers DEF Timers
<1>2. op \in [RunStates \X Timers -> RunStates]
  BY RunIfOnType
<1>3. base \in RunStates
  BY TimerNumbers DEF RunStates, TimTypes
<1> HIDE DEF base
<1>4. PICK f \in [SUBSET (1 .. n) -> RunStates] : \A t \in SUBSET (1 .. n) : FoldsTo(f, t, op, base, b)
  <2> HIDE DEF op, b
  <2> QED BY <1>1, <1>2, <1>3, FoldTable
<1>5. f = Body(f)
  <2> SUFFICES ASSUME NEW t \in SUBSET (1 .. n), t # {}
               PROVE  op[<<f[t \ {Max(t)}], b[Max(t)]>>] = RunIfOn(f[t \ {Max(t)}], b[Max(t)])
    BY <1>4 DEF FoldsTo
  <2>1. Max(t) \in t
    BY <1>1, TopIn
  <2> HIDE DEF b
  <2>2. f[t \ {Max(t)}] \in RunStates
    BY <1>4
  <2>3. Max(t) \in 1 .. n
    BY <2>1
  <2>4. b[Max(t)] \in Timers
    BY <1>1, <2>3
  <2> QED BY <2>2, <2>4
<1>6. iter = Body(iter)
  BY <1>5
<1>7. CaughtUp = iter[1 .. n]
  BY <1>1 DEF CaughtUp, FoldLeft, MapThenFoldSet, base, RunIfOn
<1> DEFINE h == [k \in 0 .. n |-> iter[1 .. k]]
<1> HIDE DEF iter
<1>8. h[0] = base
  BY <1>1, <1>6
<1>9. ASSUME NEW k \in 1 .. n PROVE h[k] = RunIfOn(h[k - 1], k - 1)
  <2>1. 1 .. k \in SUBSET (1 .. n) /\ k - 1 \in 0 .. n /\ k \in 0 .. n
    BY <1>1
  <2>2. iter[1 .. k] = RunIfOn(iter[1 .. k - 1], b[k])
    <3>1. iter[1 .. k] = IF 1 .. k = {} THEN base ELSE RunIfOn(iter[(1 .. k) \ {Max(1 .. k)}], b[Max(1 .. k)])
      BY <1>6, <2>1
    <3>2. Max(1 .. k) = k /\ (1 .. k) \ {k} = 1 .. k - 1 /\ 1 .. k # {}
      BY UpTo, <1>1
    <3> QED BY <3>1, <3>2
  <2> HIDE DEF b
  <2> QED BY <1>1, <2>1, <2>2
<1> HIDE DEF h
<1>10. \A k \in 0 .. n : h[k] \in RunStates
  <2> DEFINE S == {k \in 0 .. n : h[k] \in RunStates}
  <2> HIDE DEF b
  <2>1. 0 \in S
    BY <1>1, <1>3, <1>8
  <2>2. ASSUME NEW k \in 0 .. n - 1, k \in S PROVE k + 1 \in S
    <3>1. k + 1 \in 1 .. n /\ (k + 1) - 1 = k /\ k + 1 \in 0 .. n /\ k \in Timers
      BY <1>1 DEF Timers
    <3>2. h[k + 1] = RunIfOn(h[k], k)
      BY <1>9, <3>1
    <3> QED BY <2>2, <3>1, <3>2, RunIfOnType
  <2> HIDE DEF S
  <2>3. \A k \in 0 .. n : k \in S
    BY <1>1, <2>1, <2>2, CountUp
  <2> QED BY <2>3 DEF S
<1>11. h \in [0 .. n -> RunStates]
  BY <1>10 DEF h
<1>12. h[n] = CaughtUp
  BY <1>1, <1>7 DEF h
<1> QED BY <1>8, <1>9, <1>11, <1>12 DEF base

\* Catching up late is to have run the timers cycle by cycle.
LEMMA CatchUpFollows ==
  ASSUME TimTypes, NEW U, Closed(U), NEW h, NEW w, Ran(h, w, U)
  PROVE  /\ CaughtUp \in RunStates
         /\ \A t \in U : /\ CaughtUp.count[t] = h[behind][t]
                         /\ t \in CaughtUp.irqs <=> Wrapped(w, t, behind) /\ control[t].irq
<1>1. PICK g \in [0 .. NumTimers -> RunStates] :
           /\ g[0] = [count |-> counter, irqs |-> {}, carry |-> FALSE] /\ g[NumTimers] = CaughtUp
           /\ \A k \in 1 .. NumTimers : g[k] = RunIfOn(g[k - 1], k - 1)
  BY CatchUpSteps
<1>2. NumTimers \in Nat /\ U \subseteq Timers
  BY TimerNumbers DEF Closed
<1> DEFINE
     LedBelow(q, t) == \E j \in Timers : j < q /\ Led(j, t)
     Final(s, t) == s.count[t] = h[behind][t] /\ (t \in s.irqs <=> Wrapped(w, t, behind) /\ control[t].irq)
     NotYet(s, t) == s.count[t] = counter[t] /\ t \notin s.irqs
     Done(q) == \A t \in U : (LedBelow(q, t) => Final(g[q], t)) /\ (~LedBelow(q, t) => NotYet(g[q], t))
     S == {q \in 0 .. NumTimers : Done(q)}
<1>3. 0 \in S
  <2>1. \A t \in U : ~LedBelow(0, t)
    BY DEF Timers
  <2>2. \A t \in U : NotYet(g[0], t)
    BY <1>1
  <2> HIDE DEF LedBelow, NotYet, Final
  <2> QED BY <1>2, <2>1, <2>2
<1>4. ASSUME NEW q \in 0 .. NumTimers - 1, q \in S PROVE q + 1 \in S
  <2>1. q + 1 \in 1 .. NumTimers /\ (q + 1) - 1 = q /\ q + 1 \in 0 .. NumTimers /\ q \in Timers /\ q \in 0 .. NumTimers
    BY <1>2 DEF Timers
  <2>2. g[q + 1] = RunIfOn(g[q], q) /\ g[q] \in RunStates
    BY <1>1, <2>1
  <2>3. \A t \in U : LedBelow(q + 1, t) <=> LedBelow(q, t) \/ Led(q, t)
    <3>1. \A j \in Timers : j < q + 1 <=> j < q \/ j = q
      BY <2>1 DEF Timers
    <3> QED BY <2>1, <3>1
  <2>4. Done(q)
    BY <1>4
  <2>5. \A t \in U : Led(q, t) => ~LedBelow(q, t)
    BY <1>2, <2>1, OneLeader DEF Timers
  <2> HIDE DEF LedBelow
  <2>6. CASE Running(q)
    <3>1. g[q + 1] = RunTimer(g[q], q)
      BY <2>2, <2>6 DEF RunIfOn
    <3>2. \A t \in U : Led(q, t) => NotYet(g[q], t)
      BY <2>4, <2>5
    <3>3. Untied(g[q], g[q + 1], q) /\ Matches(g[q], g[q + 1], q, h, w, U)
      <4>1. Untied(g[q], RunTimer(g[q], q), q) /\ Matches(g[q], RunTimer(g[q], q), q, h, w, U)
        BY <2>1, <2>2, <2>6, <3>2, RunMatches
      <4> QED BY <3>1, <4>1
    <3>4. \A t \in U : Led(q, t) => Final(g[q + 1], t)
      BY <3>2, <3>3 DEF Matches
    <3>5. \A t \in U : ~Led(q, t) => /\ Final(g[q], t) => Final(g[q + 1], t)
                                     /\ NotYet(g[q], t) => NotYet(g[q + 1], t)
      BY <1>2, <3>3 DEF Untied
    <3> HIDE DEF Final, NotYet
    <3>6. Done(q + 1)
      BY <2>3, <2>4, <3>4, <3>5
    <3> HIDE DEF Done
    <3> QED BY <2>1, <3>6
  <2>7. CASE ~Running(q)
    <3>1. g[q + 1] = g[q]
      BY <2>2, <2>7 DEF RunIfOn
    <3>2. \A t \in U : ~Led(q, t)
      BY <2>7 DEF Led
    <3>3. Done(q + 1)
      BY <2>3, <2>4, <3>1, <3>2
    <3> HIDE DEF Done
    <3> QED BY <2>1, <3>3
  <2> QED BY <2>6, <2>7
<1> HIDE DEF S
<1>5. \A q \in 0 .. NumTimers : q \in S
  BY <1>2, <1>3, <1>4, CountUp
<1>6. Done(NumTimers)
  <2>1. NumTimers \in S
    BY <1>2, <1>5
  <2> HIDE DEF Done
  <2> QED BY <2>1 DEF S
<1>7. ASSUME NEW t \in U, ~LedBelow(NumTimers, t)
      PROVE  h[behind][t] = counter[t] /\ ~Wrapped(w, t, behind)
  <2>1. t \in Timers /\ \A j \in Timers : j < NumTimers
    BY <1>2 DEF Timers
  <2>2. \A j \in Timers : ~Led(j, t)
    BY <1>7, <2>1
  <2>3. ~Running(t)
    BY <2>1, <2>2 DEF Led, Timers
  <2>4. behind \in Nat
    BY <2>1, BehindIs
  <2>5. ASSUME NEW k \in 1 .. behind PROVE t \notin w[k] /\ h[k][t] = h[k - 1][t]
    <3>1. k - 1 \in 0 .. behind
      BY <2>4
    <3>2. h[k - 1] \in [Timers -> 0 .. Top - 1] /\ w[k] \in SUBSET Timers /\ Fits(h[k - 1], w[k], U)
          /\ h[k][t] = Shows(h[k - 1], w[k], t)
      BY <3>1 DEF Ran
    <3> QED BY <2>2, <2>3, <3>2, StaysUnlessLed
  <2> DEFINE Q == {k \in 0 .. behind : h[k][t] = counter[t]}
  <2>6. 0 \in Q
    BY <2>4 DEF Ran
  <2>7. ASSUME NEW k \in 0 .. behind - 1, k \in Q PROVE k + 1 \in Q
    <3>1. k + 1 \in 1 .. behind /\ (k + 1) - 1 = k /\ k + 1 \in 0 .. behind
      BY <2>4
    <3> QED BY <2>5, <2>7, <3>1
  <2> HIDE DEF Q
  <2>8. \A k \in 0 .. behind : k \in Q
    BY <2>4, <2>6, <2>7, CountUp
  <2>9. behind \in Q
    BY <2>4, <2>8
  <2> QED BY <2>5, <2>9 DEF Q, Wrapped
<1>8. CaughtUp \in RunStates
  BY <1>1, <1>2
<1> HIDE DEF LedBelow
<1> QED BY <1>1, <1>6, <1>7, <1>8

-----------------------------------------------------------------------------
(* The console *)

\* What the counters may show.
Displays == [Timers -> 0 .. Top - 1]

\* After a cycle a timer is below the top.
LEMMA ShowsType ==
  ASSUME TimTypes, NEW c \in Displays, NEW wr \in SUBSET Timers, NEW t \in Timers, Wrap(c, wr, t)
  PROVE  Shows(c, wr, t) \in 0 .. Top - 1
<1>1. /\ Top \in Nat /\ Unit \in Nat /\ Unit > 0 /\ Reloaded(t) \in Nat /\ Reloaded(t) + Unit <= Top
      /\ c[t] \in Nat /\ c[t] < Top
      /\ Adds(t, wr) \in Nat /\ Adds(t, wr) <= Unit /\ control[t].scale \in Nat /\ control[t].scale <= Unit
      /\ Running(t) => Adds(t, wr) = control[t].scale
  BY TimerNumbers, ReloadedIs, AddsAre DEF Displays
<1> QED BY <1>1 DEF Shows, Wrap

\* In every cycle there is an answer to which timers wrap.
LEMMA OneCycle ==
  ASSUME TimTypes, NEW c \in Displays
  PROVE  \E wr \in SUBSET Timers : \E n \in Displays :
           Fits(c, wr, Timers) /\ \A t \in Timers : n[t] = Shows(c, wr, t)
<1> DEFINE S == {k \in 0 .. NumTimers : \E wr \in SUBSET Timers : \A t \in Timers : t < k => Wrap(c, wr, t)}
<1>1. NumTimers \in Nat /\ Timers = 0 .. NumTimers - 1
  BY TimerNumbers DEF Timers
<1>2. 0 \in S
  BY <1>1
<1>3. ASSUME NEW k \in 0 .. NumTimers - 1, k \in S PROVE k + 1 \in S
  <2>1. PICK wr \in SUBSET Timers : \A t \in Timers : t < k => Wrap(c, wr, t)
    BY <1>3
  <2> DEFINE new == IF c[k] + Adds(k, wr) >= Top THEN wr \cup {k} ELSE wr \ {k}
  <2>2. k \in Timers /\ new \in SUBSET Timers /\ \A t \in Timers : t # k => (t \in new <=> t \in wr)
    BY <1>1
  <2>3. \A t \in Timers : t <= k => (t - 1 \in new <=> t - 1 \in wr)
    BY <1>1
  <2>4. k \in new <=> c[k] + Adds(k, wr) >= Top
    OBVIOUS
  <2> HIDE DEF new
  <2>5. \A t \in Timers : t <= k => Adds(t, new) = Adds(t, wr)
    BY <2>3 DEF Adds
  <2>6. \A t \in Timers : t < k + 1 => Wrap(c, new, t)
    <3> SUFFICES ASSUME NEW t \in Timers, t < k + 1 PROVE Wrap(c, new, t)
      OBVIOUS
    <3>1. t <= k /\ (t # k => t < k)
      BY <1>1
    <3>2. Adds(t, new) = Adds(t, wr)
      BY <2>5, <3>1
    <3>3. CASE t = k
      BY <2>4, <3>2, <3>3 DEF Wrap
    <3>4. CASE t # k
      BY <2>1, <2>2, <3>1, <3>2, <3>4 DEF Wrap
    <3> QED BY <3>3, <3>4
  <2>7. k + 1 \in 0 .. NumTimers
    BY <1>1
  <2> QED BY <2>2, <2>6, <2>7
<1> HIDE DEF S
<1>4. \A k \in 0 .. NumTimers : k \in S
  BY <1>1, <1>2, <1>3, CountUp
<1>5. PICK wr \in SUBSET Timers : \A t \in Timers : t < NumTimers => Wrap(c, wr, t)
  <2>1. NumTimers \in S
    BY <1>1, <1>4
  <2> QED BY <2>1 DEF S
<1>6. \A t \in Timers : Wrap(c, wr, t)
  BY <1>1, <1>5
<1> DEFINE n == [t \in Timers |-> Shows(c, wr, t)]
<1>7. n \in Displays
  BY <1>6, ShowsType DEF Displays
<1>8. \A t \in Timers : n[t] = Shows(c, wr, t)
  OBVIOUS
<1> HIDE DEF n
<1> QED BY <1>6, <1>7, <1>8 DEF Fits

\* What the console of the model shows.
WrapSet == {i \in Timers : Wraps[i]}

\* The cycle of the model is one of those.
LEMMA ConsoleMoves ==
  ASSUME TimTypes
  PROVE  /\ WrapSet \in SUBSET Timers /\ Fits(exact, WrapSet, Timers)
         /\ \A t \in Timers : Shown(t) = Shows(exact, WrapSet, t) /\ Shown(t) \in 0 .. Top - 1
<1>1. exact \in Displays
  BY DEF TimTypes, Displays
<1> DEFINE Good(f) == \A i \in Timers : f[i] <=> exact[i] + Steps(i, f) >= Top
<1>2. ASSUME NEW f \in [Timers -> BOOLEAN], NEW i \in Timers
      PROVE  Steps(i, f) = Adds(i, {t \in Timers : f[t]})
  <2>1. i - 1 \in Timers <=> i > 0
    BY TimerNumbers DEF Timers
  <2> QED BY <2>1 DEF Steps, Adds
<1>3. \E f \in [Timers -> BOOLEAN] : Good(f)
  <2>1. PICK wr \in SUBSET Timers : Fits(exact, wr, Timers)
    BY <1>1, OneCycle
  <2> DEFINE f == [i \in Timers |-> i \in wr]
  <2>2. f \in [Timers -> BOOLEAN] /\ wr = {t \in Timers : f[t]} /\ \A i \in Timers : f[i] <=> i \in wr
    <3>1. \A i \in Timers : f[i] = (i \in wr)
      OBVIOUS
    <3>2. f \in [Timers -> BOOLEAN]
      OBVIOUS
    <3> HIDE DEF f
    <3>3. \A i \in Timers : f[i] <=> i \in wr
      BY <3>1
    <3> QED BY <3>2, <3>3
  <2> HIDE DEF f
  <2>3. Good(f)
    BY <1>2, <2>1, <2>2 DEF Fits, Wrap
  <2> QED BY <2>2, <2>3
<1>4. Wraps \in [Timers -> BOOLEAN] /\ Good(Wraps)
  BY <1>3 DEF Wraps
<1> HIDE DEF Good
<1>5. \A i \in Timers : Steps(i, Wraps) = Adds(i, WrapSet) /\ (Wraps[i] <=> i \in WrapSet)
  BY <1>2, <1>4 DEF WrapSet
<1>6. Fits(exact, WrapSet, Timers)
  BY <1>4, <1>5 DEF Good, Fits, Wrap
<1>7. WrapSet \in SUBSET Timers
  BY DEF WrapSet
<1>8. ASSUME NEW t \in Timers PROVE Shown(t) = Shows(exact, WrapSet, t)
  BY <1>5 DEF Shown, Shows, Reloaded
<1>9. \A t \in Timers : Shows(exact, WrapSet, t) \in 0 .. Top - 1
  BY <1>1, <1>6, <1>7, ShowsType DEF Fits
<1> QED BY <1>6, <1>7, <1>8, <1>9

\* There is a console that runs from where the code left off.
LEMMA SomeRan == ASSUME TimTypes PROVE \E h, w : Ran(h, w, Timers)
<1> DEFINE
     Upto(k, h, w) ==
       /\ h \in [0 .. k -> Displays] /\ w \in [1 .. k -> SUBSET Timers]
       /\ h[0] = counter
       /\ \A i \in 1 .. k : /\ Fits(h[i - 1], w[i], Timers)
                            /\ \A t \in Timers : h[i][t] = Shows(h[i - 1], w[i], t)
     S == {k \in 0 .. behind : \E h, w : Upto(k, h, w)}
<1>1. behind \in Nat /\ counter \in Displays
  BY TimerNumbers DEF TimTypes, Displays
<1>2. 0 \in S
  <2> DEFINE h == [k \in 0 .. 0 |-> counter]
             w == [k \in 1 .. 0 |-> {}]
  <2>1. h \in [0 .. 0 -> Displays] /\ w \in [1 .. 0 -> SUBSET Timers] /\ h[0] = counter
    BY <1>1
  <2> HIDE DEF h, w
  <2>2. Upto(0, h, w)
    BY <2>1
  <2> HIDE DEF Upto
  <2> QED BY <1>1, <2>2
<1>3. ASSUME NEW k \in 0 .. behind - 1, k \in S PROVE k + 1 \in S
  <2>1. PICK h, w : Upto(k, h, w)
    BY <1>3
  <2>2. k \in Nat /\ k \in 0 .. k /\ h[k] \in Displays /\ k + 1 \in 0 .. behind
    BY <1>1, <2>1
  <2>3. PICK wr \in SUBSET Timers, n \in Displays :
          Fits(h[k], wr, Timers) /\ \A t \in Timers : n[t] = Shows(h[k], wr, t)
    BY <2>2, OneCycle
  <2> DEFINE h1 == [i \in 0 .. k + 1 |-> IF i = k + 1 THEN n ELSE h[i]]
             w1 == [i \in 1 .. k + 1 |-> IF i = k + 1 THEN wr ELSE w[i]]
  <2>4. \A i \in 0 .. k + 1 : i # k + 1 => i \in 0 .. k /\ (i >= 1 => i \in 1 .. k)
    BY <2>2
  <2>5. h1 \in [0 .. k + 1 -> Displays] /\ w1 \in [1 .. k + 1 -> SUBSET Timers]
    <3>1. \A i \in 0 .. k + 1 : (IF i = k + 1 THEN n ELSE h[i]) \in Displays
      BY <2>1, <2>4
    <3>2. \A i \in 1 .. k + 1 : (IF i = k + 1 THEN wr ELSE w[i]) \in SUBSET Timers
      BY <2>1, <2>2, <2>4
    <3> QED BY <3>1, <3>2
  <2>6. /\ \A i \in 0 .. k : h1[i] = h[i]
        /\ \A i \in 1 .. k : w1[i] = w[i]
        /\ h1[k + 1] = n /\ w1[k + 1] = wr
    BY <2>2
  <2> HIDE DEF h1, w1
  <2>7. ASSUME NEW i \in 1 .. k + 1
        PROVE  /\ Fits(h1[i - 1], w1[i], Timers)
               /\ \A t \in Timers : h1[i][t] = Shows(h1[i - 1], w1[i], t)
    <3>1. i - 1 \in 0 .. k /\ (i = k + 1 \/ i \in 1 .. k) /\ (i \in 1 .. k => i \in 0 .. k)
      BY <2>2
    <3>2. CASE i = k + 1
      <4>1. h1[i - 1] = h[k] /\ w1[i] = wr /\ h1[i] = n
        BY <2>2, <2>6, <3>2
      <4> QED BY <2>3, <4>1
    <3>3. CASE i \in 1 .. k
      <4>1. h1[i - 1] = h[i - 1] /\ w1[i] = w[i] /\ h1[i] = h[i]
        BY <2>6, <3>1, <3>3
      <4> QED BY <2>1, <3>3, <4>1
    <3> QED BY <3>1, <3>2, <3>3
  <2>8. h1[0] = counter
    BY <2>1, <2>2, <2>6
  <2>9. Upto(k + 1, h1, w1)
    BY <2>5, <2>7, <2>8
  <2> HIDE DEF Upto
  <2> QED BY <2>2, <2>9
<1> HIDE DEF S
<1>4. \A k \in 0 .. behind : k \in S
  BY <1>1, <1>2, <1>3, CountUp
<1>5. PICK h, w : Upto(behind, h, w)
  <2>1. behind \in S
    BY <1>1, <1>4
  <2> HIDE DEF Upto
  <2> QED BY <2>1 DEF S
<1>6. /\ h \in [0 .. behind -> Displays] /\ w \in [1 .. behind -> SUBSET Timers]
      /\ \A t \in Timers : h[0][t] = counter[t]
      /\ \A i \in 1 .. behind : /\ Fits(h[i - 1], w[i], Timers)
                                /\ \A t \in Timers : h[i][t] = Shows(h[i - 1], w[i], t)
  BY <1>5
<1> HIDE DEF Upto
<1>7. Ran(h, w, Timers)
  BY <1>6 DEF Ran, Displays
<1> QED BY <1>7

\* A catch-up leaves every counter below its top.
LEMMA CaughtUpType ==
  ASSUME TimTypes
  PROVE  CaughtUp.count \in Displays /\ CaughtUp.irqs \in SUBSET Timers
<1>1. PICK h, w : Ran(h, w, Timers)
  BY SomeRan
<1>2. Closed(Timers)
  BY DEF Closed
<1>3. CaughtUp \in RunStates /\ \A t \in Timers : CaughtUp.count[t] = h[behind][t]
  BY <1>1, <1>2, CatchUpFollows
<1>4. h[behind] \in Displays
  BY <1>1, TimerNumbers DEF Ran, TimTypes, Displays
<1>5. CaughtUp.count \in [Timers -> Nat] /\ CaughtUp.irqs \in SUBSET Timers
  BY <1>3 DEF RunStates
<1>6. \A t \in Timers : CaughtUp.count[t] \in 0 .. Top - 1
  BY <1>3, <1>4 DEF Displays
<1> QED BY <1>5, <1>6 DEF Displays

-----------------------------------------------------------------------------
(* The invariant: the timers that are not spoilt show what the cycles since the *)
(* last catch-up make of their counters.                                       *)

\* The timers of which something is said.
Intact == Timers \ spoilt

\* The history that leads from the counters to what the console shows.
Tracked(h, w) ==
  /\ Ran(h, w, Intact)
  /\ \A t \in Intact : h[behind][t] = exact[t] /\ (t \in due <=> Wrapped(w, t, behind))

\* The inductive invariant.
TimerInv == TimTypes /\ Closed(Intact) /\ \E h, w : Tracked(h, w)

\* What TimersExact says of a step.
LateIsExact ==
  behind > 0 /\ behind' = 0 =>
    \A i \in Timers \ spoilt :
      /\ counter'[i] = exact'[i]
      /\ i \in raised' <=> i \in due /\ control[i].irq

\* Just caught up, a history is nothing but the counters.
LEMMA FreshTracks ==
  ASSUME TimTypes, behind = 0, due = {}, \A t \in Intact : counter[t] = exact[t]
  PROVE  \E h, w : Tracked(h, w)
<1> DEFINE h == [k \in 0 .. 0 |-> counter]
           w == [k \in 1 .. 0 |-> {}]
<1>1. h \in [0 .. 0 -> [Timers -> 0 .. Top - 1]] /\ w \in [1 .. 0 -> SUBSET Timers] /\ h[0] = counter
  BY DEF TimTypes
<1> HIDE DEF h, w
<1>2. Ran(h, w, Intact) /\ \A t \in Timers : ~Wrapped(w, t, 0)
  BY <1>1 DEF Ran, Wrapped
<1>3. Tracked(h, w)
  BY <1>1, <1>2 DEF Tracked, Intact
<1> QED BY <1>3

\* Right after a catch-up.
Fresh == TimTypes /\ Closed(Intact) /\ behind = 0 /\ due = {} /\ \A t \in Intact : counter[t] = exact[t]

\* The invariant holds right after a catch-up.
LEMMA FreshInv == Fresh => TimerInv
BY FreshTracks DEF TimerInv, Fresh

\* The invariant holds at first,
LEMMA InitTimerInv == TimInit => TimerInv
<1> SUFFICES ASSUME TimInit PROVE TimerInv
  OBVIOUS
<1>1. TimTypes
  BY TimerNumbers, TimerAssumption DEF TimInit, TimTypes, ControlValues, TimerAssumption
<1>2. Closed(Intact)
  BY DEF TimInit, Closed, Intact
<1> QED BY <1>1, <1>2, FreshInv DEF TimInit, Fresh

\* What a catch-up yields.
LEMMA CatchUpIsExact ==
  ASSUME TimerInv
  PROVE  /\ CaughtUp.count \in Displays /\ CaughtUp.irqs \in SUBSET Timers
         /\ \A t \in Intact : CaughtUp.count[t] = exact[t] /\ (t \in CaughtUp.irqs <=> t \in due /\ control[t].irq)
<1>1. PICK h, w : Tracked(h, w)
  BY DEF TimerInv
<1>2. \A t \in Intact : /\ CaughtUp.count[t] = h[behind][t]
                        /\ t \in CaughtUp.irqs <=> Wrapped(w, t, behind) /\ control[t].irq
  BY <1>1, CatchUpFollows DEF TimerInv, Tracked
<1>3. \A t \in Intact : h[behind][t] = exact[t] /\ (t \in due <=> Wrapped(w, t, behind))
  BY <1>1 DEF Tracked
<1>4. CaughtUp.count \in Displays /\ CaughtUp.irqs \in SUBSET Timers
  BY CaughtUpType DEF TimerInv
<1>5. ASSUME NEW t \in Intact
      PROVE  CaughtUp.count[t] = exact[t] /\ (t \in CaughtUp.irqs <=> t \in due /\ control[t].irq)
  <2>1. CaughtUp.count[t] = h[behind][t] /\ h[behind][t] = exact[t]
    BY <1>2, <1>3
  <2>2. t \in CaughtUp.irqs <=> Wrapped(w, t, behind) /\ control[t].irq
    BY <1>2
  <2>3. t \in due <=> Wrapped(w, t, behind)
    BY <1>3
  <2> HIDE DEF Wrapped
  <2> QED BY <2>1, <2>2, <2>3
<1> QED BY <1>4, <1>5

\* after a catch-up,
LEMMA RunTimersKeeps == ASSUME TimerInv, RunTimers PROVE TimerInv' /\ LateIsExact
<1>1. TimTypes'
  BY CatchUpIsExact, TimerNumbers DEF TimerInv, TimTypes, RunTimers, Displays
<1>2. Intact' = Intact /\ Closed(Intact)'
  BY DEF TimerInv, Intact, RunTimers, Closed
<1>3. (\A t \in Intact : counter[t] = exact[t])'
  BY <1>2, CatchUpIsExact DEF RunTimers
<1>4. behind' = 0 /\ due' = {}
  BY DEF RunTimers
<1>5. TimerInv'
  <2>1. Fresh'
    BY <1>1, <1>2, <1>3, <1>4 DEF Fresh
  <2> QED BY <2>1, FreshInv, PTL
<1>6. LateIsExact
  BY CatchUpIsExact DEF LateIsExact, RunTimers, Intact
<1> QED BY <1>5, <1>6

\* when a timer is started or stopped: a start sets both counters to the same value,
LEMMA StartKeeps ==
  ASSUME TimerInv, NEW i \in Timers, NEW val \in TimerSettings[i], TimerStart(i, val)
  PROVE  TimerInv' /\ LateIsExact
<1> DEFINE starts == ~control[i].start /\ val.start
           From(c) == IF starts THEN [c EXCEPT ![i] = reload[i] * Unit] ELSE c
<1>1. /\ counter' = From(CaughtUp.count) /\ exact' = From(exact)
      /\ raised' = CaughtUp.irqs /\ control' = [control EXCEPT ![i] = val]
      /\ behind' = 0 /\ due' = {} /\ reload' = reload
      /\ spoilt' = IF starts /\ i - 1 \notin spoilt THEN spoilt \ {i} ELSE spoilt
  BY DEF TimerStart, BeforeStart
<1>2. val \in ControlValues
  BY TimerAssumption DEF TimerAssumption, ControlValues
<1>3. TimTypes /\ Closed(Intact)
  BY DEF TimerInv
<1>4. reload[i] * Unit \in 0 .. Top - 1
  BY <1>3, ReloadedIs, TimerNumbers DEF Reloaded
<1>5. ASSUME NEW c \in Displays
      PROVE  From(c) \in Displays /\ From(c)[i] = (IF starts THEN reload[i] * Unit ELSE c[i])
             /\ \A t \in Timers \ {i} : From(c)[t] = c[t]
  BY <1>4 DEF Displays
<1>6. exact \in Displays /\ CaughtUp.count \in Displays
  BY <1>3, CatchUpIsExact DEF TimTypes, Displays
<1> HIDE DEF From
<1>7. TimTypes'
  <2>1. counter' \in Displays /\ exact' \in Displays
    BY <1>1, <1>5, <1>6
  <2>2. spoilt' \subseteq Timers /\ raised' \subseteq Timers
    BY <1>1, <1>3, CatchUpIsExact DEF TimTypes
  <2>3. control' \in [Timers -> ControlValues]
    BY <1>1, <1>2, <1>3 DEF TimTypes
  <2> QED BY <1>1, <1>3, <2>1, <2>2, <2>3, TimerNumbers DEF TimTypes, Displays
<1>8. \A t \in Intact : counter'[t] = exact'[t]
  <2> SUFFICES ASSUME NEW t \in Intact PROVE counter'[t] = exact'[t]
    OBVIOUS
  <2>1. t \in Timers /\ CaughtUp.count[t] = exact[t]
    BY CatchUpIsExact DEF Intact
  <2> QED BY <1>1, <1>5, <1>6, <2>1
<1>9. \A t \in Intact' : t \in Intact \/ (t = i /\ starts)
  BY <1>1 DEF Intact
<1>10. (\A t \in Intact : counter[t] = exact[t])'
  <2> SUFFICES ASSUME NEW t \in Intact' PROVE counter'[t] = exact'[t]
    OBVIOUS
  <2>1. CASE t \in Intact
    BY <1>8, <2>1
  <2>2. CASE t = i /\ starts
    BY <1>1, <1>5, <1>6, <2>2
  <2> QED BY <1>9, <2>1, <2>2
<1>11. Closed(Intact)'
  <2>1. CASE starts /\ i - 1 \notin spoilt
    <3>1. Intact' = Intact \cup {i}
      BY <1>1, <2>1 DEF Intact
    <3>2. \A j \in Timers : j <= i => j = i \/ j \in Intact
      <4>1. \A j \in Timers : j <= i /\ j # i => i - 1 \in Timers /\ j <= i - 1
        BY TimerNumbers DEF Timers
      <4> QED BY <1>3, <2>1, <4>1 DEF Closed, Intact
    <3> QED BY <1>3, <3>1, <3>2 DEF Closed
  <2>2. CASE ~(starts /\ i - 1 \notin spoilt)
    <3>1. Intact' = Intact
      BY <1>1, <2>2 DEF Intact
    <3> QED BY <1>3, <3>1 DEF Closed
  <2> QED BY <2>1, <2>2
<1>12. TimerInv'
  <2>1. Fresh'
    BY <1>1, <1>7, <1>10, <1>11 DEF Fresh
  <2> QED BY <2>1, FreshInv, PTL
<1>13. LateIsExact
  BY <1>1, <1>8, CatchUpIsExact DEF LateIsExact, Intact
<1> QED BY <1>12, <1>13

\* What the console does in a cycle depends on the registers alone.
LEMMA ConsoleSame ==
  ASSUME UNCHANGED control, NEW CONSTANT c, NEW CONSTANT wr, NEW CONSTANT t
  PROVE  /\ Adds(t, wr)' = Adds(t, wr) /\ (Wrap(c, wr, t)' <=> Wrap(c, wr, t))
         /\ reload'[t] = reload[t] \/ t \notin wr => Shows(c, wr, t)' = Shows(c, wr, t)
<1>1. (Running(t)' <=> Running(t)) /\ (Chained(t)' <=> Chained(t))
  BY DEF Running, Chained
<1>2. Adds(t, wr)' = Adds(t, wr)
  BY <1>1 DEF Adds
<1>3. Wrap(c, wr, t)' <=> Wrap(c, wr, t)
  BY <1>2 DEF Wrap
<1> QED BY <1>1, <1>2, <1>3 DEF Shows, Reloaded

\* when a cycle passes, which the history grows by,
LEMMA CycleKeeps == ASSUME TimerInv, Cycle PROVE TimerInv' /\ LateIsExact
<1>1. PICK h, w : Tracked(h, w)
  BY DEF TimerInv
<1> DEFINE b == behind
           U == Intact
           h1 == [k \in 0 .. b + 1 |-> IF k = b + 1 THEN exact' ELSE h[k]]
           w1 == [k \in 1 .. b + 1 |-> IF k = b + 1 THEN WrapSet ELSE w[k]]
<1>2. /\ behind' = b + 1 /\ b < MaxSlice /\ exact' = [i \in Timers |-> Shown(i)]
      /\ due' = due \cup WrapSet /\ raised' = {} /\ UNCHANGED <<control, reload, counter, spoilt>>
  BY DEF Cycle, WrapSet
<1>3. TimTypes /\ Closed(U) /\ b \in Nat /\ MaxSlice \in Nat
  BY TimerNumbers DEF TimerInv, TimTypes
<1>4. /\ WrapSet \in SUBSET Timers /\ Fits(exact, WrapSet, Timers) /\ exact' \in Displays
      /\ \A t \in Timers : exact'[t] = Shows(exact, WrapSet, t)
  BY <1>2, <1>3, ConsoleMoves DEF Displays
<1>5. TimTypes'
  BY <1>2, <1>3, <1>4 DEF TimTypes, Displays
<1>6. U' = U /\ U \subseteq Timers
  BY <1>2 DEF Intact
<1>7. Closed(U)'
  BY <1>3, <1>6 DEF Closed
<1>8. /\ h \in [0 .. b -> Displays] /\ w \in [1 .. b -> SUBSET Timers]
      /\ \A t \in U : h[0][t] = counter[t]
      /\ \A k \in 1 .. b : Fits(h[k - 1], w[k], U) /\ \A t \in U : h[k][t] = Shows(h[k - 1], w[k], t)
      /\ \A t \in U : h[b][t] = exact[t] /\ (t \in due <=> Wrapped(w, t, b))
  BY <1>1 DEF Tracked, Ran, Displays
<1> HIDE DEF b, U
<1>9. /\ h1 \in [0 .. b + 1 -> Displays] /\ w1 \in [1 .. b + 1 -> SUBSET Timers]
      /\ \A k \in 0 .. b : h1[k] = h[k]
      /\ \A k \in 1 .. b : w1[k] = w[k]
      /\ h1[b + 1] = exact' /\ w1[b + 1] = WrapSet
  <2>1. \A k \in 0 .. b + 1 : k # b + 1 => k \in 0 .. b /\ (k >= 1 => k \in 1 .. b)
    BY <1>3
  <2>2. \A k \in 0 .. b + 1 : (IF k = b + 1 THEN exact' ELSE h[k]) \in Displays
    BY <1>4, <1>8, <2>1
  <2>3. \A k \in 1 .. b + 1 : (IF k = b + 1 THEN WrapSet ELSE w[k]) \in SUBSET Timers
    BY <1>3, <1>4, <1>8, <2>1
  <2> QED BY <1>3, <2>2, <2>3
<1> HIDE DEF h1, w1
<1>10. ASSUME NEW k \in 1 .. b + 1
       PROVE  Fits(h1[k - 1], w1[k], U) /\ \A t \in U : h1[k][t] = Shows(h1[k - 1], w1[k], t)
  <2>1. k - 1 \in 0 .. b /\ (k = b + 1 \/ k \in 1 .. b) /\ (k \in 1 .. b => k \in 0 .. b)
    BY <1>3
  <2>2. CASE k = b + 1
    <3>1. h1[k - 1] = h[b] /\ w1[k] = WrapSet /\ h1[k] = exact'
      BY <1>3, <1>9, <2>2
    <3>2. \A t \in U : h[b][t] = exact[t]
      BY <1>8
    <3>3. Fits(h[b], WrapSet, U) /\ \A t \in U : exact'[t] = Shows(h[b], WrapSet, t)
      BY <1>4, <1>6, <3>2 DEF Fits, Wrap, Shows
    <3> QED BY <3>1, <3>3
  <2>3. CASE k \in 1 .. b
    <3>1. h1[k - 1] = h[k - 1] /\ w1[k] = w[k] /\ h1[k] = h[k]
      BY <1>9, <2>1, <2>3
    <3> QED BY <1>8, <2>3, <3>1
  <2> QED BY <2>1, <2>2, <2>3
<1>11. (\E h2, w2 : Tracked(h2, w2))'
  <2> SUFFICES ASSUME NEW CONSTANT h2, NEW CONSTANT w2, h2 = h1, w2 = w1
               PROVE  Tracked(h2, w2)'
    OBVIOUS
  <2>1. ASSUME NEW CONSTANT k \in 1 .. b + 1
        PROVE  Fits(h2[k - 1], w2[k], U)' /\ \A t \in U : h2[k][t] = Shows(h2[k - 1], w2[k], t)'
    <3>1. Fits(h2[k - 1], w2[k], U) /\ \A t \in U : h2[k][t] = Shows(h2[k - 1], w2[k], t)
      BY <1>10
    <3>2. \A t \in U : Wrap(h2[k - 1], w2[k], t)' <=> Wrap(h2[k - 1], w2[k], t)
      BY <1>2, ConsoleSame
    <3>3. \A t \in U : Shows(h2[k - 1], w2[k], t)' = Shows(h2[k - 1], w2[k], t)
      BY <1>2, ConsoleSame
    <3> QED BY <1>6, <3>1, <3>2, <3>3 DEF Fits
  <2>2. \A t \in U : h2[0][t] = counter'[t]
    <3>1. h2[0] = h[0] /\ counter' = counter
      BY <1>2, <1>3, <1>9
    <3> QED BY <1>8, <3>1
  <2>3. Ran(h2, w2, U)'
    BY <1>2, <1>6, <1>9, <2>1, <2>2 DEF Ran, Displays
  <2>4. \A t \in U : h2[b + 1][t] = exact'[t]
    BY <1>9
  <2>5. \A t \in U : t \in due' <=> Wrapped(w2, t, b + 1)
    <3>1. \A k \in 1 .. b + 1 : k = b + 1 \/ k \in 1 .. b
      BY <1>3
    <3>2. b + 1 \in 1 .. b + 1 /\ \A k \in 1 .. b : k \in 1 .. b + 1
      BY <1>3
    <3>3. \A t \in U : Wrapped(w2, t, b + 1) <=> Wrapped(w, t, b) \/ t \in WrapSet
      BY <1>9, <3>1, <3>2 DEF Wrapped
    <3> QED BY <1>2, <1>8, <3>3
  <2>6. (\A t \in U : h2[behind][t] = exact[t] /\ (t \in due <=> Wrapped(w2, t, behind)))'
    BY <1>2, <1>6, <2>4, <2>5 DEF Wrapped
  <2> QED BY <2>3, <2>6 DEF Tracked, U
<1>12. LateIsExact
  BY <1>2, <1>3 DEF LateIsExact
<1> QED BY <1>5, <1>7, <1>11, <1>12 DEF TimerInv, U

\* and when a reload register is written: where that could make a difference to the
\* past, the timer is spoilt.
LEMMA WriteReloadKeeps ==
  ASSUME TimerInv, NEW i \in Timers, NEW val \in Reloads, WriteReload(i, val)
  PROVE  TimerInv' /\ LateIsExact
<1>1. PICK h, w : Tracked(h, w)
  BY DEF TimerInv
<1> DEFINE U == Intact
<1>2. /\ reload' = [reload EXCEPT ![i] = val]
      /\ spoilt' = IF i \in due THEN spoilt \cup {j \in Timers : j >= i} ELSE spoilt
      /\ UNCHANGED <<control, counter, behind, raised, exact, due>>
  BY DEF WriteReload
<1>3. TimTypes /\ Closed(U) /\ behind \in Nat
  BY TimerNumbers DEF TimerInv, TimTypes
<1>4. TimTypes'
  <2>1. val \in 0 .. Counts - 1
    BY TimerAssumption DEF TimerAssumption
  <2> QED BY <1>2, <1>3, <2>1 DEF TimTypes
<1>5. U' \subseteq U /\ (i \in due => \A t \in U' : t < i)
  BY <1>2 DEF Intact, Timers
<1>6. Closed(U)'
  <2>1. CASE i \in due
    <3>1. \A t \in Timers : t \in U' <=> t \in U /\ ~(t >= i)
      BY <1>2, <2>1 DEF Intact
    <3>2. \A t, j \in Timers : j <= t /\ ~(t >= i) => ~(j >= i)
      BY DEF Timers
    <3>3. U' \subseteq Timers
      BY <1>5 DEF Intact
    <3> QED BY <1>3, <3>1, <3>2, <3>3 DEF Closed
  <2>2. CASE i \notin due
    BY <1>2, <1>3, <2>2 DEF Closed, Intact
  <2> QED BY <2>1, <2>2
<1>7. /\ h \in [0 .. behind -> Displays] /\ w \in [1 .. behind -> SUBSET Timers]
      /\ \A t \in U : h[0][t] = counter[t]
      /\ \A k \in 1 .. behind : Fits(h[k - 1], w[k], U) /\ \A t \in U : h[k][t] = Shows(h[k - 1], w[k], t)
      /\ \A t \in U : h[behind][t] = exact[t] /\ (t \in due <=> Wrapped(w, t, behind))
  BY <1>1 DEF Tracked, Ran, Displays
<1> HIDE DEF U
<1>8. (\E h2, w2 : Tracked(h2, w2))'
  <2> SUFFICES ASSUME NEW CONSTANT h2, NEW CONSTANT w2, h2 = h, w2 = w
               PROVE  Tracked(h2, w2)'
    OBVIOUS
  <2>1. ASSUME NEW CONSTANT k \in 1 .. behind
        PROVE  Fits(h2[k - 1], w2[k], U)' /\ \A t \in U' : h2[k][t] = Shows(h2[k - 1], w2[k], t)'
    <3>1. Fits(h2[k - 1], w2[k], U) /\ \A t \in U : h2[k][t] = Shows(h2[k - 1], w2[k], t)
      BY <1>7
    <3>2. \A t \in U' : Wrap(h2[k - 1], w2[k], t)' <=> Wrap(h2[k - 1], w2[k], t)
      BY <1>2, ConsoleSame
    <3>3. \A t \in U' : Shows(h2[k - 1], w2[k], t)' = Shows(h2[k - 1], w2[k], t)
      <4> SUFFICES ASSUME NEW CONSTANT t \in U'
                   PROVE  Shows(h2[k - 1], w2[k], t)' = Shows(h2[k - 1], w2[k], t)
        OBVIOUS
      <4>1. t # i => reload'[t] = reload[t]
        BY <1>2, <1>3 DEF TimTypes
      <4>2. t = i => t \notin w2[k]
        <5>1. t = i => i \notin due /\ i \in U
          BY <1>5 DEF Timers
        <5> QED BY <1>7, <5>1 DEF Wrapped
      <4> QED BY <1>2, <4>1, <4>2, ConsoleSame
    <3> QED BY <1>5, <3>1, <3>2, <3>3 DEF Fits
  <2>2. \A t \in U' : h2[0][t] = counter'[t]
    BY <1>2, <1>5, <1>7
  <2>3. Ran(h2, w2, U)'
    BY <1>2, <1>7, <2>1, <2>2 DEF Ran, Displays
  <2>4. (\A t \in U : h2[behind][t] = exact[t] /\ (t \in due <=> Wrapped(w2, t, behind)))'
    BY <1>2, <1>5, <1>7 DEF Wrapped
  <2> QED BY <2>3, <2>4 DEF Tracked, U
<1>9. LateIsExact
  BY <1>2, <1>3 DEF LateIsExact
<1> QED BY <1>4, <1>6, <1>8, <1>9 DEF TimerInv, U

\* Every step of the timers keeps the invariant.
LEMMA NextTimers == TimerInv /\ TimNext => TimerInv' /\ LateIsExact
<1> SUFFICES ASSUME TimerInv, TimNext PROVE TimerInv' /\ LateIsExact
  OBVIOUS
<1>1. CASE Cycle
  BY <1>1, CycleKeeps
<1>2. CASE RunTimers
  BY <1>2, RunTimersKeeps
<1>3. ASSUME NEW i \in Timers, NEW val \in TimerSettings[i], TimerStart(i, val)
      PROVE  TimerInv' /\ LateIsExact
  BY <1>3, StartKeeps
<1>4. ASSUME NEW i \in Timers, NEW val \in Reloads, WriteReload(i, val)
      PROVE  TimerInv' /\ LateIsExact
  BY <1>4, WriteReloadKeeps
<1> QED BY <1>1, <1>2, <1>3, <1>4 DEF TimNext

\* A step of another device leaves the timers alone.
LEMMA StutterTimers == TimerInv /\ UNCHANGED timvars => TimerInv'
<1> SUFFICES ASSUME TimerInv, UNCHANGED timvars PROVE TimerInv'
  OBVIOUS
<1>1. UNCHANGED <<control, reload, counter, behind, raised, exact, due, spoilt>>
  BY DEF timvars, code
<1>2. TimTypes' /\ Closed(Intact)' /\ Intact' = Intact
  BY <1>1 DEF TimerInv, TimTypes, Closed, Intact
<1>3. ASSUME NEW CONSTANT h, NEW CONSTANT w, Tracked(h, w) PROVE Tracked(h, w)'
  <2>1. ASSUME NEW CONSTANT k \in 1 .. behind
        PROVE  Fits(h[k - 1], w[k], Intact)' /\ \A t \in Intact : h[k][t] = Shows(h[k - 1], w[k], t)'
    <3>1. Fits(h[k - 1], w[k], Intact) /\ \A t \in Intact : h[k][t] = Shows(h[k - 1], w[k], t)
      BY <1>3 DEF Tracked, Ran
    <3>2. \A t \in Intact : /\ Wrap(h[k - 1], w[k], t)' <=> Wrap(h[k - 1], w[k], t)
                            /\ Shows(h[k - 1], w[k], t)' = Shows(h[k - 1], w[k], t)
      BY <1>1, ConsoleSame
    <3> QED BY <1>2, <3>1, <3>2 DEF Fits
  <2>2. Ran(h, w, Intact)'
    BY <1>1, <1>2, <1>3, <2>1 DEF Tracked, Ran
  <2> QED BY <1>1, <1>2, <1>3, <2>2 DEF Tracked, Wrapped
<1>4. (\E h, w : Tracked(h, w))'
  BY <1>3 DEF TimerInv
<1> QED BY <1>2, <1>4 DEF TimerInv

\* The other devices leave the timers alone.
LEMMA TimerSteps == [DevNext]_devvars => TimNext \/ UNCHANGED timvars
  BY DEF DevNext, devvars, RingMoves, IPCMoves, TimersMove, GeometryMoves, SoundMoves, ProgramMoves

\* The invariant of the timers.
LEMMA TimersTracked == DevSpec => []TimerInv
<1>1. DevInit => TimerInv
  BY InitTimerInv DEF DevInit
<1>2. TimerInv /\ [DevNext]_devvars => TimerInv'
  BY TimerSteps, NextTimers, StutterTimers
<1> QED BY <1>1, <1>2, PTL DEF DevSpec

\* Running the timers late makes no difference (RunTimers, RunTimer and
\* HandleTimerOverflow of NDS.cpp): after every catch-up, however many cycles it
\* covers, whatever chains of timers count up and whatever was written since the
\* last one, each counter shows what the console's would and the interrupts
\* requested are those of the timers that overflowed; all but the timers whose
\* reload register was written between an overflow and its catch-up, and those
\* chained to them.
THEOREM LateTimersAreExact == DevSpec => TimersExact
<1>1. TimerInv /\ [DevNext]_devvars =>
        [behind > 0 /\ behind' = 0 =>
           \A i \in Timers \ spoilt :
             /\ counter'[i] = exact'[i]
             /\ i \in raised' <=> i \in due /\ control[i].irq]_timvars
  BY TimerSteps, NextTimers DEF LateIsExact
<1> QED BY <1>1, TimersTracked, PTL DEF DevSpec, TimersExact

-----------------------------------------------------------------------------
(* The types of all devices *)

\* While no programs run, the registers take any access.
AnyAccess == device # "driver" => IPCInv

\* Every device keeps its types: the ring's positions agree with its count
\* (FIFO.h), no queue or pool holds more than it can (NDS.cpp, GPU3D.cpp,
\* SPU.cpp), no counter passes its top, however many cycles RunTimers catches up.
THEOREM DevicesKeepTypes == DevSpec => []DevTypeOK
<1>1. DevSpec => []Inv
  <2>1. DevInit => Inv
    BY InitInv DEF DevInit
  <2>2. [DevNext]_devvars => [Next]_vars
    BY DEF DevNext, devvars, RingMoves, IPCMoves, TimersMove, GeometryMoves, SoundMoves, ProgramMoves
  <2> QED BY <2>1, <2>2, NextInv, PTL DEF DevSpec
<1>2. DevSpec => []AnyAccess
  <2>1. DevInit => AnyAccess
    BY InitIPCInv DEF DevInit, AnyAccess
  <2>2. AnyAccess /\ [DevNext]_devvars => AnyAccess'
    <3> SUFFICES ASSUME AnyAccess, [DevNext]_devvars, device' # "driver" PROVE IPCInv'
      BY DEF AnyAccess
    <3>1. device # "driver"
      BY DEF DevNext, devvars
    <3>2. IPCNext \/ UNCHANGED ipcvars
      BY <3>1 DEF DevNext, devvars, RingMoves, IPCMoves, TimersMove, GeometryMoves, SoundMoves,
                  ProgramMoves, drvvars
    <3> QED BY <3>1, <3>2, NextIPCInv DEF AnyAccess
  <2> QED BY <2>1, <2>2, PTL DEF DevSpec
<1>3. DevSpec => [](device \in DeviceNames)
  <2>1. DevInit => device \in DeviceNames
    BY DEF DevInit
  <2>2. device \in DeviceNames /\ [DevNext]_devvars => (device \in DeviceNames)'
    BY DEF DevNext, devvars
  <2> QED BY <2>1, <2>2, PTL DEF DevSpec
<1>4. AnyAccess => (device # "driver" => IPCTypeOK)
  BY DEF AnyAccess, IPCInv, QueuesOK, SyncOK, IrqsOK, CntType, SyncType, IPCTypeOK
<1>5. TimerInv => TimTypeOK
  BY DEF TimerInv, TimTypes, TimTypeOK, ControlValues
<1>6. GxInv => GxTypeOK
  BY StatusFollows
<1>7. /\ device \in DeviceNames /\ Inv /\ TimTypeOK /\ GxTypeOK /\ SpuTypeOK
      /\ device # "driver" => IPCTypeOK
      => DevTypeOK
  BY DEF DevTypeOK
<1> QED BY <1>1, <1>2, <1>3, <1>4, <1>5, <1>6, <1>7, GeometryInv, SoundIsKept, SoundTyped, TimersTracked, PTL
=============================================================================
