------------------------------- MODULE Timers -------------------------------
(***************************************************************************)
(* The four timers of one CPU (NDS.cpp).  A timer is not advanced while    *)
(* time passes: RunTimers catches up at the end of a slice and before a    *)
(* program reads a counter or starts a timer.  `exact' is what the timers  *)
(* of the console would show, cycle by cycle; the code is compared with it.*)
(***************************************************************************)
EXTENDS Naturals, SequencesExt

CONSTANTS
  NumTimers,      \* 4
  Unit,           \* fractions of one count a counter keeps, 2^10
  Counts,         \* counts before an overflow, 2^16
  TimerSettings,  \* TimerSettings[i]: what programs write to control register i
  Reloads,        \* what they write to the reload registers
  MaxSlice        \* bound: cycles between two catch-ups

Timers == 0 .. NumTimers - 1
Top == Counts * Unit

TimerAssumption ==
  /\ NumTimers \in Nat \ {0} /\ Unit \in Nat \ {0} /\ Counts \in Nat \ {0}
  /\ MaxSlice \in Nat /\ Reloads \subseteq 0 .. Counts - 1
  /\ \A i \in Timers : TimerSettings[i] \subseteq
       [start : BOOLEAN, countUp : BOOLEAN, irq : BOOLEAN, scale : 1 .. Unit]

ASSUME TimerAssumption

VARIABLES
  control,   \* Cnt; `scale' is the fractions a cycle adds (1 << CycleShift)
  reload,    \* Reload
  counter,   \* Counter, in fractions of a count
  behind,    \* cycles since TimerTimestamp
  raised,    \* the interrupts the last catch-up requested
  exact,     \* the counters of the console
  due,       \* timers of the console that overflowed since the last catch-up
  spoilt     \* timers whose reload was written after an overflow not yet run

code == <<control, reload, counter, behind, raised>>
timvars == <<code, exact, due, spoilt>>

\* A timer that counts cycles; one that counts the overflows of the timer
\* before it (the first has none before it and stands still).
Running(i) == control[i].start /\ ~control[i].countUp
Chained(i) == control[i].start /\ control[i].countUp

TimInit ==
  /\ control = [i \in Timers |-> [start |-> FALSE, countUp |-> FALSE, irq |-> FALSE, scale |-> 1]]
  /\ reload = [i \in Timers |-> 0] /\ counter = [i \in Timers |-> 0]
  /\ behind = 0 /\ raised = {}
  /\ exact = counter /\ due = {} /\ spoilt = {}

-----------------------------------------------------------------------------
(* The code.  s is the counters and the requested interrupts on the way. *)

Request(s, i) == [s EXCEPT !.irqs = IF control[i].irq THEN @ \cup {i} ELSE @]

\* Mutant: a timer that overflows forgets how far it went.
ForgetfulOverflow(s, i) == Request([s EXCEPT !.count[i] = reload[i] * Unit], i)

\* The timer that overflowed: the excess is added to the reload value.
OwnOverflow(s, i) == Request([s EXCEPT !.count[i] = @ - Top + reload[i] * Unit], i)

\* One link of the chain above it: a count, and on to the next if it wraps.
Carry(s, i) ==
  IF ~s.carry \/ ~Chained(i) THEN [s EXCEPT !.carry = FALSE]
  ELSE IF s.count[i] + Unit < Top
       THEN [s EXCEPT !.count[i] = @ + Unit, !.carry = FALSE]
       ELSE Request([s EXCEPT !.count[i] = reload[i] * Unit], i)

HandleTimerOverflow(s, i) ==
  FoldLeft(Carry, [OwnOverflow(s, i) EXCEPT !.carry = TRUE],
           [k \in 1 .. NumTimers - 1 - i |-> i + k])

\* While the counter is past the top; there is at most one overflow a cycle.
RunTimer(s, i) ==
  FoldLeft(LAMBDA t, k : IF t.count[i] >= Top THEN HandleTimerOverflow(t, i) ELSE t,
           [s EXCEPT !.count[i] = @ + behind * control[i].scale],
           [k \in 1 .. behind |-> k])

CaughtUp ==
  FoldLeft(LAMBDA s, i : IF Running(i) THEN RunTimer(s, i) ELSE s,
           [count |-> counter, irqs |-> {}, carry |-> FALSE],
           [k \in 1 .. NumTimers |-> k - 1])

\* Mutant: the clock is caught up, but not the counters.
NotCaughtUp == [count |-> counter, irqs |-> {}, carry |-> FALSE]

\* The state TimerStart works on.
BeforeStart == CaughtUp

-----------------------------------------------------------------------------
(* The console: which timers wrap in this cycle, and what they then show. *)

Steps(i, wraps) == IF Running(i) THEN control[i].scale
                   ELSE IF Chained(i) /\ i > 0 /\ wraps[i - 1] THEN Unit ELSE 0

Wraps == CHOOSE wraps \in [Timers -> BOOLEAN] :
           \A i \in Timers : wraps[i] <=> exact[i] + Steps(i, wraps) >= Top

Shown(i) == IF ~Wraps[i] THEN exact[i] + Steps(i, Wraps)
            ELSE reload[i] * Unit + IF Running(i) THEN exact[i] + control[i].scale - Top ELSE 0

-----------------------------------------------------------------------------

\* A cycle passes: the code does nothing, the program handles its interrupts.
Cycle == /\ behind < MaxSlice
         /\ behind' = behind + 1
         /\ exact' = [i \in Timers |-> Shown(i)]
         /\ due' = due \cup {i \in Timers : Wraps[i]}
         /\ raised' = {}
         /\ UNCHANGED <<control, reload, counter, spoilt>>

\* At the end of a slice, or before a counter is read (TimerGetCounter).
RunTimers == /\ counter' = CaughtUp.count
             /\ raised' = CaughtUp.irqs
             /\ behind' = 0 /\ due' = {}
             /\ UNCHANGED <<control, reload, exact, spoilt>>

\* A timer that was off takes its reload value.
TimerStart(i, val) ==
  LET starts == ~control[i].start /\ val.start
      From(c) == IF starts THEN [c EXCEPT ![i] = reload[i] * Unit] ELSE c
  IN /\ counter' = From(BeforeStart.count)
     /\ raised' = BeforeStart.irqs
     /\ control' = [control EXCEPT ![i] = val]
     /\ behind' = 0 /\ due' = {}
     /\ exact' = From(exact)
     /\ spoilt' = IF starts /\ i - 1 \notin spoilt THEN spoilt \ {i} ELSE spoilt
     /\ UNCHANGED reload

\* The reload register is written without catching up: an overflow that is
\* already past will take the new value, and what it carries on follows.
WriteReload(i, val) ==
  /\ val # reload[i]
  /\ reload' = [reload EXCEPT ![i] = val]
  /\ spoilt' = IF i \in due THEN spoilt \cup {j \in Timers : j >= i} ELSE spoilt
  /\ UNCHANGED <<control, counter, behind, raised, exact, due>>

TimNext == \/ Cycle
           \/ RunTimers
           \/ \E i \in Timers : \/ \E val \in TimerSettings[i] : TimerStart(i, val)
                                \/ \E val \in Reloads : WriteReload(i, val)

TimSpec == TimInit /\ [][TimNext]_timvars

-----------------------------------------------------------------------------
(* Properties *)

TimTypeOK ==
  /\ \A i \in Timers : /\ control[i].scale \in 1 .. Unit
                       /\ counter[i] \in 0 .. Top - 1 /\ exact[i] \in 0 .. Top - 1
  /\ reload \in [Timers -> 0 .. Counts - 1]
  /\ behind \in 0 .. MaxSlice
  /\ raised \subseteq Timers /\ due \subseteq Timers /\ spoilt \subseteq Timers

\* Running the timers late makes no difference: after every catch-up, however
\* many cycles it covers and whatever was written since the last, each counter
\* shows what the console's would and the interrupts requested are those of the
\* timers that overflowed.  The exception is a timer whose reload register was
\* written between an overflow and its catch-up, and the timers chained to it.
TimersExact ==
  [][behind > 0 /\ behind' = 0 =>
       \A i \in Timers \ spoilt :
         /\ counter'[i] = exact'[i]
         /\ i \in raised' <=> i \in due /\ control[i].irq]_timvars
=============================================================================
