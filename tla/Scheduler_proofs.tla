--------------------------- MODULE Scheduler_proofs ---------------------------
(***************************************************************************)
(* For every clock ratio, slice, overshoot and period: no event is missed, *)
(* none is late by more than an overshoot (or, for one case, a slice), the *)
(* CPUs stay together and sound keeps time.  The properties speak of the   *)
(* ends of passes; the invariant says what holds on the way, in each turn. *)
(***************************************************************************)
EXTENDS Scheduler, WellFoundedInduction, TLAPS

System9 == ARM9Timestamp \div ARM9Scale      \* the ARM9's time in system cycles
Target9 == ARM9Target \div ARM9Scale

\* The clocks, where RunFrame is: a turn of the ARM9 ends within an overshoot of
\* its target, and the ARM7 then has no further to go than the ARM9 went.
Clocks ==
  /\ BetweenPasses \/ pc = "pass" =>
       System9 = SysTimestamp /\ ARM7Timestamp \in SysTimestamp .. SysTimestamp + MaxCycles7 - 1
  /\ pc = "arm9" =>
       /\ CurCPU = 0
       /\ ARM9Target = Target9 * ARM9Scale
       /\ Target9 \in SysTimestamp + 1 .. SysTimestamp + MaxSlice - Overshoot - 1
       /\ SysTimestamp <= System9 /\ ARM9Timestamp < ARM9Target + MaxCycles9
       /\ ARM7Timestamp \in SysTimestamp .. SysTimestamp + MaxCycles7 - 1
  /\ pc = "arm7" =>
       /\ CurCPU = 1
       /\ System9 = target /\ target \in SysTimestamp .. SysTimestamp + MaxSlice - 1
       /\ ARM7Target <= target
       /\ ARM7Timestamp \in SysTimestamp .. target + MaxCycles7 - 1
  /\ pc = "pass" => CurCPU = 1
  /\ pc = "sleep" => SysTimestamp < target

\* The events: the slice ends before the next one, but for an event that the
\* ARM7 schedules; a pass leaves those it has looked at in the future.
EventTimes ==
  /\ NothingOverdue
  /\ pc = "arm9" => \A i \in SchedListMask : Target9 <= Timestamp[i]
  /\ pc = "arm7" => \A i \in SchedListMask :
       IF i = Event_SPITransfer THEN SysTimestamp < Timestamp[i]
                                ELSE target - Overshoot <= Timestamp[i]
  /\ LatenessBounded
  /\ pc = "pass" => \A i \in SchedListMask \ mask : SysTimestamp < Timestamp[i]
  /\ pc # "pass" => mask = {}

\* A frame begins where the last one ended, unless sleep came between.
Rested == asleep \/ wakeup
FrameStarts ==
  /\ pc = "sleep" => asleep
  /\ pc \notin {"pass", "between"} => TotalScanlines = 0
  /\ TotalScanlines # 0 /\ pc = "pass" => Event_LCD \notin SchedListMask
  /\ pc \in {"frame", "between"} /\ ~Rested => Event_LCD \notin SchedListMask
LCDTime ==
  \/ TotalScanlines # 0 /\ pc = "pass"
  \/ pc \in {"frame", "between"} /\ ~Rested
  => SysTimestamp - Overshoot <= Timestamp[Event_LCD]

\* The SPU always has its event on the list, and has mixed all samples before it.
SoundTime ==
  /\ Event_SPU \in SchedListMask
  /\ Timestamp[Event_SPU] = (samples + 1) * SpuPeriod
  /\ samples * SpuPeriod <= SysTimestamp

SchedInv == TypeOK /\ Clocks /\ EventTimes /\ FrameStarts /\ LCDTime /\ SoundTime

-----------------------------------------------------------------------------
(* Arithmetic *)

LEMMA SmallestOfNat ==
  ASSUME NEW T \in SUBSET Nat, T # {}
  PROVE  Min(T) \in T /\ \A n \in T : Min(T) <= n
<1>1. \E m \in T : \A n \in T : ~(<<n, m>> \in OpToRel(<, Nat))
  BY NatLessThanWellFounded, WFMin
<1>2. \A m, n \in T : ~(<<n, m>> \in OpToRel(<, Nat)) => m <= n
  BY DEF OpToRel
<1>3. \E m \in T : \A n \in T : m <= n
  BY <1>1, <1>2
<1> QED BY <1>3 DEF Min

LEMMA DivTimes ==
  ASSUME NEW t \in Nat, NEW n \in Nat \ {0}
  PROVE  (t * n) \div n = t /\ t * n \in Nat
OBVIOUS

LEMMA DivIs ==
  ASSUME NEW a \in Nat, NEW t \in Nat, NEW n \in Nat \ {0}, t * n <= a, a < (t + 1) * n
  PROVE  a \div n = t
OBVIOUS

\* A turn that starts before its target ends within the overshoot of it.
LEMMA DivOver ==
  ASSUME NEW a \in Nat, NEW t \in Nat, NEW n \in Nat \ {0}, NEW c \in Nat \ {0}, a < t * n + c
  PROVE  a \div n <= t + (c - 1) \div n
OBVIOUS

LEMMA DivMonotonic ==
  ASSUME NEW a \in Nat, NEW b \in Nat, NEW n \in Nat \ {0}, a <= b
  PROVE  a \div n \in Nat /\ a \div n <= b \div n
OBVIOUS

LEMMA DivNat ==
  ASSUME NEW a \in Nat, NEW n \in Nat \ {0}
  PROVE  a \div n \in Nat
OBVIOUS

LEMMA DivNext ==
  ASSUME NEW a \in Nat, NEW t \in Nat, NEW n \in Nat \ {0}, a \div n < t
  PROVE  a < t * n
OBVIOUS

LEMMA ConstantTypes ==
  /\ ARM9Scale \in Nat \ {0} /\ kMaxIterationCycles \in Nat \ {0}
  /\ kIterationCycleMargin \in Nat \ {0} /\ MaxCycles9 \in Nat \ {0} /\ MaxCycles7 \in Nat \ {0}
  /\ Overshoot \in Nat /\ MaxSlice \in Nat
  /\ MaxSlice = kMaxIterationCycles + kIterationCycleMargin + Overshoot
  /\ \A d \in {SpuPeriod, FifoPeriod, FifoDelay, HBLANK_CYCLES, LINE_CYCLES - HBLANK_CYCLES}
              \cup RtcPeriods : d \in Nat /\ d > Overshoot
  /\ \A d \in DivDelays \cup SpiDelays : d \in Nat \ {0}
  /\ FrameCycles \in Nat \ {0} /\ MaxTime \in Nat /\ OutputCapacity \in Nat
<1>1. /\ ARM9Scale \in Nat \ {0} /\ kMaxIterationCycles \in Nat \ {0}
      /\ kIterationCycleMargin \in Nat \ {0} /\ MaxCycles9 \in Nat \ {0} /\ MaxCycles7 \in Nat \ {0}
      /\ FrameCycles \in Nat \ {0} /\ MaxTime \in Nat /\ OutputCapacity \in Nat
  BY ClockAssumption, DelayAssumption, FrameAssumption
<1>2. Overshoot \in Nat
  BY <1>1, DivMonotonic DEF Overshoot
<1> QED BY <1>1, <1>2, DelayAssumption DEF MaxSlice

-----------------------------------------------------------------------------
(* The list and the wakeups *)

\* What a new event does to the targets.
LEMMA RescheduleShortens ==
  ASSUME TypeOK, NEW ts \in Nat, Reschedule(ts)
  PROVE  /\ ARM9Target' \in Nat /\ ARM7Target' \in Nat
         /\ CurCPU = 1 => ARM7Target' <= ARM7Target /\ UNCHANGED ARM9Target
         /\ CurCPU = 0 /\ ARM9Target = Target9 * ARM9Scale
              => /\ ARM9Target' = Target9' * ARM9Scale /\ Target9' <= ts /\ Target9' <= Target9
                 /\ Target9' = ts \/ UNCHANGED ARM9Target
<1>1. ARM9Scale \in Nat \ {0} /\ ARM9Target \in Nat /\ ARM7Target \in Nat /\ Target9 \in Nat
  BY ConstantTypes, DivMonotonic DEF TypeOK, Target9
<1>2. CASE CurCPU = 0 /\ ts < Target9
  <2>1. ARM9Target' = ts * ARM9Scale /\ ARM7Target' = ARM7Target
    BY <1>2 DEF Reschedule, Target9
  <2>2. Target9' = ts /\ ARM9Target' \in Nat
    BY <1>1, <2>1, DivTimes DEF Target9
  <2> QED BY <1>1, <1>2, <2>1, <2>2
<1>3. CASE CurCPU = 0 /\ ~(ts < Target9)
  <2>1. ARM9Target' = ARM9Target /\ ARM7Target' = ARM7Target
    BY <1>3 DEF Reschedule, Target9
  <2> QED BY <1>1, <1>3, <2>1 DEF Target9
<1>4. CASE CurCPU = 1
  BY <1>1, <1>4 DEF Reschedule, Earlier
<1> QED BY <1>2, <1>3, <1>4 DEF TypeOK

LEMMA ScheduleAdds ==
  ASSUME TypeOK, NEW on \in SUBSET Events, NEW i \in Events \ on, NEW ts \in Nat, ScheduleOn(on, i, ts)
  PROVE  /\ SchedListMask' = on \cup {i} /\ SchedListMask' \in SUBSET Events
         /\ Timestamp' \in [Events -> Nat]
         /\ Timestamp'[i] = ts /\ \A j \in Events \ {i} : Timestamp'[j] = Timestamp[j]
         /\ Reschedule(ts) /\ ARM9Target' \in Nat /\ ARM7Target' \in Nat
BY RescheduleShortens DEF ScheduleOn, TypeOK

LEMMA FromNowType ==
  ASSUME TypeOK, NEW d \in Nat
  PROVE  /\ FromNow(d) \in Nat
         /\ FromNow(d) = IF CurCPU = 0 THEN System9 + d ELSE ARM7Timestamp + d
<1>1. System9 \in Nat /\ ARM7Timestamp \in Nat
  BY ConstantTypes, DivMonotonic DEF TypeOK, System9
<1> QED BY <1>1 DEF FromNow, System9

LEMMA StartScanlineAdds ==
  ASSUME TypeOK, NEW on \in SUBSET (Events \ {Event_LCD}), NEW n, StartScanline(on, n)
  PROVE  /\ SchedListMask' \in SUBSET Events /\ on \cup {Event_LCD} \subseteq SchedListMask'
         /\ Timestamp' \in [Events -> Nat]
         /\ \A j \in SchedListMask' :
              \/ j \in on /\ Timestamp'[j] = Timestamp[j]
              \/ j = Event_LCD /\ Timestamp'[j] = Timestamp[j] + HBLANK_CYCLES
              \/ j = Event_DisplayFIFO /\ Timestamp'[j] = FromNow(FifoDelay)
         /\ Timestamp'[Event_SPU] = Timestamp[Event_SPU]
         /\ ARM9Target' \in Nat /\ ARM7Target' \in Nat
         /\ CurCPU = 1 => ARM7Target' <= ARM7Target
         /\ lcdFunc' = "StartHBlank" /\ line' = n
         /\ \E irq \in BOOLEAN : Wake(irq)
<1>1. PICK fifo \in BOOLEAN, irq \in BOOLEAN :
        LET hblank == Periodic(Event_LCD, HBLANK_CYCLES)
            new == fifo /\ Event_DisplayFIFO \notin on
        IN /\ SchedListMask' = on \cup {Event_LCD} \cup (IF new THEN {Event_DisplayFIFO} ELSE {})
           /\ Timestamp' = [i \in Events |->
                              IF i = Event_LCD THEN hblank
                              ELSE IF i = Event_DisplayFIFO /\ new THEN FromNow(FifoDelay)
                              ELSE Timestamp[i]]
           /\ lcdFunc' = "StartHBlank" /\ line' = n
           /\ Reschedule(IF new THEN Earlier(hblank, FromNow(FifoDelay)) ELSE hblank)
           /\ Wake(irq)
  BY DEF StartScanline
<1> DEFINE hblank == Periodic(Event_LCD, HBLANK_CYCLES)
           new == fifo /\ Event_DisplayFIFO \notin on
<1>2. hblank \in Nat /\ FromNow(FifoDelay) \in Nat /\ hblank = Timestamp[Event_LCD] + HBLANK_CYCLES
  <2>1. HBLANK_CYCLES \in Nat /\ FifoDelay \in Nat
    BY ConstantTypes
  <2>2. FromNow(FifoDelay) \in Nat
    BY <2>1, FromNowType
  <2>3. Timestamp[Event_LCD] \in Nat
    BY DEF TypeOK, Events
  <2> QED BY <2>1, <2>2, <2>3 DEF Periodic
<1>3. (IF new THEN Earlier(hblank, FromNow(FifoDelay)) ELSE hblank) \in Nat
  BY <1>2 DEF Earlier
<1>4. /\ ARM9Target' \in Nat /\ ARM7Target' \in Nat
      /\ CurCPU = 1 => ARM7Target' <= ARM7Target
  BY <1>1, <1>3, RescheduleShortens
<1>5. Timestamp' \in [Events -> Nat]
  BY <1>1, <1>2 DEF TypeOK
<1>6. \A j \in SchedListMask' :
        \/ j \in on /\ Timestamp'[j] = Timestamp[j]
        \/ j = Event_LCD /\ Timestamp'[j] = Timestamp[j] + HBLANK_CYCLES
        \/ j = Event_DisplayFIFO /\ Timestamp'[j] = FromNow(FifoDelay)
  BY <1>1, <1>2 DEF Events, Event_LCD, Event_DisplayFIFO
<1>7. Timestamp'[Event_SPU] = Timestamp[Event_SPU]
  BY <1>1 DEF Events, Event_LCD, Event_DisplayFIFO, Event_SPU
<1>8. SchedListMask' \in SUBSET Events /\ on \cup {Event_LCD} \subseteq SchedListMask'
  BY <1>1 DEF Events
<1> QED BY <1>1, <1>4, <1>5, <1>6, <1>7, <1>8

LEMMA WakeRests ==
  ASSUME NEW irq \in BOOLEAN, asleep \in BOOLEAN, wakeup \in BOOLEAN, Wake(irq)
  PROVE  asleep' \in BOOLEAN /\ wakeup' \in BOOLEAN /\ (Rested' <=> Rested)
BY DEF Wake, Rested

-----------------------------------------------------------------------------
(* The invariant *)

LEMMA InitSchedInv == Init => SchedInv
<1> SUFFICES ASSUME Init PROVE SchedInv
  OBVIOUS
<1>1. PICK d \in RtcPeriods :
        Timestamp = [i \in Events |-> CASE i = Event_SPU -> SpuPeriod
                                        [] i = Event_RTC -> d
                                        [] OTHER -> 0]
  BY DEF Init
<1>2. SpuPeriod \in Nat /\ SpuPeriod > 0 /\ d \in Nat /\ d > 0 /\ OutputCapacity \in Nat
  BY ConstantTypes
<1>3. /\ Timestamp \in [Events -> Nat]
      /\ Timestamp[Event_SPU] = SpuPeriod /\ Timestamp[Event_RTC] = d
  BY <1>1, <1>2 DEF Events, Event_SPU, Event_RTC
<1>4. System9 = 0 /\ MaxCycles7 \in Nat \ {0} /\ Overshoot \in Nat
  BY ConstantTypes DEF Init, System9
<1>5. TypeOK
  <2>1. SchedListMask \in SUBSET Events /\ mask \in SUBSET SchedListMask
    BY DEF Init, Events, Sleepless
  <2>2. asleep \in BOOLEAN /\ wakeup \in BOOLEAN
    BY DEF Init
  <2> QED BY <1>2, <1>3, <2>1, <2>2 DEF Init, TypeOK
<1>6. Clocks
  BY <1>4 DEF Init, Clocks, BetweenPasses
<1>7. EventTimes
  BY <1>2, <1>3 DEF Init, EventTimes, NothingOverdue, LatenessBounded, Sleepless
<1>8. FrameStarts
  BY DEF Init, FrameStarts, Sleepless, Event_LCD, Event_SPU, Event_RTC
<1>9. LCDTime
  BY <1>1, <1>2, <1>4 DEF Init, LCDTime, Events, Event_LCD, Event_SPU, Event_RTC
<1>10. SoundTime
  BY <1>2, <1>3 DEF Init, SoundTime, Sleepless
<1> QED BY <1>5, <1>6, <1>7, <1>8, <1>9, <1>10 DEF SchedInv

\* What the invariant gives every step that runs between passes.
LEMMA Numbers ==
  ASSUME SchedInv
  PROVE  /\ SysTimestamp \in Nat /\ ARM9Timestamp \in Nat /\ ARM9Target \in Nat
         /\ ARM7Timestamp \in Nat /\ ARM7Target \in Nat /\ target \in Nat /\ samples \in Nat
         /\ System9 \in Nat /\ Target9 \in Nat
         /\ \A i \in Events : Timestamp[i] \in Nat
BY ConstantTypes, DivMonotonic DEF SchedInv, TypeOK, System9, Target9

LEMMA StartAwakeKeeps == SchedInv /\ StartAwake => SchedInv'
<1> SUFFICES ASSUME SchedInv, StartAwake PROVE SchedInv'
  OBVIOUS
<1> USE DEF SchedInv
<1>1. /\ SysTimestamp \in Nat /\ System9 = SysTimestamp
      /\ ARM7Timestamp \in SysTimestamp .. SysTimestamp + MaxCycles7 - 1
      /\ UNCHANGED <<SysTimestamp, System9, ARM7Timestamp, samples>>
  BY Numbers DEF StartAwake, Clocks, BetweenPasses, System9, clocks, output
<1>2. TotalScanlines' = 0 /\ pc' = "slice" /\ mask' = {} /\ UNCHANGED mask
  BY DEF StartAwake, FrameStarts, EventTimes
<1>3. CASE wakeup
  <2>1. UNCHANGED <<SchedListMask, Timestamp, lcdFunc, line, ARM9Target, ARM7Target>>
    BY <1>3 DEF StartAwake, list, lcd, targets
  <2>2. TypeOK'
    BY <1>2, <1>3, <2>1 DEF StartAwake, TypeOK, clocks, output
  <2>3. EventTimes'
    BY <1>1, <1>2, <2>1 DEF StartAwake, EventTimes, NothingOverdue, LatenessBounded, BetweenPasses
  <2>4. Clocks'
    BY <1>1, <1>2, ConstantTypes DEF Clocks, BetweenPasses
  <2>5. FrameStarts' /\ LCDTime'
    BY <1>2 DEF FrameStarts, LCDTime
  <2>6. SoundTime'
    BY <1>1, <2>1 DEF SoundTime
  <2> QED BY <2>2, <2>3, <2>4, <2>5, <2>6
<1>4. CASE ~wakeup
  <2>1. StartScanline(SchedListMask, 0) /\ ~Rested
    BY <1>4 DEF StartAwake, Rested
  <2>2. SchedListMask \in SUBSET (Events \ {Event_LCD})
    BY <2>1 DEF StartAwake, FrameStarts, TypeOK
  <2>3. /\ SchedListMask' \in SUBSET Events /\ SchedListMask \subseteq SchedListMask'
        /\ Timestamp' \in [Events -> Nat]
        /\ \A j \in SchedListMask' :
             \/ j \in SchedListMask /\ Timestamp'[j] = Timestamp[j]
             \/ j = Event_LCD /\ Timestamp'[j] = Timestamp[j] + HBLANK_CYCLES
             \/ j = Event_DisplayFIFO /\ Timestamp'[j] = FromNow(FifoDelay)
        /\ Timestamp'[Event_SPU] = Timestamp[Event_SPU]
        /\ ARM9Target' \in Nat /\ ARM7Target' \in Nat
        /\ lcdFunc' = "StartHBlank" /\ line' = 0
    BY <2>1, <2>2, StartScanlineAdds
  <2>4. asleep' \in BOOLEAN /\ wakeup' \in BOOLEAN
    BY <2>1, <2>2, StartScanlineAdds, WakeRests DEF TypeOK
  <2>5. TypeOK'
    BY <1>2, <2>3, <2>4 DEF StartAwake, TypeOK, clocks, output
  <2>6. SysTimestamp < FromNow(FifoDelay)
    BY <1>1, ConstantTypes, FromNowType
  <2>7. SysTimestamp < Timestamp[Event_LCD] + HBLANK_CYCLES
    <3>1. SysTimestamp - Overshoot <= Timestamp[Event_LCD] /\ Timestamp[Event_LCD] \in Nat
      BY <2>1, Numbers DEF StartAwake, LCDTime, Events
    <3> QED BY <1>1, <3>1, ConstantTypes
  <2>8. \A j \in SchedListMask : SysTimestamp < Timestamp[j]
    BY DEF StartAwake, EventTimes, NothingOverdue, BetweenPasses
  <2>9. EventTimes'
    BY <1>1, <1>2, <2>3, <2>6, <2>7, <2>8 DEF EventTimes, NothingOverdue, LatenessBounded
  <2>10. Clocks'
    BY <1>1, <1>2, ConstantTypes DEF Clocks, BetweenPasses
  <2>11. FrameStarts' /\ LCDTime'
    BY <1>2 DEF FrameStarts, LCDTime
  <2>12. SoundTime'
    BY <1>1, <2>3 DEF SoundTime
  <2> QED BY <2>5, <2>9, <2>10, <2>11, <2>12
<1> QED BY <1>3, <1>4

LEMMA StartAsleepKeeps == SchedInv /\ StartAsleep => SchedInv'
<1> SUFFICES ASSUME SchedInv, StartAsleep PROVE SchedInv'
  OBVIOUS
<1> USE DEF SchedInv, StartAsleep, clocks, targets, list, lcd, sleep, output
<1>1. target' = SysTimestamp + FrameCycles /\ target' \in Nat /\ SysTimestamp < target'
  BY Numbers, ConstantTypes
<1>2. TypeOK'
  BY <1>1 DEF TypeOK
<1>3. Clocks'
  BY <1>1 DEF Clocks, BetweenPasses, System9
<1>4. EventTimes'
  BY DEF EventTimes, NothingOverdue, LatenessBounded, BetweenPasses
<1>5. FrameStarts' /\ LCDTime'
  BY DEF FrameStarts, LCDTime
<1>6. SoundTime'
  BY DEF SoundTime
<1> QED BY <1>2, <1>3, <1>4, <1>5, <1>6

\* The slice ends before the next event, and is as long as the code allows.
LEMMA NextTargetIs ==
  ASSUME SchedInv, BetweenPasses
  PROVE  /\ NextTarget \in SysTimestamp + 1 .. SysTimestamp + MaxSlice - Overshoot - 1
         /\ \A i \in SchedListMask : NextTarget <= Timestamp[i]
<1> DEFINE T == {Timestamp[i] : i \in SchedListMask}
<1>1. T \in SUBSET Nat /\ T # {} /\ SchedListMask # {}
  BY DEF SchedInv, TypeOK, SoundTime
<1> DEFINE m == MinEvent(SchedListMask)
<1>2. m = Min(T)
  BY <1>1 DEF MinEvent
<1>3. m \in T /\ \A n \in T : m <= n
  BY <1>1, <1>2, SmallestOfNat
<1>4. m \in Nat /\ SysTimestamp < m /\ \A i \in SchedListMask : m <= Timestamp[i]
  BY <1>1, <1>3 DEF SchedInv, EventTimes, NothingOverdue
<1> HIDE DEF m, T
<1>5. /\ SysTimestamp \in Nat /\ \A i \in SchedListMask : Timestamp[i] \in Nat
      /\ kMaxIterationCycles \in Nat \ {0} /\ kIterationCycleMargin \in Nat \ {0}
      /\ Overshoot \in Nat
      /\ MaxSlice = kMaxIterationCycles + kIterationCycleMargin + Overshoot
  BY Numbers, ConstantTypes DEF SchedInv, TypeOK
<1>6. NextTarget = IF m < SysTimestamp + kMaxIterationCycles + kIterationCycleMargin
                   THEN m ELSE SysTimestamp + kMaxIterationCycles
  BY DEF NextTarget, m
<1> QED BY <1>4, <1>5, <1>6

LEMMA StartSliceKeeps == SchedInv /\ StartSlice => SchedInv'
<1> SUFFICES ASSUME SchedInv, StartSlice PROVE SchedInv'
  OBVIOUS
<1> USE DEF SchedInv, StartSlice, clocks, list, lcd, sleep, output
<1>1. BetweenPasses
  BY DEF BetweenPasses
<1>2. /\ NextTarget \in SysTimestamp + 1 .. SysTimestamp + MaxSlice - Overshoot - 1
      /\ \A i \in SchedListMask : NextTarget <= Timestamp[i]
  BY <1>1, NextTargetIs
<1>3. ARM9Scale \in Nat \ {0} /\ MaxCycles9 \in Nat \ {0} /\ SysTimestamp \in Nat /\ ARM9Timestamp \in Nat
  BY ConstantTypes, Numbers
<1>4. NextTarget \in Nat
  BY <1>2, <1>3, ConstantTypes
<1>5. Target9' = NextTarget /\ ARM9Target' = NextTarget * ARM9Scale /\ ARM9Target' \in Nat
  BY <1>3, <1>4, DivTimes DEF Target9
<1>6. /\ System9 = SysTimestamp /\ UNCHANGED System9
      /\ ARM7Timestamp \in SysTimestamp .. SysTimestamp + MaxCycles7 - 1
  BY <1>1 DEF Clocks, System9
<1>7. ARM9Timestamp < ARM9Target' + MaxCycles9
  <2>1. ARM9Timestamp < NextTarget * ARM9Scale
    BY <1>2, <1>3, <1>4, <1>6, DivNext, ConstantTypes DEF System9
  <2> QED BY <1>3, <1>5, <2>1
<1>8. TypeOK'
  BY <1>5 DEF TypeOK
<1>9. Clocks'
  BY <1>2, <1>3, <1>5, <1>6, <1>7 DEF Clocks, BetweenPasses
<1>10. EventTimes'
  BY <1>2, <1>5 DEF EventTimes, NothingOverdue, LatenessBounded, BetweenPasses
<1>11. FrameStarts' /\ LCDTime'
  BY DEF FrameStarts, LCDTime
<1>12. SoundTime'
  BY DEF SoundTime
<1> QED BY <1>8, <1>9, <1>10, <1>11, <1>12

LEMMA NextFrameKeeps == SchedInv /\ NextFrame => SchedInv'
<1> SUFFICES ASSUME SchedInv, NextFrame PROVE SchedInv'
  OBVIOUS
<1> USE DEF SchedInv, NextFrame, clocks, targets, list, lcd, output
<1>1. asleep' \in BOOLEAN /\ wakeup' \in BOOLEAN /\ (Rested' <=> Rested)
  BY WakeRests DEF TypeOK
<1>2. TypeOK'
  BY <1>1 DEF TypeOK
<1>3. Clocks'
  BY DEF Clocks, BetweenPasses, System9
<1>4. EventTimes'
  BY DEF EventTimes, NothingOverdue, LatenessBounded, BetweenPasses
<1>5. FrameStarts' /\ LCDTime'
  BY <1>1 DEF FrameStarts, LCDTime
<1>6. SoundTime'
  BY DEF SoundTime
<1> QED BY <1>2, <1>3, <1>4, <1>5, <1>6

-----------------------------------------------------------------------------
(* The turns of the CPUs *)

\* What the ARM9's operation leaves of its target, and of the list.
LEMMA ARM9OpKeeps ==
  ASSUME SchedInv, pc = "arm9", ARM9Timestamp < ARM9Target, ARM9Op
  PROVE  /\ SchedListMask' \in SUBSET Events /\ SchedListMask \subseteq SchedListMask'
         /\ Timestamp' \in [Events -> Nat] /\ Timestamp'[Event_SPU] = Timestamp[Event_SPU]
         /\ UNCHANGED lcd /\ asleep' \in BOOLEAN /\ wakeup' \in BOOLEAN
         /\ ARM9Target' \in Nat /\ ARM7Target' \in Nat
         /\ ARM9Target' = Target9' * ARM9Scale
         /\ Target9' \in SysTimestamp + 1 .. Target9
         /\ \A i \in SchedListMask' : Target9' <= Timestamp'[i]
         /\ ARM9Timestamp < ARM9Target'
<1> USE DEF SchedInv
<1>1. /\ Target9 \in SysTimestamp + 1 .. SysTimestamp + MaxSlice - Overshoot - 1
      /\ CurCPU = 0 /\ ARM9Target = Target9 * ARM9Scale /\ SysTimestamp <= System9
      /\ \A i \in SchedListMask : Target9 <= Timestamp[i]
  BY DEF Clocks, EventTimes
<1>2. CASE UNCHANGED <<list, targets>> /\ asleep' \in BOOLEAN /\ wakeup' \in BOOLEAN
  <2>1. UNCHANGED <<SchedListMask, Timestamp, lcd, ARM9Target, ARM7Target, Target9>>
    BY <1>2 DEF list, targets, Target9
  <2> QED BY <1>1, <1>2, <2>1, Numbers, ConstantTypes DEF TypeOK
<1>3. ASSUME NEW d \in DivDelays, UNCHANGED <<lcd, sleep>>,
             ScheduleOn(SchedListMask \ {Event_Div}, Event_Div, FromNow(d))
      PROVE  /\ SchedListMask' \in SUBSET Events /\ SchedListMask \subseteq SchedListMask'
             /\ Timestamp' \in [Events -> Nat] /\ Timestamp'[Event_SPU] = Timestamp[Event_SPU]
             /\ UNCHANGED lcd /\ asleep' \in BOOLEAN /\ wakeup' \in BOOLEAN
             /\ ARM9Target' \in Nat /\ ARM7Target' \in Nat
             /\ ARM9Target' = Target9' * ARM9Scale
             /\ Target9' \in SysTimestamp + 1 .. Target9
             /\ \A i \in SchedListMask' : Target9' <= Timestamp'[i]
             /\ ARM9Timestamp < ARM9Target'
  <2> DEFINE ts == FromNow(d)
  <2>1. d \in Nat \ {0} /\ ARM9Scale \in Nat \ {0}
    BY ConstantTypes
  <2>2. ts = System9 + d /\ ts \in Nat /\ System9 < ts
    BY <1>1, <2>1, FromNowType, Numbers
  <2>3. SchedListMask \ {Event_Div} \in SUBSET Events
        /\ Event_Div \in Events \ (SchedListMask \ {Event_Div})
    BY DEF TypeOK, Events
  <2> HIDE DEF ts
  <2>4. ScheduleOn(SchedListMask \ {Event_Div}, Event_Div, ts)
    BY <1>3 DEF ts
  <2>5. /\ SchedListMask' = (SchedListMask \ {Event_Div}) \cup {Event_Div}
        /\ SchedListMask' \in SUBSET Events
        /\ Timestamp' \in [Events -> Nat]
        /\ Timestamp'[Event_Div] = ts /\ \A j \in Events \ {Event_Div} : Timestamp'[j] = Timestamp[j]
        /\ Reschedule(ts) /\ ARM9Target' \in Nat /\ ARM7Target' \in Nat
    BY <2>2, <2>3, <2>4, ScheduleAdds
  <2>6. /\ ARM9Target' = Target9' * ARM9Scale /\ Target9' <= ts /\ Target9' <= Target9
        /\ Target9' = ts \/ UNCHANGED ARM9Target
    BY <1>1, <2>2, <2>5, RescheduleShortens
  <2>7. Target9' \in Nat
    BY <2>1, <2>5, DivNat DEF Target9
  <2>8. Target9' \in SysTimestamp + 1 .. Target9
    <3>1. CASE Target9' = ts
      BY <1>1, <2>2, <2>6, <2>7, <3>1, Numbers
    <3>2. CASE UNCHANGED ARM9Target
      <4>1. Target9' = Target9
        BY <3>2 DEF Target9
      <4> QED BY <1>1, <4>1, Numbers, ConstantTypes
    <3> QED BY <2>6, <3>1, <3>2
  <2>9. \A i \in SchedListMask' : Target9' <= Timestamp'[i]
    <3>1. ASSUME NEW i \in SchedListMask', i # Event_Div PROVE Target9' <= Timestamp'[i]
      <4>1. i \in SchedListMask /\ i \in Events /\ Timestamp'[i] = Timestamp[i]
        BY <2>5, <3>1
      <4>2. Target9 <= Timestamp[i]
        BY <1>1, <4>1
      <4> QED BY <2>6, <2>7, <4>1, <4>2, Numbers
    <3> QED BY <2>5, <2>6, <3>1
  <2>10. ARM9Timestamp < ARM9Target'
    <3>1. CASE Target9' = ts
      <4>1. ARM9Timestamp < ts * ARM9Scale
        BY <2>1, <2>2, DivNext, Numbers DEF System9
      <4> QED BY <2>6, <3>1, <4>1
    <3> QED BY <2>6, <3>1
  <2>11. asleep' \in BOOLEAN /\ wakeup' \in BOOLEAN
    BY <1>3 DEF TypeOK, sleep
  <2>12. Timestamp'[Event_SPU] = Timestamp[Event_SPU] /\ SchedListMask \subseteq SchedListMask'
    BY <2>5 DEF Events, Event_SPU, Event_Div
  <2> QED BY <1>3, <2>5, <2>6, <2>8, <2>9, <2>10, <2>11, <2>12
<1>4. CASE UNCHANGED <<list, targets, sleep>>
  BY <1>2, <1>4 DEF TypeOK, sleep
<1>5. CASE Wake(TRUE) /\ UNCHANGED <<list, targets>>
  BY <1>2, <1>5, WakeRests DEF TypeOK
<1> QED BY <1>3, <1>4, <1>5 DEF ARM9Op

LEMMA ARM9StepKeeps == SchedInv /\ ARM9Step => SchedInv'
<1> SUFFICES ASSUME SchedInv, ARM9Step PROVE SchedInv'
  OBVIOUS
<1> USE DEF SchedInv
<1>1. PICK c \in 1 .. MaxCycles9 : ARM9Timestamp' = ARM9Timestamp + c
  BY DEF ARM9Step
<1>2. /\ pc = "arm9" /\ ARM9Timestamp < ARM9Target /\ ARM9Op
      /\ UNCHANGED <<pc, SysTimestamp, ARM7Timestamp, CurCPU, target, mask, TotalScanlines,
                     samples, OutputBackbuffer>>
  BY DEF ARM9Step, output
<1>3. /\ SchedListMask' \in SUBSET Events /\ SchedListMask \subseteq SchedListMask'
      /\ Timestamp' \in [Events -> Nat] /\ Timestamp'[Event_SPU] = Timestamp[Event_SPU]
      /\ UNCHANGED lcd /\ asleep' \in BOOLEAN /\ wakeup' \in BOOLEAN
      /\ ARM9Target' \in Nat /\ ARM7Target' \in Nat
      /\ ARM9Target' = Target9' * ARM9Scale
      /\ Target9' \in SysTimestamp + 1 .. Target9
      /\ \A i \in SchedListMask' : Target9' <= Timestamp'[i]
      /\ ARM9Timestamp < ARM9Target'
  BY <1>2, ARM9OpKeeps
<1>4. ARM9Timestamp' \in Nat /\ ARM9Timestamp <= ARM9Timestamp' /\ ARM9Scale \in Nat \ {0}
      /\ MaxCycles9 \in Nat \ {0}
  BY <1>1, Numbers, ConstantTypes
<1>5. System9' \in Nat /\ System9 <= System9'
  <2>1. ARM9Timestamp \in Nat
    BY Numbers
  <2> QED BY <1>4, <2>1, DivMonotonic, DivNat DEF System9
<1>6. TypeOK'
  <2>1. mask' \in SUBSET SchedListMask'
    BY <1>2, <1>3 DEF TypeOK
  <2>2. {SysTimestamp, ARM9Timestamp, ARM9Target, ARM7Timestamp, ARM7Target, target, line,
         samples}' \subseteq Nat
    <3>1. SysTimestamp' \in Nat /\ ARM7Timestamp' \in Nat /\ target' \in Nat /\ samples' \in Nat
          /\ line' \in Nat
      BY <1>2, <1>3 DEF TypeOK, lcd
    <3> QED BY <1>3, <1>4, <3>1
  <2>3. pc' = "arm9" /\ CurCPU' \in {0, 1} /\ TotalScanlines' \in {0, 263}
        /\ lcdFunc' \in {"StartScanline", "StartHBlank", "FinishFrame"}
        /\ OutputBackbuffer' \in 0 .. OutputCapacity
    BY <1>2, <1>3 DEF TypeOK, lcd
  <2> QED BY <1>3, <2>1, <2>2, <2>3 DEF TypeOK
<1>7. Clocks'
  <2>1. /\ Target9 \in SysTimestamp + 1 .. SysTimestamp + MaxSlice - Overshoot - 1
        /\ CurCPU = 0 /\ SysTimestamp <= System9
        /\ ARM7Timestamp \in SysTimestamp .. SysTimestamp + MaxCycles7 - 1
    BY <1>2 DEF Clocks
  <2>2. Target9' \in SysTimestamp + 1 .. SysTimestamp + MaxSlice - Overshoot - 1
    BY <1>3, <2>1, Numbers, ConstantTypes
  <2>3. ARM9Timestamp' < ARM9Target' + MaxCycles9
    BY <1>1, <1>3, <1>4, Numbers
  <2>4. SysTimestamp' <= System9'
    BY <1>2, <1>5, <2>1, Numbers
  <2> QED BY <1>2, <1>3, <2>1, <2>2, <2>3, <2>4 DEF Clocks, BetweenPasses
<1>8. EventTimes'
  BY <1>2, <1>3 DEF EventTimes, NothingOverdue, LatenessBounded, BetweenPasses
<1>9. FrameStarts' /\ LCDTime'
  BY <1>2 DEF FrameStarts, LCDTime
<1>10. SoundTime'
  BY <1>2, <1>3 DEF SoundTime
<1> QED BY <1>6, <1>7, <1>8, <1>9, <1>10

LEMMA ARM9HaltKeeps == SchedInv /\ ARM9Halt => SchedInv'
<1> SUFFICES ASSUME SchedInv, ARM9Halt PROVE SchedInv'
  OBVIOUS
<1> USE DEF SchedInv, ARM9Halt, targets, list, lcd, sleep, output
<1>1. /\ Target9 \in SysTimestamp + 1 .. SysTimestamp + MaxSlice - Overshoot - 1
      /\ ARM9Target = Target9 * ARM9Scale /\ UNCHANGED Target9
  BY DEF Clocks, Target9
<1>2. System9' = Target9
  BY DEF System9, Target9
<1>3. ARM9Timestamp' < ARM9Target' + MaxCycles9
  BY Numbers, ConstantTypes
<1>4. TypeOK'
  BY DEF TypeOK
<1>5. Clocks'
  BY <1>1, <1>2, <1>3, Numbers, ConstantTypes DEF Clocks, BetweenPasses
<1>6. EventTimes'
  BY <1>1 DEF EventTimes, NothingOverdue, LatenessBounded, BetweenPasses
<1>7. FrameStarts' /\ LCDTime'
  BY DEF FrameStarts, LCDTime
<1>8. SoundTime'
  BY DEF SoundTime
<1> QED BY <1>4, <1>5, <1>6, <1>7, <1>8

LEMMA ARM9DoneKeeps == SchedInv /\ ARM9Done => SchedInv'
<1> SUFFICES ASSUME SchedInv, ARM9Done PROVE SchedInv'
  OBVIOUS
<1> USE DEF SchedInv, ARM9Done, clocks, list, lcd, sleep, output
<1>1. /\ Target9 \in SysTimestamp + 1 .. SysTimestamp + MaxSlice - Overshoot - 1
      /\ ARM9Target = Target9 * ARM9Scale /\ ARM9Timestamp < ARM9Target + MaxCycles9
      /\ SysTimestamp <= System9
      /\ ARM7Timestamp \in SysTimestamp .. SysTimestamp + MaxCycles7 - 1
  BY DEF Clocks
<1>2. target' = System9 /\ ARM7Target' = System9 /\ UNCHANGED System9 /\ System9 \in Nat
  BY Numbers DEF System9
<1>3. System9 <= Target9 + Overshoot
  BY <1>1, Numbers, ConstantTypes, DivOver DEF System9, Overshoot
<1>4. TypeOK'
  BY <1>2 DEF TypeOK
<1>5. Clocks'
  <2>1. System9 \in SysTimestamp .. SysTimestamp + MaxSlice - 1
    BY <1>1, <1>2, <1>3, Numbers, ConstantTypes
  <2>2. ARM7Timestamp \in SysTimestamp .. System9 + MaxCycles7 - 1
    BY <1>1, <1>2, Numbers, ConstantTypes
  <2> QED BY <1>2, <2>1, <2>2 DEF Clocks, BetweenPasses
<1>6. EventTimes'
  <2>1. \A i \in SchedListMask : Target9 <= Timestamp[i]
    BY DEF EventTimes
  <2>2. \A i \in SchedListMask : SysTimestamp < Timestamp[i] /\ System9 - Overshoot <= Timestamp[i]
    BY <1>1, <1>2, <1>3, <2>1, Numbers, ConstantTypes DEF TypeOK
  <2> QED BY <1>2, <2>2 DEF EventTimes, NothingOverdue, LatenessBounded, BetweenPasses
<1>7. FrameStarts' /\ LCDTime'
  BY DEF FrameStarts, LCDTime
<1>8. SoundTime'
  BY DEF SoundTime
<1> QED BY <1>4, <1>5, <1>6, <1>7, <1>8

\* The same of the ARM7: the SPI transfer is the one event its turn does not end for.
LEMMA ARM7OpKeeps ==
  ASSUME SchedInv, pc = "arm7", ARM7Op
  PROVE  /\ SchedListMask' \in SUBSET Events /\ SchedListMask \subseteq SchedListMask'
         /\ Timestamp' \in [Events -> Nat]
         /\ UNCHANGED lcd /\ asleep' \in BOOLEAN /\ wakeup' \in BOOLEAN
         /\ ARM9Target' \in Nat /\ ARM7Target' \in Nat /\ ARM7Target' <= ARM7Target
         /\ \A i \in SchedListMask' :
              \/ i \in SchedListMask /\ Timestamp'[i] = Timestamp[i]
              \/ i = Event_SPITransfer /\ SysTimestamp < Timestamp'[i]
         /\ Timestamp'[Event_SPU] = Timestamp[Event_SPU]
<1> USE DEF SchedInv
<1>1. CurCPU = 1 /\ ARM7Timestamp \in SysTimestamp .. target + MaxCycles7 - 1
  BY DEF Clocks
<1>2. CASE UNCHANGED <<list, targets>> /\ asleep' \in BOOLEAN /\ wakeup' \in BOOLEAN
  BY <1>2, Numbers DEF list, targets, TypeOK
<1>3. ASSUME NEW d \in SpiDelays, UNCHANGED <<lcd, sleep>>,
             ScheduleOn(SchedListMask, Event_SPITransfer, FromNow(d))
      PROVE  /\ SchedListMask' \in SUBSET Events /\ SchedListMask \subseteq SchedListMask'
             /\ Timestamp' \in [Events -> Nat]
             /\ UNCHANGED lcd /\ asleep' \in BOOLEAN /\ wakeup' \in BOOLEAN
             /\ ARM9Target' \in Nat /\ ARM7Target' \in Nat /\ ARM7Target' <= ARM7Target
             /\ \A i \in SchedListMask' :
                  \/ i \in SchedListMask /\ Timestamp'[i] = Timestamp[i]
                  \/ i = Event_SPITransfer /\ SysTimestamp < Timestamp'[i]
             /\ Timestamp'[Event_SPU] = Timestamp[Event_SPU]
  <2> DEFINE ts == FromNow(d)
  <2>1. asleep' \in BOOLEAN /\ wakeup' \in BOOLEAN
    BY <1>3 DEF TypeOK, sleep
  <2>2. d \in Nat \ {0}
    BY ConstantTypes
  <2>3. ts \in Nat /\ SysTimestamp < ts
    BY <1>1, <2>2, FromNowType, Numbers
  <2> HIDE DEF ts
  <2>4. ScheduleOn(SchedListMask, Event_SPITransfer, ts)
    BY <1>3 DEF ts
  <2>5. CASE Event_SPITransfer \in SchedListMask
    <3>1. UNCHANGED <<SchedListMask, Timestamp, ARM9Target, ARM7Target>>
      BY <2>4, <2>5 DEF ScheduleOn, targets
    <3> QED BY <1>3, <2>1, <3>1, Numbers DEF TypeOK
  <2>6. CASE Event_SPITransfer \notin SchedListMask
    <3>1. SchedListMask \in SUBSET Events /\ Event_SPITransfer \in Events \ SchedListMask
      BY <2>6 DEF TypeOK, Events
    <3>2. /\ SchedListMask' = SchedListMask \cup {Event_SPITransfer} /\ SchedListMask' \in SUBSET Events
          /\ Timestamp' \in [Events -> Nat] /\ Timestamp'[Event_SPITransfer] = ts
          /\ \A j \in Events \ {Event_SPITransfer} : Timestamp'[j] = Timestamp[j]
          /\ Reschedule(ts) /\ ARM9Target' \in Nat /\ ARM7Target' \in Nat
      BY <2>3, <2>4, <3>1, ScheduleAdds
    <3>3. ARM7Target' <= ARM7Target
      BY <1>1, <2>3, <3>2, RescheduleShortens
    <3>4. Timestamp'[Event_SPU] = Timestamp[Event_SPU]
      BY <3>2 DEF Events, Event_SPU, Event_SPITransfer
    <3>5. \A i \in SchedListMask' :
                  \/ i \in SchedListMask /\ Timestamp'[i] = Timestamp[i]
                  \/ i = Event_SPITransfer /\ SysTimestamp < Timestamp'[i]
      BY <2>3, <2>6, <3>2
    <3> QED BY <1>3, <2>1, <3>2, <3>3, <3>4, <3>5
  <2> QED BY <2>5, <2>6
<1>4. CASE UNCHANGED <<list, targets, sleep>>
  BY <1>2, <1>4 DEF TypeOK, sleep
<1>5. CASE Wake(TRUE) /\ UNCHANGED <<list, targets>>
  BY <1>2, <1>5, WakeRests DEF TypeOK
<1>6. CASE asleep' = TRUE /\ UNCHANGED <<wakeup, list, targets>>
  BY <1>2, <1>6 DEF TypeOK
<1> QED BY <1>3, <1>4, <1>5, <1>6 DEF ARM7Op

LEMMA ARM7StepKeeps == SchedInv /\ ARM7Step => SchedInv'
<1> SUFFICES ASSUME SchedInv, ARM7Step PROVE SchedInv'
  OBVIOUS
<1> USE DEF SchedInv
<1>1. PICK c \in 1 .. MaxCycles7 : ARM7Timestamp' = ARM7Timestamp + c
  BY DEF ARM7Step
<1>2. /\ pc = "arm7" /\ ARM7Timestamp < target /\ ARM7Op
      /\ UNCHANGED <<pc, SysTimestamp, ARM9Timestamp, CurCPU, target, mask, TotalScanlines,
                     samples, OutputBackbuffer, System9>>
  BY DEF ARM7Step, output, System9
<1>3. /\ SchedListMask' \in SUBSET Events /\ SchedListMask \subseteq SchedListMask'
      /\ Timestamp' \in [Events -> Nat]
      /\ UNCHANGED lcd /\ asleep' \in BOOLEAN /\ wakeup' \in BOOLEAN
      /\ ARM9Target' \in Nat /\ ARM7Target' \in Nat /\ ARM7Target' <= ARM7Target
      /\ \A i \in SchedListMask' :
           \/ i \in SchedListMask /\ Timestamp'[i] = Timestamp[i]
           \/ i = Event_SPITransfer /\ SysTimestamp < Timestamp'[i]
      /\ Timestamp'[Event_SPU] = Timestamp[Event_SPU]
  BY <1>2, ARM7OpKeeps
<1>4. ARM7Timestamp' \in Nat /\ MaxCycles7 \in Nat \ {0}
  BY <1>1, Numbers, ConstantTypes
<1>5. TypeOK'
  <2>1. mask' \in SUBSET SchedListMask'
    BY <1>2, <1>3 DEF TypeOK
  <2>2. SysTimestamp' \in Nat /\ ARM9Timestamp' \in Nat /\ target' \in Nat /\ samples' \in Nat
        /\ line' \in Nat
    BY <1>2, <1>3 DEF TypeOK, lcd
  <2>3. pc' = "arm7" /\ CurCPU' \in {0, 1} /\ TotalScanlines' \in {0, 263}
        /\ lcdFunc' \in {"StartScanline", "StartHBlank", "FinishFrame"}
        /\ OutputBackbuffer' \in 0 .. OutputCapacity
    BY <1>2, <1>3 DEF TypeOK, lcd
  <2> QED BY <1>3, <1>4, <2>1, <2>2, <2>3 DEF TypeOK
<1>6. Clocks'
  <2>1. /\ CurCPU = 1
        /\ System9 = target /\ target \in SysTimestamp .. SysTimestamp + MaxSlice - 1
        /\ ARM7Target <= target
        /\ ARM7Timestamp \in SysTimestamp .. target + MaxCycles7 - 1
    BY <1>2 DEF Clocks
  <2>2. ARM7Timestamp' \in SysTimestamp .. target + MaxCycles7 - 1
    BY <1>1, <1>2, <1>4, <2>1, Numbers
  <2>3. ARM7Target' <= target
    BY <1>3, <2>1, Numbers
  <2> QED BY <1>2, <2>1, <2>2, <2>3 DEF Clocks, BetweenPasses
<1>7. EventTimes'
  BY <1>2, <1>3 DEF EventTimes, NothingOverdue, LatenessBounded, BetweenPasses
<1>8. FrameStarts' /\ LCDTime'
  BY <1>2 DEF FrameStarts, LCDTime
<1>9. SoundTime'
  BY <1>2, <1>3 DEF SoundTime
<1> QED BY <1>5, <1>6, <1>7, <1>8, <1>9

LEMMA ARM7HaltKeeps == SchedInv /\ ARM7Halt => SchedInv'
<1> SUFFICES ASSUME SchedInv, ARM7Halt PROVE SchedInv'
  OBVIOUS
<1> USE DEF SchedInv, ARM7Halt, targets, list, lcd, sleep, output
<1>1. TypeOK'
  BY DEF TypeOK
<1>2. Clocks'
  BY Numbers, ConstantTypes DEF Clocks, BetweenPasses, System9
<1>3. EventTimes'
  BY DEF EventTimes, NothingOverdue, LatenessBounded, BetweenPasses
<1>4. FrameStarts' /\ LCDTime'
  BY DEF FrameStarts, LCDTime
<1>5. SoundTime'
  BY DEF SoundTime
<1> QED BY <1>1, <1>2, <1>3, <1>4, <1>5

LEMMA ARM7AgainKeeps == SchedInv /\ ARM7Again => SchedInv'
<1> SUFFICES ASSUME SchedInv, ARM7Again PROVE SchedInv'
  OBVIOUS
<1> USE DEF SchedInv, ARM7Again, clocks, list, lcd, sleep, output
<1>1. TypeOK'
  BY DEF TypeOK
<1>2. Clocks'
  BY Numbers DEF Clocks, BetweenPasses, System9
<1>3. EventTimes'
  BY DEF EventTimes, NothingOverdue, LatenessBounded, BetweenPasses
<1>4. FrameStarts' /\ LCDTime'
  BY DEF FrameStarts, LCDTime
<1>5. SoundTime'
  BY DEF SoundTime
<1> QED BY <1>1, <1>2, <1>3, <1>4, <1>5

-----------------------------------------------------------------------------
(* The passes *)

LEMMA StartPassKeeps == SchedInv /\ StartPass => SchedInv'
<1> SUFFICES ASSUME SchedInv, StartPass PROVE SchedInv'
  OBVIOUS
<1> USE DEF SchedInv, StartPass, clocks, targets, list, lcd, sleep, output
<1>1. /\ CurCPU = 1 /\ System9 = target /\ target \in SysTimestamp .. SysTimestamp + MaxSlice - 1
      /\ ARM7Timestamp \in target .. target + MaxCycles7 - 1
  BY Numbers, ConstantTypes DEF Clocks
<1>2. TypeOK'
  BY DEF TypeOK
<1>3. Clocks'
  BY <1>1 DEF Clocks, BetweenPasses, System9
<1>4. EventTimes'
  <2>1. ASSUME NEW i \in SchedListMask
        PROVE  target - Timestamp[i] <= IF i = Event_SPITransfer THEN MaxSlice - 1 ELSE Overshoot
    <3>1. Timestamp[i] \in Nat
      BY Numbers DEF TypeOK
    <3>2. IF i = Event_SPITransfer THEN SysTimestamp < Timestamp[i]
                                   ELSE target - Overshoot <= Timestamp[i]
      BY DEF EventTimes
    <3> QED BY <1>1, <3>1, <3>2, Numbers, ConstantTypes
  <2> QED BY <2>1 DEF EventTimes, NothingOverdue, LatenessBounded, BetweenPasses
<1>5. FrameStarts' /\ LCDTime'
  BY DEF FrameStarts, LCDTime
<1>6. SoundTime'
  <2>1. samples * SpuPeriod \in Nat
    BY Numbers, ConstantTypes
  <2> QED BY <1>1, <2>1, Numbers DEF SoundTime
<1> QED BY <1>2, <1>3, <1>4, <1>5, <1>6

LEMMA NotDueKeeps == SchedInv /\ NotDue => SchedInv'
<1> SUFFICES ASSUME SchedInv, NotDue PROVE SchedInv'
  OBVIOUS
<1> USE DEF SchedInv, clocks, targets, list, lcd, sleep, output
<1>1. PICK i \in mask : ~Due(i) /\ mask' = mask \ {i}
  BY DEF NotDue
<1>2. /\ pc = "pass"
      /\ UNCHANGED <<pc, SysTimestamp, clocks, targets, CurCPU, target, list, sleep,
                     TotalScanlines, output>>
  BY DEF NotDue
<1>3. SysTimestamp < Timestamp[i]
  BY <1>1, Numbers DEF Due, TypeOK
<1>4. TypeOK'
  BY <1>1, <1>2 DEF TypeOK
<1>5. Clocks'
  BY <1>2 DEF Clocks, BetweenPasses, System9
<1>6. EventTimes'
  BY <1>1, <1>2, <1>3 DEF EventTimes, NothingOverdue, LatenessBounded, BetweenPasses
<1>7. FrameStarts' /\ LCDTime'
  BY <1>2 DEF FrameStarts, LCDTime
<1>8. SoundTime'
  BY <1>2 DEF SoundTime
<1> QED BY <1>4, <1>5, <1>6, <1>7, <1>8

LEMMA EndPassKeeps == SchedInv /\ EndPass => SchedInv'
<1> SUFFICES ASSUME SchedInv, EndPass PROVE SchedInv'
  OBVIOUS
<1> USE DEF SchedInv, EndPass, clocks, targets, list, lcd, sleep
<1>1. TypeOK'
  <2>1. OutputBackbuffer' \in 0 .. OutputCapacity
    BY ConstantTypes DEF TransferOutput, TypeOK
  <2>2. pc' \in {"frame", "slice", "between"}
    OBVIOUS
  <2> QED BY <2>1, <2>2 DEF TypeOK
<1>2. Clocks'
  BY DEF Clocks, BetweenPasses, System9
<1>3. EventTimes'
  BY DEF EventTimes, NothingOverdue, LatenessBounded, BetweenPasses
<1>4. FrameStarts' /\ LCDTime'
  BY DEF FrameStarts, LCDTime, Rested
<1>5. SoundTime'
  BY DEF SoundTime
<1> QED BY <1>1, <1>2, <1>3, <1>4, <1>5

\* A due event of a pass is late by less than any period.
LEMMA PeriodicIsLater ==
  ASSUME SchedInv, NEW i \in Events \ {Event_SPITransfer}, Fires(i), NEW d \in Nat, d > Overshoot
  PROVE  Periodic(i, d) \in Nat /\ Periodic(i, d) = Timestamp[i] + d /\ SysTimestamp < Periodic(i, d)
<1>1. SysTimestamp - Timestamp[i] <= Overshoot
  BY DEF SchedInv, EventTimes, LatenessBounded, Fires, First
<1> QED BY <1>1, Numbers, ConstantTypes DEF Periodic

\* What every handler keeps: the clocks, and that the events it schedules lie in
\* the future.
LEMMA FireKeeps ==
  ASSUME SchedInv, NEW i, Fires(i),
         SchedListMask' \in SUBSET Events, SchedListMask \ {i} \subseteq SchedListMask',
         \A j \in SchedListMask' : \/ j \in SchedListMask \ {i} /\ Timestamp'[j] = Timestamp[j]
                                  \/ SysTimestamp < Timestamp'[j],
         Timestamp' \in [Events -> Nat]
  PROVE  Clocks' /\ EventTimes' /\ mask' \in SUBSET SchedListMask'
<1> USE DEF SchedInv
<1>1. /\ pc = "pass" /\ i \in mask /\ mask' = mask \ {i}
      /\ UNCHANGED <<pc, SysTimestamp, ARM9Timestamp, ARM7Timestamp, CurCPU, target>>
  BY DEF Fires, First, clocks
<1>2. Clocks'
  BY <1>1 DEF Clocks, BetweenPasses, System9
<1>3. mask' \in SUBSET SchedListMask'
  BY <1>1 DEF TypeOK
<1>4. ASSUME NEW j \in mask'
      PROVE  SysTimestamp - Timestamp'[j]
               <= IF j = Event_SPITransfer THEN MaxSlice - 1 ELSE Overshoot
  <2>1. CASE Timestamp'[j] = Timestamp[j]
    BY <1>1, <1>4, <2>1 DEF EventTimes, LatenessBounded
  <2>2. CASE SysTimestamp < Timestamp'[j]
    <3>1. Timestamp'[j] \in Nat
      BY <1>3, <1>4
    <3> QED BY <2>2, <3>1, Numbers, ConstantTypes
  <2> QED BY <1>3, <1>4, <2>1, <2>2
<1>5. \A j \in SchedListMask' \ mask' : SysTimestamp < Timestamp'[j]
  BY <1>1 DEF EventTimes
<1>6. EventTimes'
  BY <1>1, <1>4, <1>5 DEF EventTimes, NothingOverdue, LatenessBounded, BetweenPasses
<1> QED BY <1>2, <1>3, <1>6

LEMMA FireAgain ==
  ASSUME SchedInv, NEW i \in Events \ {Event_SPITransfer}, Fires(i), NEW d \in Nat, d > Overshoot,
         ScheduleOn(SchedListMask \ {i}, i, Periodic(i, d))
  PROVE  /\ Clocks' /\ EventTimes' /\ mask' \in SUBSET SchedListMask'
         /\ SchedListMask' = SchedListMask /\ SchedListMask' \in SUBSET Events
         /\ Timestamp' \in [Events -> Nat] /\ Timestamp'[i] = Timestamp[i] + d
         /\ \A j \in Events \ {i} : Timestamp'[j] = Timestamp[j]
         /\ ARM9Target' \in Nat /\ ARM7Target' \in Nat
<1> USE DEF SchedInv
<1>1. /\ Periodic(i, d) \in Nat /\ Periodic(i, d) = Timestamp[i] + d
      /\ SysTimestamp < Periodic(i, d)
  BY PeriodicIsLater
<1>2. i \in SchedListMask /\ SchedListMask \ {i} \in SUBSET Events /\ i \in Events \ (SchedListMask \ {i})
  BY DEF Fires, First, TypeOK
<1> DEFINE ts == Periodic(i, d)
<1>3. ts = Periodic(i, d)
  OBVIOUS
<1> HIDE DEF ts
<1>4. /\ SchedListMask' = (SchedListMask \ {i}) \cup {i} /\ SchedListMask' \in SUBSET Events
      /\ Timestamp' \in [Events -> Nat]
      /\ Timestamp'[i] = ts /\ \A j \in Events \ {i} : Timestamp'[j] = Timestamp[j]
      /\ ARM9Target' \in Nat /\ ARM7Target' \in Nat
  BY <1>1, <1>2, <1>3, ScheduleAdds
<1>5. \A j \in SchedListMask' : \/ j \in SchedListMask \ {i} /\ Timestamp'[j] = Timestamp[j]
                               \/ SysTimestamp < Timestamp'[j]
  BY <1>1, <1>2, <1>3, <1>4
<1>6. SchedListMask' = SchedListMask
  BY <1>2, <1>4
<1>7. Clocks' /\ EventTimes' /\ mask' \in SUBSET SchedListMask'
  BY <1>4, <1>5, <1>6, FireKeeps
<1> QED BY <1>1, <1>3, <1>4, <1>6, <1>7

LEMMA FireSPUKeeps == SchedInv /\ FireSPU => SchedInv'
<1> SUFFICES ASSUME SchedInv, FireSPU PROVE SchedInv'
  OBVIOUS
<1> USE DEF SchedInv
<1>1. /\ Fires(Event_SPU) /\ Mix /\ UNCHANGED <<lcd, sleep, TotalScanlines>>
      /\ ScheduleOn(SchedListMask \ {Event_SPU}, Event_SPU, Periodic(Event_SPU, SpuPeriod))
  BY DEF FireSPU
<1>2. Event_SPU \in Events \ {Event_SPITransfer} /\ SpuPeriod \in Nat /\ SpuPeriod > Overshoot
  BY ConstantTypes DEF Events, Event_SPU, Event_SPITransfer
<1>3. /\ Clocks' /\ EventTimes' /\ mask' \in SUBSET SchedListMask'
      /\ SchedListMask' = SchedListMask /\ SchedListMask' \in SUBSET Events
      /\ Timestamp' \in [Events -> Nat] /\ Timestamp'[Event_SPU] = Timestamp[Event_SPU] + SpuPeriod
      /\ \A j \in Events \ {Event_SPU} : Timestamp'[j] = Timestamp[j]
      /\ ARM9Target' \in Nat /\ ARM7Target' \in Nat
  BY <1>1, <1>2, FireAgain
<1>4. /\ pc = "pass" /\ Timestamp[Event_SPU] <= SysTimestamp
      /\ UNCHANGED <<pc, SysTimestamp, ARM9Timestamp, ARM7Timestamp, CurCPU, target>>
  BY <1>1 DEF Fires, Due, clocks
<1>5. TypeOK'
  <2>1. samples' \in Nat /\ OutputBackbuffer' \in 0 .. OutputCapacity
    BY <1>1, ConstantTypes DEF TypeOK, Mix, Earlier
  <2>2. /\ lcdFunc' \in {"StartScanline", "StartHBlank", "FinishFrame"} /\ line' \in Nat
        /\ asleep' \in BOOLEAN /\ wakeup' \in BOOLEAN /\ TotalScanlines' \in {0, 263}
    BY <1>1 DEF TypeOK, lcd, sleep
  <2> QED BY <1>3, <1>4, <2>1, <2>2 DEF TypeOK
<1>6. FrameStarts' /\ LCDTime'
  <2>1. Timestamp'[Event_LCD] = Timestamp[Event_LCD]
    BY <1>3 DEF Events, Event_LCD, Event_SPU
  <2> QED BY <1>1, <1>3, <1>4, <2>1 DEF FrameStarts, LCDTime
<1>7. SoundTime'
  <2>1. samples' = samples + 1 /\ samples \in Nat
    BY <1>1, Numbers DEF Mix
  <2>2. (samples' + 1) * SpuPeriod = (samples + 1) * SpuPeriod + SpuPeriod
    BY <1>2, <2>1
  <2> QED BY <1>3, <1>4, <2>1, <2>2 DEF SoundTime
<1> QED BY <1>3, <1>5, <1>6, <1>7

\* A handler that takes its event off the list, or leaves it there, and changes
\* nothing that the frame and the sound depend on.
LEMMA FireOther ==
  ASSUME SchedInv, NEW i \in Events \ {Event_LCD, Event_SPU}, Fires(i),
         Clocks', EventTimes', mask' \in SUBSET SchedListMask',
         SchedListMask' \in SUBSET SchedListMask, SchedListMask \ {i} \subseteq SchedListMask',
         Timestamp' \in [Events -> Nat], \A j \in Events \ {i} : Timestamp'[j] = Timestamp[j],
         ARM9Target' \in Nat, ARM7Target' \in Nat, asleep' \in BOOLEAN, wakeup' \in BOOLEAN,
         UNCHANGED <<lcd, TotalScanlines, output>>
  PROVE  SchedInv'
<1> USE DEF SchedInv
<1>1. /\ pc = "pass"
      /\ UNCHANGED <<pc, SysTimestamp, ARM9Timestamp, ARM7Timestamp, CurCPU, target>>
  BY DEF Fires, clocks
<1>2. TypeOK'
  <2>1. samples' \in Nat /\ OutputBackbuffer' \in 0 .. OutputCapacity
    BY DEF TypeOK, output
  <2>2. /\ lcdFunc' \in {"StartScanline", "StartHBlank", "FinishFrame"} /\ line' \in Nat
        /\ TotalScanlines' \in {0, 263}
    BY DEF TypeOK, lcd
  <2>3. SchedListMask' \in SUBSET Events
    BY DEF TypeOK
  <2> QED BY <1>1, <2>1, <2>2, <2>3 DEF TypeOK
<1>3. FrameStarts' /\ LCDTime'
  <2>1. Timestamp'[Event_LCD] = Timestamp[Event_LCD]
    BY DEF Events
  <2> QED BY <1>1, <2>1 DEF FrameStarts, LCDTime
<1>4. SoundTime'
  <2>1. Timestamp'[Event_SPU] = Timestamp[Event_SPU]
    BY DEF Events
  <2> QED BY <1>1, <2>1 DEF SoundTime, output
<1> QED BY <1>2, <1>3, <1>4

LEMMA FireRTCKeeps == SchedInv /\ FireRTC => SchedInv'
<1> SUFFICES ASSUME SchedInv, FireRTC PROVE SchedInv'
  OBVIOUS
<1> USE DEF SchedInv
<1>1. PICK d \in RtcPeriods, irq \in BOOLEAN :
        /\ ScheduleOn(SchedListMask \ {Event_RTC}, Event_RTC, Periodic(Event_RTC, d))
        /\ Wake(irq)
  BY DEF FireRTC
<1>2. Fires(Event_RTC) /\ UNCHANGED <<lcd, TotalScanlines, output>>
  BY DEF FireRTC
<1>3. /\ Event_RTC \in Events \ {Event_SPITransfer} /\ Event_RTC \in Events \ {Event_LCD, Event_SPU}
      /\ d \in Nat /\ d > Overshoot
  BY ConstantTypes DEF Events, Event_RTC, Event_SPITransfer, Event_LCD, Event_SPU
<1>4. /\ Clocks' /\ EventTimes' /\ mask' \in SUBSET SchedListMask'
      /\ SchedListMask' = SchedListMask /\ Timestamp' \in [Events -> Nat]
      /\ \A j \in Events \ {Event_RTC} : Timestamp'[j] = Timestamp[j]
      /\ ARM9Target' \in Nat /\ ARM7Target' \in Nat
  BY <1>1, <1>2, <1>3, FireAgain
<1>5. asleep' \in BOOLEAN /\ wakeup' \in BOOLEAN
  BY <1>1, WakeRests DEF TypeOK
<1> QED BY <1>2, <1>3, <1>4, <1>5, FireOther

LEMMA FireDisplayFIFOKeeps == SchedInv /\ FireDisplayFIFO => SchedInv'
<1> SUFFICES ASSUME SchedInv, FireDisplayFIFO PROVE SchedInv'
  OBVIOUS
<1> USE DEF SchedInv
<1>1. Fires(Event_DisplayFIFO) /\ UNCHANGED <<lcd, sleep, TotalScanlines, output>>
  BY DEF FireDisplayFIFO
<1>2. /\ Event_DisplayFIFO \in Events \ {Event_SPITransfer}
      /\ Event_DisplayFIFO \in Events \ {Event_LCD, Event_SPU}
      /\ FifoPeriod \in Nat /\ FifoPeriod > Overshoot
  BY ConstantTypes DEF Events, Event_DisplayFIFO, Event_SPITransfer, Event_LCD, Event_SPU
<1>3. asleep' \in BOOLEAN /\ wakeup' \in BOOLEAN
  BY <1>1 DEF TypeOK, sleep
<1>4. CASE ScheduleOn(SchedListMask \ {Event_DisplayFIFO}, Event_DisplayFIFO,
                      Periodic(Event_DisplayFIFO, FifoPeriod))
  <2>1. /\ Clocks' /\ EventTimes' /\ mask' \in SUBSET SchedListMask'
        /\ SchedListMask' = SchedListMask
        /\ Timestamp' \in [Events -> Nat]
        /\ \A j \in Events \ {Event_DisplayFIFO} : Timestamp'[j] = Timestamp[j]
        /\ ARM9Target' \in Nat /\ ARM7Target' \in Nat
    BY <1>1, <1>2, <1>4, FireAgain
  <2> QED BY <1>1, <1>2, <1>3, <2>1, FireOther
<1>5. CASE /\ SchedListMask' = SchedListMask \ {Event_DisplayFIFO}
           /\ UNCHANGED <<Timestamp, targets>>
  <2>1. /\ SchedListMask' \in SUBSET Events /\ Timestamp' \in [Events -> Nat]
        /\ ARM9Target' \in Nat /\ ARM7Target' \in Nat
    BY <1>5 DEF TypeOK, targets
  <2>2. Clocks' /\ EventTimes' /\ mask' \in SUBSET SchedListMask'
    BY <1>1, <1>5, <2>1, FireKeeps
  <2> QED BY <1>1, <1>2, <1>3, <1>5, <2>1, <2>2, FireOther
<1> QED BY <1>4, <1>5 DEF FireDisplayFIFO

LEMMA FireOnceKeeps == SchedInv /\ FireOnce => SchedInv'
<1> SUFFICES ASSUME SchedInv, FireOnce PROVE SchedInv'
  OBVIOUS
<1> USE DEF SchedInv
<1>1. PICK i \in {Event_SPITransfer, Event_Div}, irq \in BOOLEAN :
        /\ Fires(i) /\ SchedListMask' = SchedListMask \ {i} /\ Wake(irq)
        /\ UNCHANGED <<Timestamp, lcd, targets, TotalScanlines, output>>
  BY DEF FireOnce
<1>2. i \in Events \ {Event_LCD, Event_SPU}
  BY DEF Events, Event_SPITransfer, Event_Div, Event_LCD, Event_SPU
<1>3. asleep' \in BOOLEAN /\ wakeup' \in BOOLEAN
  BY <1>1, WakeRests DEF TypeOK
<1>4. /\ SchedListMask' \in SUBSET Events /\ Timestamp' \in [Events -> Nat]
      /\ ARM9Target' \in Nat /\ ARM7Target' \in Nat
  BY <1>1 DEF TypeOK, targets
<1>5. Clocks' /\ EventTimes' /\ mask' \in SUBSET SchedListMask'
  BY <1>1, <1>4, FireKeeps
<1> QED BY <1>1, <1>2, <1>3, <1>4, <1>5, FireOther

LEMMA FireStartScanlineKeeps == SchedInv /\ FireStartScanline => SchedInv'
<1> SUFFICES ASSUME SchedInv, FireStartScanline PROVE SchedInv'
  OBVIOUS
<1> USE DEF SchedInv
<1>1. /\ Fires(Event_LCD) /\ StartScanline(SchedListMask \ {Event_LCD}, line)
      /\ UNCHANGED <<TotalScanlines, output>>
  BY DEF FireStartScanline
<1>2. /\ pc = "pass" /\ CurCPU = 1 /\ TotalScanlines = 0
      /\ ARM7Timestamp \in SysTimestamp .. SysTimestamp + MaxCycles7 - 1
      /\ UNCHANGED <<pc, SysTimestamp, ARM9Timestamp, ARM7Timestamp, CurCPU, target>>
  BY <1>1 DEF Fires, First, clocks, Clocks, FrameStarts, TypeOK
<1>3. SchedListMask \ {Event_LCD} \in SUBSET (Events \ {Event_LCD})
  BY DEF TypeOK
<1>4. /\ SchedListMask' \in SUBSET Events
      /\ (SchedListMask \ {Event_LCD}) \cup {Event_LCD} \subseteq SchedListMask'
      /\ Timestamp' \in [Events -> Nat]
      /\ \A j \in SchedListMask' :
           \/ j \in SchedListMask \ {Event_LCD} /\ Timestamp'[j] = Timestamp[j]
           \/ j = Event_LCD /\ Timestamp'[j] = Timestamp[j] + HBLANK_CYCLES
           \/ j = Event_DisplayFIFO /\ Timestamp'[j] = FromNow(FifoDelay)
      /\ Timestamp'[Event_SPU] = Timestamp[Event_SPU]
      /\ ARM9Target' \in Nat /\ ARM7Target' \in Nat
      /\ lcdFunc' = "StartHBlank" /\ line' = line
      /\ \E irq \in BOOLEAN : Wake(irq)
  BY <1>1, <1>3, StartScanlineAdds
<1>5. SysTimestamp < FromNow(FifoDelay)
  <2>1. FifoDelay \in Nat \ {0}
    BY ConstantTypes
  <2>2. FromNow(FifoDelay) = ARM7Timestamp + FifoDelay
    BY <1>2, <2>1, FromNowType
  <2> QED BY <1>2, <2>1, <2>2, Numbers
<1>6. SysTimestamp < Timestamp[Event_LCD] + HBLANK_CYCLES
  <2>1. /\ Event_LCD \in Events \ {Event_SPITransfer}
        /\ HBLANK_CYCLES \in Nat /\ HBLANK_CYCLES > Overshoot
    BY ConstantTypes DEF Events, Event_LCD, Event_SPITransfer
  <2> QED BY <1>1, <2>1, PeriodicIsLater
<1>7. Clocks' /\ EventTimes' /\ mask' \in SUBSET SchedListMask'
  BY <1>1, <1>4, <1>5, <1>6, FireKeeps
<1>8. TypeOK'
  <2>1. samples' \in Nat /\ OutputBackbuffer' \in 0 .. OutputCapacity /\ line' \in Nat
        /\ TotalScanlines' \in {0, 263}
    BY <1>1, <1>4 DEF TypeOK, output
  <2>2. asleep' \in BOOLEAN /\ wakeup' \in BOOLEAN
    BY <1>4, WakeRests DEF TypeOK
  <2> QED BY <1>2, <1>4, <1>7, <2>1, <2>2 DEF TypeOK
<1>9. FrameStarts' /\ LCDTime'
  BY <1>1, <1>2 DEF FrameStarts, LCDTime
<1>10. SoundTime'
  <2>1. Event_SPU \in SchedListMask'
    BY <1>4 DEF SoundTime, Event_SPU, Event_LCD
  <2> QED BY <1>1, <1>2, <1>4, <2>1 DEF SoundTime, output
<1> QED BY <1>7, <1>8, <1>9, <1>10

LEMMA FireStartHBlankKeeps == SchedInv /\ FireStartHBlank => SchedInv'
<1> SUFFICES ASSUME SchedInv, FireStartHBlank PROVE SchedInv'
  OBVIOUS
<1> USE DEF SchedInv
<1>1. /\ Fires(Event_LCD) /\ line' = line + 1
      /\ ScheduleOn(SchedListMask \ {Event_LCD}, Event_LCD,
                    Periodic(Event_LCD, LINE_CYCLES - HBLANK_CYCLES))
      /\ UNCHANGED <<TotalScanlines, output>>
      /\ lcdFunc' \in {"StartScanline", "FinishFrame"}
      /\ \E irq \in BOOLEAN : Wake(irq)
  BY DEF FireStartHBlank
<1>2. /\ Event_LCD \in Events \ {Event_SPITransfer}
      /\ LINE_CYCLES - HBLANK_CYCLES \in Nat /\ LINE_CYCLES - HBLANK_CYCLES > Overshoot
  BY ConstantTypes DEF Events, Event_LCD, Event_SPITransfer
<1>3. /\ Clocks' /\ EventTimes' /\ mask' \in SUBSET SchedListMask'
      /\ SchedListMask' = SchedListMask /\ SchedListMask' \in SUBSET Events
      /\ Timestamp' \in [Events -> Nat]
      /\ \A j \in Events \ {Event_LCD} : Timestamp'[j] = Timestamp[j]
      /\ ARM9Target' \in Nat /\ ARM7Target' \in Nat
  BY <1>1, <1>2, FireAgain
<1>4. /\ pc = "pass" /\ TotalScanlines = 0
      /\ UNCHANGED <<pc, SysTimestamp, ARM9Timestamp, ARM7Timestamp, CurCPU, target>>
  BY <1>1 DEF Fires, First, clocks, FrameStarts, TypeOK
<1>5. TypeOK'
  <2>1. samples' \in Nat /\ OutputBackbuffer' \in 0 .. OutputCapacity /\ line' \in Nat
        /\ TotalScanlines' \in {0, 263}
    BY <1>1 DEF TypeOK, output
  <2>2. asleep' \in BOOLEAN /\ wakeup' \in BOOLEAN
    BY <1>1, WakeRests DEF TypeOK
  <2> QED BY <1>1, <1>3, <1>4, <2>1, <2>2 DEF TypeOK
<1>6. FrameStarts' /\ LCDTime'
  BY <1>1, <1>4 DEF FrameStarts, LCDTime
<1>7. SoundTime'
  <2>1. Timestamp'[Event_SPU] = Timestamp[Event_SPU]
    BY <1>3 DEF Events, Event_SPU, Event_LCD
  <2> QED BY <1>1, <1>3, <1>4, <2>1 DEF SoundTime, output
<1> QED BY <1>3, <1>5, <1>6, <1>7

LEMMA FireFinishFrameKeeps == SchedInv /\ FireFinishFrame => SchedInv'
<1> SUFFICES ASSUME SchedInv, FireFinishFrame PROVE SchedInv'
  OBVIOUS
<1> USE DEF SchedInv
<1>1. /\ Fires(Event_LCD) /\ SchedListMask' = SchedListMask \ {Event_LCD} /\ TotalScanlines' = 263
      /\ UNCHANGED <<Timestamp, lcd, targets, sleep, output>>
  BY DEF FireFinishFrame
<1>2. SchedListMask' \in SUBSET Events /\ Timestamp' \in [Events -> Nat]
  BY <1>1 DEF TypeOK
<1>3. Clocks' /\ EventTimes' /\ mask' \in SUBSET SchedListMask'
  BY <1>1, <1>2, FireKeeps
<1>4. /\ pc = "pass" /\ Event_LCD \in mask
      /\ UNCHANGED <<pc, SysTimestamp, ARM9Timestamp, ARM7Timestamp, CurCPU, target>>
  BY <1>1 DEF Fires, First, clocks
<1>5. TypeOK'
  BY <1>1, <1>2, <1>3, <1>4 DEF TypeOK, lcd, targets, sleep, output
<1>6. FrameStarts'
  BY <1>1, <1>4 DEF FrameStarts
<1>7. LCDTime'
  <2>1. SysTimestamp - Timestamp[Event_LCD] <= Overshoot
    BY <1>4 DEF EventTimes, LatenessBounded, Event_LCD, Event_SPITransfer
  <2>2. SysTimestamp - Overshoot <= Timestamp[Event_LCD]
    BY <2>1, Numbers, ConstantTypes DEF Events
  <2> QED BY <1>1, <1>4, <2>2 DEF LCDTime
<1>8. SoundTime'
  BY <1>1, <1>4 DEF SoundTime, output, Event_SPU, Event_LCD
<1> QED BY <1>3, <1>5, <1>6, <1>7, <1>8

-----------------------------------------------------------------------------
(* Sleep mode *)

\* Asleep, time goes on to the SPU's or the RTC's next event, or the frame's end.
LEMMA SleepTime ==
  ASSUME SchedInv, pc = "sleep", NEW t, t = Earlier(MinEvent(SchedListMask \cap Sleepless), target)
  PROVE  /\ t \in Nat /\ SysTimestamp < t /\ t <= target
         /\ \A i \in SchedListMask \cap Sleepless : t <= Timestamp[i]
<1> USE DEF SchedInv
<1> DEFINE T == {Timestamp[i] : i \in SchedListMask \cap Sleepless}
           m == MinEvent(SchedListMask \cap Sleepless)
<1>1. Event_SPU \in SchedListMask \cap Sleepless /\ T \in SUBSET Nat /\ T # {}
  BY DEF TypeOK, SoundTime, Sleepless
<1>2. m = Min(T)
  BY <1>1 DEF MinEvent
<1>3. m \in T /\ \A n \in T : m <= n
  BY <1>1, <1>2, SmallestOfNat
<1>4. /\ m \in Nat /\ SysTimestamp < m
      /\ \A i \in SchedListMask \cap Sleepless : m <= Timestamp[i]
  BY <1>1, <1>3 DEF EventTimes, NothingOverdue, BetweenPasses
<1> HIDE DEF m, T
<1>5. SysTimestamp < target /\ target \in Nat /\ \A i \in SchedListMask : Timestamp[i] \in Nat
  BY Numbers DEF Clocks, TypeOK
<1>6. t = Earlier(m, target)
  BY DEF m
<1> QED BY <1>4, <1>5, <1>6 DEF Earlier

LEMMA SleepStepKeeps == SchedInv /\ SleepStep => SchedInv'
<1> SUFFICES ASSUME SchedInv, SleepStep PROVE SchedInv'
  OBVIOUS
<1> USE DEF SchedInv
<1> DEFINE t == Earlier(MinEvent(SchedListMask \cap Sleepless), target)
           due == {i \in SchedListMask : Timestamp[i] <= t}
           mixed == IF Event_SPU \in due THEN 1 ELSE 0
<1>1. PICK d \in RtcPeriods, irq \in BOOLEAN :
        /\ SysTimestamp' = t /\ ARM9Timestamp' = t * ARM9Scale /\ ARM7Timestamp' = t
        /\ Timestamp' = [i \in Events |->
               IF i \notin due THEN Timestamp[i]
               ELSE CASE i = Event_SPU -> Timestamp[i] + SpuPeriod
                      [] i = Event_RTC -> Timestamp[i] + d
                      [] OTHER -> PutOff(Timestamp[i], t - SysTimestamp)]
        /\ ARM7Target' = Min({ARM7Target} \cup {Timestamp'[i] : i \in due \cap Sleepless})
        /\ samples' = samples + mixed
        /\ TransferOutput(t >= target, Earlier(OutputBackbuffer + mixed, OutputCapacity))
        /\ Wake(irq /\ Event_RTC \in due)
        /\ IF t >= target
           THEN pc' = "between" /\ TotalScanlines' = 263
           ELSE /\ pc' = IF asleep' THEN "sleep" ELSE "frame"
                /\ UNCHANGED TotalScanlines
  BY DEF SleepStep
<1>2. pc = "sleep" /\ UNCHANGED <<ARM9Target, CurCPU, target, SchedListMask, lcd, mask>>
  BY DEF SleepStep
<1>3. /\ t \in Nat /\ SysTimestamp < t /\ t <= target
      /\ \A i \in SchedListMask \cap Sleepless : t <= Timestamp[i]
  BY <1>2, SleepTime
<1> HIDE DEF t
<1>4. /\ SpuPeriod \in Nat \ {0} /\ d \in Nat \ {0} /\ ARM9Scale \in Nat \ {0}
      /\ MaxCycles7 \in Nat \ {0} /\ OutputCapacity \in Nat
  BY ConstantTypes
<1>5. asleep /\ TotalScanlines = 0
  BY <1>2 DEF FrameStarts
<1>6. ASSUME NEW i \in Events
      PROVE  /\ Timestamp'[i] \in Nat
             /\ i \notin due => Timestamp'[i] = Timestamp[i]
             /\ i \in due /\ i = Event_SPU => Timestamp'[i] = Timestamp[i] + SpuPeriod
             /\ i \in due /\ i = Event_RTC => Timestamp'[i] = Timestamp[i] + d
             /\ i \in due /\ i \notin Sleepless => Timestamp'[i] = Timestamp[i] + (t - SysTimestamp)
  <2>1. Timestamp[i] \in Nat /\ SysTimestamp \in Nat
    BY Numbers
  <2>2. CASE i \notin due
    BY <1>1, <2>1, <2>2
  <2>3. CASE i \in due /\ i = Event_SPU
    BY <1>1, <1>4, <2>1, <2>3 DEF Sleepless, Event_SPU, Event_RTC
  <2>4. CASE i \in due /\ i = Event_RTC
    BY <1>1, <1>4, <2>1, <2>4 DEF Sleepless, Event_SPU, Event_RTC
  <2>5. CASE i \in due /\ i \notin Sleepless
    <3>1. Timestamp'[i] = Timestamp[i] + (t - SysTimestamp)
      BY <1>1, <2>5 DEF Sleepless, PutOff
    <3> QED BY <1>3, <2>1, <2>5, <3>1 DEF Sleepless
  <2> QED BY <2>2, <2>3, <2>4, <2>5 DEF Sleepless
<1>7. Timestamp' \in [Events -> Nat]
  BY <1>1, <1>6
<1>8. ARM7Target' \in Nat
  <2> DEFINE S == {ARM7Target} \cup {Timestamp'[i] : i \in due \cap Sleepless}
  <2>1. due \cap Sleepless \subseteq Events
    BY DEF TypeOK
  <2>2. S \in SUBSET Nat /\ S # {}
    BY <1>6, <2>1, Numbers
  <2> HIDE DEF S
  <2>3. Min(S) \in Nat
    BY <2>2, SmallestOfNat
  <2> QED BY <1>1, <2>3 DEF S
<1>9. asleep' \in BOOLEAN /\ wakeup' \in BOOLEAN /\ (Rested' <=> Rested) /\ Rested
  <2>1. (irq /\ Event_RTC \in due) \in BOOLEAN
    OBVIOUS
  <2> QED BY <1>1, <1>5, <2>1, WakeRests DEF TypeOK, Rested
<1>10. TypeOK'
  <2>1. samples' \in Nat
    BY <1>1, Numbers
  <2>2. OutputBackbuffer' \in 0 .. OutputCapacity
    <3>1. mixed \in {0, 1} /\ OutputBackbuffer \in 0 .. OutputCapacity
      BY DEF TypeOK
    <3> QED BY <1>1, <1>4, <3>1 DEF TransferOutput, Earlier
  <2>3. pc' \in {"sleep", "frame", "between"} /\ TotalScanlines' \in {0, 263}
    BY <1>1, <1>5
  <2>4. SysTimestamp' \in Nat /\ ARM9Timestamp' \in Nat /\ ARM7Timestamp' \in Nat
    BY <1>1, <1>3, <1>4
  <2>5. /\ target' \in Nat /\ ARM9Target' \in Nat /\ line' \in Nat /\ CurCPU' \in {0, 1}
        /\ lcdFunc' \in {"StartScanline", "StartHBlank", "FinishFrame"}
        /\ SchedListMask' \in SUBSET Events /\ mask' \in SUBSET SchedListMask'
    BY <1>2 DEF TypeOK, lcd
  <2> QED BY <1>7, <1>8, <1>9, <2>1, <2>2, <2>3, <2>4, <2>5 DEF TypeOK
<1>11. Clocks'
  <2>1. System9' = t
    BY <1>1, <1>3, <1>4, DivTimes DEF System9
  <2>2. pc' = "sleep" => t < target
    BY <1>1, <1>3, Numbers
  <2> QED BY <1>1, <1>2, <1>3, <1>4, <1>5, <2>1, <2>2 DEF Clocks, BetweenPasses
<1>12. EventTimes'
  <2>1. ASSUME NEW i \in SchedListMask PROVE t < Timestamp'[i]
    <3>1. i \in Events /\ Timestamp[i] \in Nat /\ SysTimestamp \in Nat /\ SysTimestamp < Timestamp[i]
      BY <1>2, Numbers DEF TypeOK, EventTimes, NothingOverdue, BetweenPasses
    <3>2. CASE i \notin due
      BY <1>3, <1>6, <3>1, <3>2
    <3>3. CASE i \in due /\ i \in Sleepless
      <4>1. t <= Timestamp[i]
        BY <1>3, <3>3
      <4> QED BY <1>3, <1>4, <1>6, <3>1, <3>3, <4>1 DEF Sleepless
    <3>4. CASE i \in due /\ i \notin Sleepless
      BY <1>3, <1>6, <3>1, <3>4
    <3> QED BY <3>2, <3>3, <3>4
  <2>2. pc' \in {"sleep", "frame", "between"} /\ mask' = {}
    BY <1>1, <1>2 DEF EventTimes
  <2> QED BY <1>1, <1>2, <2>1, <2>2 DEF EventTimes, NothingOverdue, LatenessBounded
<1>13. FrameStarts' /\ LCDTime'
  BY <1>1, <1>5, <1>9 DEF FrameStarts, LCDTime
<1>14. SoundTime'
  <2>1. Event_SPU \in Events /\ Event_SPU \in SchedListMask /\ Event_SPU \in Sleepless
    BY DEF SoundTime, Events, Sleepless
  <2>2. t <= Timestamp[Event_SPU]
    BY <1>3, <2>1
  <2>3. CASE Event_SPU \in due
    <3>1. samples' = samples + 1 /\ samples \in Nat /\ Timestamp[Event_SPU] <= t
      BY <1>1, <2>3, Numbers
    <3>2. Timestamp'[Event_SPU] = Timestamp[Event_SPU] + SpuPeriod
      BY <1>6, <2>1, <2>3
    <3>3. (samples' + 1) * SpuPeriod = (samples + 1) * SpuPeriod + SpuPeriod
      BY <1>4, <3>1
    <3> QED BY <1>1, <1>2, <2>1, <3>1, <3>2, <3>3 DEF SoundTime
  <2>4. CASE Event_SPU \notin due
    <3>1. samples' = samples /\ samples * SpuPeriod \in Nat
      BY <1>1, <1>4, <2>4, Numbers
    <3>2. samples * SpuPeriod <= t
      BY <1>3, <3>1, Numbers DEF SoundTime
    <3> QED BY <1>1, <1>2, <1>6, <2>1, <2>4, <3>1, <3>2 DEF SoundTime
  <2> QED BY <2>3, <2>4
<1> QED BY <1>10, <1>11, <1>12, <1>13, <1>14

-----------------------------------------------------------------------------
(* The theorems *)

LEMMA StutterKeeps == SchedInv /\ UNCHANGED vars => SchedInv'
<1> SUFFICES ASSUME SchedInv, UNCHANGED vars PROVE SchedInv'
  OBVIOUS
<1> USE DEF SchedInv, vars, clocks, targets, list, lcd, sleep, output
<1>1. TypeOK'
  BY DEF TypeOK
<1>2. Clocks'
  BY DEF Clocks, BetweenPasses, System9, Target9
<1>3. EventTimes'
  BY DEF EventTimes, NothingOverdue, LatenessBounded, BetweenPasses, Target9
<1>4. FrameStarts' /\ LCDTime' /\ SoundTime'
  BY DEF FrameStarts, LCDTime, SoundTime, Rested
<1> QED BY <1>1, <1>2, <1>3, <1>4

\* RunFrame, its turns and passes, the events' handlers and sleep mode keep SchedInv.
THEOREM SchedInvHolds == Spec => []SchedInv
<1>1. SchedInv /\ [Next]_vars => SchedInv'
  <2> SUFFICES ASSUME SchedInv, [Next]_vars PROVE SchedInv'
    OBVIOUS
  <2>1. CASE StartAwake          BY <2>1, StartAwakeKeeps
  <2>2. CASE StartAsleep         BY <2>2, StartAsleepKeeps
  <2>3. CASE StartSlice          BY <2>3, StartSliceKeeps
  <2>4. CASE NextFrame           BY <2>4, NextFrameKeeps
  <2>5. CASE ARM9Step            BY <2>5, ARM9StepKeeps
  <2>6. CASE ARM9Halt            BY <2>6, ARM9HaltKeeps
  <2>7. CASE ARM9Done            BY <2>7, ARM9DoneKeeps
  <2>8. CASE ARM7Step            BY <2>8, ARM7StepKeeps
  <2>9. CASE ARM7Halt            BY <2>9, ARM7HaltKeeps
  <2>10. CASE ARM7Again          BY <2>10, ARM7AgainKeeps
  <2>11. CASE StartPass          BY <2>11, StartPassKeeps
  <2>12. CASE NotDue             BY <2>12, NotDueKeeps
  <2>13. CASE FireSPU            BY <2>13, FireSPUKeeps
  <2>14. CASE FireRTC            BY <2>14, FireRTCKeeps
  <2>15. CASE FireDisplayFIFO    BY <2>15, FireDisplayFIFOKeeps
  <2>16. CASE FireOnce           BY <2>16, FireOnceKeeps
  <2>17. CASE FireStartScanline  BY <2>17, FireStartScanlineKeeps
  <2>18. CASE FireStartHBlank    BY <2>18, FireStartHBlankKeeps
  <2>19. CASE FireFinishFrame    BY <2>19, FireFinishFrameKeeps
  <2>20. CASE EndPass            BY <2>20, EndPassKeeps
  <2>21. CASE SleepStep          BY <2>21, SleepStepKeeps
  <2>22. CASE UNCHANGED vars     BY <2>22, StutterKeeps
  <2> QED BY <2>1, <2>2, <2>3, <2>4, <2>5, <2>6, <2>7, <2>8, <2>9, <2>10, <2>11, <2>12, <2>13,
             <2>14, <2>15, <2>16, <2>17, <2>18, <2>19, <2>20, <2>21, <2>22 DEF Next
<1> QED BY InitSchedInv, <1>1, PTL DEF Spec

\* The clocks stay natural numbers, a pass looks only at events of SchedListMask,
\* and Mix never writes past the SPU's buffer, whatever the length of a frame.
THEOREM SchedulerTypes == Spec => []TypeOK
BY SchedInvHolds, PTL DEF SchedInv

\* RunSystem and RunSystemSleep leave no event in the past, for every slice, overshoot
\* and period above the overshoot: NextTarget never lets a slice run past an event.
THEOREM NothingIsOverdue == Spec => []NothingOverdue
<1>1. SchedInv => NothingOverdue
  BY DEF SchedInv, EventTimes
<1> QED BY <1>1, SchedInvHolds, PTL

\* An event that RunSystem runs is late by an instruction's overshoot at most, or by
\* less than a slice if the ARM7 scheduled it (Reschedule shortens its target, but
\* RunFrame takes the turn again).
THEOREM LatenessIsBounded == Spec => []LatenessBounded
<1>1. SchedInv => LatenessBounded
  BY DEF SchedInv, EventTimes
<1> QED BY <1>1, SchedInvHolds, PTL

\* RunFrame keeps the CPUs together: neither is behind at the end of a pass nor ahead
\* by more than an instruction, and the ARM9 is never a whole slice ahead.
THEOREM CPUsStayInStep == Spec => []CPUsInStep
<1>1. SchedInv => CPUsInStep
  <2> SUFFICES ASSUME SchedInv PROVE CPUsInStep
    OBVIOUS
  <2> USE DEF SchedInv
  <2>1. BetweenPasses => /\ System9 = SysTimestamp
                         /\ ARM7Timestamp \in SysTimestamp .. SysTimestamp + MaxCycles7 - 1
    BY DEF Clocks
  <2>2. System9 - ARM7Timestamp < MaxSlice
    <3>1. CASE BetweenPasses \/ pc = "pass"
      BY <3>1, Numbers, ConstantTypes DEF Clocks
    <3>2. CASE pc = "arm9"
      <4>1. /\ Target9 \in SysTimestamp + 1 .. SysTimestamp + MaxSlice - Overshoot - 1
            /\ ARM9Timestamp < Target9 * ARM9Scale + MaxCycles9 /\ SysTimestamp <= ARM7Timestamp
        BY <3>2, Numbers DEF Clocks
      <4>2. System9 <= Target9 + Overshoot
        BY <4>1, Numbers, ConstantTypes, DivOver DEF System9, Overshoot
      <4> QED BY <4>1, <4>2, Numbers, ConstantTypes
    <3>3. CASE pc = "arm7"
      BY <3>3, Numbers, ConstantTypes DEF Clocks
    <3> QED BY <3>1, <3>2, <3>3 DEF TypeOK, BetweenPasses
  <2> QED BY <2>1, <2>2 DEF CPUsInStep, System9
<1> QED BY <1>1, SchedInvHolds, PTL

\* SPU::Mix runs exactly once per period of the system's time, awake and asleep.
THEOREM SamplesKeepSystemTime == Spec => []SamplesKeepTime
<1>1. SchedInv => SamplesKeepTime
  <2> SUFFICES ASSUME SchedInv, BetweenPasses PROVE samples = SysTimestamp \div SpuPeriod
    BY DEF SamplesKeepTime
  <2>1. samples * SpuPeriod <= SysTimestamp /\ SysTimestamp < (samples + 1) * SpuPeriod
    BY DEF SchedInv, SoundTime, EventTimes, NothingOverdue
  <2>2. samples \in Nat /\ SysTimestamp \in Nat /\ SpuPeriod \in Nat \ {0}
    BY Numbers, ConstantTypes
  <2> QED BY <2>1, <2>2, DivIs
<1> QED BY <1>1, SchedInvHolds, PTL
=============================================================================
