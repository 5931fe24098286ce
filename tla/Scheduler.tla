----------------------------- MODULE Scheduler -----------------------------
(***************************************************************************)
(* The emulated machine's clock (NDS.cpp): RunFrame alternates slices of   *)
(* the ARM9 and the ARM7 with passes over the list of timed events.  A CPU *)
(* runs instructions (or a DMA channel units) until it reaches its target, *)
(* and may overshoot it by the last one; an instruction may schedule an    *)
(* event, which shortens the slice.  When the ARM7 puts the machine to     *)
(* sleep only the SPU and the RTC keep their events.                       *)
(***************************************************************************)
EXTENDS Integers, FiniteSetsExt

CONSTANTS
  ARM9Scale,             \* ARM9 cycles per system cycle, 1 << ARM9ClockShift
  kMaxIterationCycles, kIterationCycleMargin,
  MaxCycles9, MaxCycles7,\* the longest instruction, block or DMA unit
  LINE_CYCLES, HBLANK_CYCLES,
  SpuPeriod, FifoPeriod, FifoDelay, FrameCycles,
  RtcPeriods,            \* the RTC's period varies by a cycle
  DivDelays, SpiDelays,  \* delays of the events the ARM9, the ARM7 schedule
  LastLine,              \* the last line of a frame, 262
  OutputCapacity,        \* samples the SPU can hold until the frame is over
  SleepAllowed,          \* whether the ARM7 enters sleep mode
  VCountWritten,         \* whether the game writes VCOUNT
  MaxTime                \* bound: no slice starts after it

Overshoot == (MaxCycles9 - 1) \div ARM9Scale
MaxSlice == kMaxIterationCycles + kIterationCycleMargin + Overshoot

ASSUME ClockAssumption ==
  /\ {ARM9Scale, kMaxIterationCycles, kIterationCycleMargin, MaxCycles9, MaxCycles7}
       \subseteq Nat \ {0}
  /\ MaxTime \in Nat
\* A period is longer than what one instruction, block or DMA unit overshoots; the
\* shortest is FifoDelay, 32 cycles.  A hypothesis on the program that runs: where a
\* longer one breaks it, the handler schedules its event in the past again, and the
\* next slice is empty.
ASSUME DelayAssumption ==
  /\ {SpuPeriod, FifoPeriod, FifoDelay, HBLANK_CYCLES, LINE_CYCLES - HBLANK_CYCLES}
       \cup RtcPeriods \subseteq {n \in Nat : n > Overshoot}
  /\ DivDelays \cup SpiDelays \subseteq Nat \ {0}
  /\ FrameCycles \in Nat \ {0}
  /\ RtcPeriods # {}
ASSUME GameAssumption == {SleepAllowed, VCountWritten} \subseteq BOOLEAN
ASSUME FrameAssumption == LastLine \in Nat /\ OutputCapacity \in Nat

Event_LCD == 0
Event_SPU == 1
Event_RTC == 3
Event_DisplayFIFO == 4
Event_SPITransfer == 7
Event_Div == 8
Events == {Event_LCD, Event_SPU, Event_RTC, Event_DisplayFIFO, Event_SPITransfer, Event_Div}
Sleepless == {Event_SPU, Event_RTC}    \* the events that run in sleep mode

VARIABLES
  pc,                    \* where RunFrame is
  SysTimestamp,
  ARM9Timestamp, ARM9Target,             \* in ARM9 cycles
  ARM7Timestamp, ARM7Target,
  CurCPU,
  target,                \* of the slice; in sleep mode, the frame's
  SchedListMask, Timestamp,              \* SchedList
  lcdFunc, line,         \* the LCD event's FuncID and Param
  mask,                  \* events the current pass has yet to look at
  asleep, wakeup,        \* CPUStop_Sleep, CPUStop_Wakeup
  TotalScanlines,
  samples,               \* how many samples the SPU has mixed
  OutputBackbuffer       \* how many of them wait for the frame's end

clocks == <<ARM9Timestamp, ARM7Timestamp>>
targets == <<ARM9Target, ARM7Target>>
lcd == <<lcdFunc, line>>
list == <<SchedListMask, Timestamp, lcd>>
output == <<samples, OutputBackbuffer>>
sleep == <<asleep, wakeup>>
vars == <<pc, SysTimestamp, clocks, targets, CurCPU, target, list, mask, sleep,
          TotalScanlines, output>>

\* After Reset: the SPU and the RTC have scheduled their first events.
Init ==
  /\ pc = "frame"
  /\ SysTimestamp = 0 /\ ARM9Timestamp = 0 /\ ARM7Timestamp = 0
  /\ ARM9Target = 0 /\ ARM7Target = 0 /\ CurCPU = 0 /\ target = 0
  /\ SchedListMask = Sleepless
  /\ \E d \in RtcPeriods :
       Timestamp = [i \in Events |-> CASE i = Event_SPU -> SpuPeriod
                                       [] i = Event_RTC -> d
                                       [] OTHER -> 0]
  /\ lcdFunc = "StartScanline" /\ line = 0 /\ mask = {}
  /\ asleep = FALSE /\ wakeup = FALSE /\ TotalScanlines = 0
  /\ samples = 0 /\ OutputBackbuffer = 0

-----------------------------------------------------------------------------
(* The event list *)

Earlier(a, b) == IF a < b THEN a ELSE b

\* Mutants: scheduling does not shorten the slice; a periodic event is
\* scheduled from the current time.
NoReschedule(ts) == UNCHANGED targets
PeriodicFromNow(i, delay) == ARM7Timestamp + delay

\* An event at ts shortens the slice of the CPU that scheduled it.
Reschedule(ts) ==
  IF CurCPU = 0
  THEN /\ ARM9Target' = IF ts < ARM9Target \div ARM9Scale THEN ts * ARM9Scale ELSE ARM9Target
       /\ UNCHANGED ARM7Target
  ELSE /\ ARM7Target' = Earlier(ts, ARM7Target)
       /\ UNCHANGED ARM9Target

Periodic(i, delay) == Timestamp[i] + delay
FromNow(delay) ==
  IF CurCPU = 0 THEN ARM9Timestamp \div ARM9Scale + delay ELSE ARM7Timestamp + delay

\* ScheduleEvent, when the list is otherwise as in on: an event that is
\* scheduled already stays as it is.
ScheduleOn(on, i, ts) ==
  IF i \in on
  THEN SchedListMask' = on /\ UNCHANGED <<Timestamp, targets>>
  ELSE /\ SchedListMask' = on \cup {i}
       /\ Timestamp' = [Timestamp EXCEPT ![i] = ts]
       /\ Reschedule(ts)

\* SetIRQ(1, irq) for an enabled interrupt ends sleep mode.
Wake(irq) == /\ asleep' = (asleep /\ ~irq)
             /\ wakeup' = (wakeup \/ (asleep /\ irq))

MinEvent(events) == IF events = {} THEN MaxTime + FrameCycles + MaxSlice
                    ELSE Min({Timestamp[i] : i \in events})

\* Mutant: a slice has no other limit than the next event.
NextEventOnly == MinEvent(SchedListMask)

NextTarget ==
  LET max == SysTimestamp + kMaxIterationCycles
      minEvent == MinEvent(SchedListMask)
  IN IF minEvent < max + kIterationCycleMargin THEN minEvent ELSE max

-----------------------------------------------------------------------------
(* RunFrame *)

\* StartScanline: begin line n, with the display FIFO if it is in use, on a
\* list otherwise as in on, which never has the LCD's event.
StartScanline(on, n) ==
  \E fifo \in BOOLEAN, irq \in BOOLEAN :
    LET hblank == Periodic(Event_LCD, HBLANK_CYCLES)
        new == fifo /\ Event_DisplayFIFO \notin on
    IN /\ SchedListMask' = on \cup {Event_LCD} \cup (IF new THEN {Event_DisplayFIFO} ELSE {})
       /\ Timestamp' = [i \in Events |->
                          IF i = Event_LCD THEN hblank
                          ELSE IF i = Event_DisplayFIFO /\ new THEN FromNow(FifoDelay)
                          ELSE Timestamp[i]]
       /\ lcdFunc' = "StartHBlank" /\ line' = n
       /\ Reschedule(IF new THEN Earlier(hblank, FromNow(FifoDelay)) ELSE hblank)
       /\ Wake(irq)

\* The outer loop.  After sleep mode the frame that was under way goes on.
StartAwake ==
  /\ pc = "frame" /\ ~asleep
  /\ pc' = "slice"
  /\ IF wakeup
     THEN wakeup' = FALSE /\ UNCHANGED <<asleep, list, targets, TotalScanlines>>
     ELSE StartScanline(SchedListMask, 0) /\ TotalScanlines' = 0
  /\ UNCHANGED <<SysTimestamp, clocks, CurCPU, target, mask, output>>

StartAsleep ==
  /\ pc = "frame" /\ asleep
  /\ pc' = "sleep" /\ target' = SysTimestamp + FrameCycles
  /\ UNCHANGED <<SysTimestamp, clocks, targets, CurCPU, list, mask, sleep,
                 TotalScanlines, output>>

StartSlice ==
  /\ pc = "slice" /\ SysTimestamp < MaxTime
  /\ pc' = "arm9" /\ CurCPU' = 0
  /\ ARM9Target' = NextTarget * ARM9Scale
  /\ UNCHANGED <<SysTimestamp, clocks, ARM7Target, target, list, mask, sleep,
                 TotalScanlines, output>>

\* RunFrame is over; the frontend may open the lid before the next one.
NextFrame ==
  /\ pc = "between" /\ SysTimestamp < MaxTime
  /\ pc' = "frame" /\ TotalScanlines' = 0
  /\ \E irq \in BOOLEAN : Wake(irq)
  /\ UNCHANGED <<SysTimestamp, clocks, targets, CurCPU, target, list, mask, output>>

-----------------------------------------------------------------------------
(* The ARM9's turn, and the ARM7's *)

\* What an instruction does to the list: StartDiv cancels and schedules anew.
ARM9Op ==
  \/ UNCHANGED <<list, targets, sleep>>
  \/ \E d \in DivDelays : /\ ScheduleOn(SchedListMask \ {Event_Div}, Event_Div, FromNow(d))
                          /\ UNCHANGED <<lcd, sleep>>
  \/ Wake(TRUE) /\ UNCHANGED <<list, targets>>

ARM9Step ==
  /\ pc = "arm9" /\ ARM9Timestamp < ARM9Target
  /\ \E c \in 1 .. MaxCycles9 : ARM9Timestamp' = ARM9Timestamp + c
  /\ ARM9Op
  /\ UNCHANGED <<pc, SysTimestamp, ARM7Timestamp, CurCPU, target, mask,
                 TotalScanlines, output>>

ARM9Halt ==
  /\ pc = "arm9" /\ ARM9Timestamp < ARM9Target
  /\ ARM9Timestamp' = ARM9Target
  /\ UNCHANGED <<pc, SysTimestamp, ARM7Timestamp, targets, CurCPU, target, list, mask,
                 sleep, TotalScanlines, output>>

\* The turn ends at the target, or before it when the CPU is stopped or the
\* DMA transfer is over.
ARM9Done ==
  /\ pc = "arm9"
  /\ target' = ARM9Timestamp \div ARM9Scale
  /\ CurCPU' = 1 /\ ARM7Target' = target'
  /\ pc' = "arm7"
  /\ UNCHANGED <<SysTimestamp, clocks, ARM9Target, list, mask, sleep,
                 TotalScanlines, output>>

ARM7Op ==
  \/ UNCHANGED <<list, targets, sleep>>
  \/ \E d \in SpiDelays : /\ ScheduleOn(SchedListMask, Event_SPITransfer, FromNow(d))
                          /\ UNCHANGED <<lcd, sleep>>
  \/ Wake(TRUE) /\ UNCHANGED <<list, targets>>
  \/ SleepAllowed /\ asleep' = TRUE /\ UNCHANGED <<wakeup, list, targets>>

ARM7Step ==
  /\ pc = "arm7" /\ ARM7Timestamp < target /\ ARM7Timestamp < ARM7Target
  /\ \E c \in 1 .. MaxCycles7 : ARM7Timestamp' = ARM7Timestamp + c
  /\ ARM7Op
  /\ UNCHANGED <<pc, SysTimestamp, ARM9Timestamp, CurCPU, target, mask,
                 TotalScanlines, output>>

ARM7Halt ==
  /\ pc = "arm7" /\ ARM7Timestamp < ARM7Target
  /\ ARM7Timestamp' = ARM7Target
  /\ UNCHANGED <<pc, SysTimestamp, ARM9Timestamp, targets, CurCPU, target, list, mask,
                 sleep, TotalScanlines, output>>

\* A turn cut short is taken again.
ARM7Again ==
  /\ pc = "arm7" /\ ARM7Timestamp < target /\ ARM7Target < target
  /\ ARM7Target' = target
  /\ UNCHANGED <<pc, SysTimestamp, clocks, ARM9Target, CurCPU, target, list, mask,
                 sleep, TotalScanlines, output>>

-----------------------------------------------------------------------------
(* RunSystem: one pass over the events that are scheduled as it starts *)

StartPass ==
  /\ pc = "arm7" /\ ARM7Timestamp >= target
  /\ pc' = "pass" /\ SysTimestamp' = target /\ mask' = SchedListMask
  /\ UNCHANGED <<clocks, targets, CurCPU, target, list, sleep, TotalScanlines, output>>

First(i) == i \in mask /\ \A j \in mask : i <= j

\* Mutant: an event exactly due waits for the next pass.
DueLate(i) == Timestamp[i] < SysTimestamp

Due(i) == Timestamp[i] <= SysTimestamp

NotDue ==
  /\ pc = "pass"
  /\ \E i \in mask : First(i) /\ ~Due(i) /\ mask' = mask \ {i}
  /\ UNCHANGED <<pc, SysTimestamp, clocks, targets, CurCPU, target, list, sleep,
                 TotalScanlines, output>>

\* The pass reaches the event and it is due: it leaves the list and its
\* handler runs.
Fires(i) == /\ pc = "pass" /\ First(i) /\ Due(i)
            /\ mask' = mask \ {i}
            /\ UNCHANGED <<pc, SysTimestamp, clocks, CurCPU, target>>

\* Mutant: the buffer's limit is not checked.
MixUnchecked == samples' = samples + 1 /\ OutputBackbuffer' = OutputBackbuffer + 1

\* One more sample; it is dropped if the buffer is full.
Mix == /\ samples' = samples + 1
       /\ OutputBackbuffer' = Earlier(OutputBackbuffer + 1, OutputCapacity)

FireSPU ==
  /\ Fires(Event_SPU)
  /\ Mix
  /\ ScheduleOn(SchedListMask \ {Event_SPU}, Event_SPU, Periodic(Event_SPU, SpuPeriod))
  /\ UNCHANGED <<lcd, sleep, TotalScanlines>>

FireRTC ==
  /\ Fires(Event_RTC)
  /\ \E d \in RtcPeriods, irq \in BOOLEAN :
       /\ ScheduleOn(SchedListMask \ {Event_RTC}, Event_RTC, Periodic(Event_RTC, d))
       /\ Wake(irq)
  /\ UNCHANGED <<lcd, TotalScanlines, output>>

FireDisplayFIFO ==
  /\ Fires(Event_DisplayFIFO)
  /\ \/ ScheduleOn(SchedListMask \ {Event_DisplayFIFO}, Event_DisplayFIFO,
                   Periodic(Event_DisplayFIFO, FifoPeriod))
     \/ SchedListMask' = SchedListMask \ {Event_DisplayFIFO} /\ UNCHANGED <<Timestamp, targets>>
  /\ UNCHANGED <<lcd, sleep, TotalScanlines, output>>

\* SPI transfer done, division done.
FireOnce ==
  \E i \in {Event_SPITransfer, Event_Div}, irq \in BOOLEAN :
    /\ Fires(i)
    /\ SchedListMask' = SchedListMask \ {i}
    /\ Wake(irq)
    /\ UNCHANGED <<Timestamp, lcd, targets, TotalScanlines, output>>

FireStartScanline ==
  /\ Fires(Event_LCD) /\ lcdFunc = "StartScanline"
  /\ StartScanline(SchedListMask \ {Event_LCD}, line)
  /\ UNCHANGED <<TotalScanlines, output>>

\* Whether the line is the last is read from VCount, which the game may set.
FireStartHBlank ==
  /\ Fires(Event_LCD) /\ lcdFunc = "StartHBlank"
  /\ line' = line + 1
  /\ \E last \in BOOLEAN :
       /\ last = (line = LastLine) \/ VCountWritten
       /\ lcdFunc' = IF last THEN "FinishFrame" ELSE "StartScanline"
  /\ ScheduleOn(SchedListMask \ {Event_LCD}, Event_LCD,
                Periodic(Event_LCD, LINE_CYCLES - HBLANK_CYCLES))
  /\ \E irq \in BOOLEAN : Wake(irq)
  /\ UNCHANGED <<TotalScanlines, output>>

FireFinishFrame ==
  /\ Fires(Event_LCD) /\ lcdFunc = "FinishFrame"
  /\ SchedListMask' = SchedListMask \ {Event_LCD}
  /\ TotalScanlines' = 263
  /\ UNCHANGED <<Timestamp, lcd, targets, sleep, output>>

\* SPU::TransferOutput at the frame's end takes the n samples there are.
TransferOutput(ended, n) == OutputBackbuffer' = IF ended THEN 0 ELSE n

EndPass ==
  /\ pc = "pass" /\ mask = {}
  /\ pc' = IF TotalScanlines # 0 THEN "between" ELSE IF asleep THEN "frame" ELSE "slice"
  /\ TransferOutput(TotalScanlines # 0, OutputBackbuffer)
  /\ UNCHANGED <<SysTimestamp, clocks, targets, CurCPU, target, list, mask, sleep,
                 TotalScanlines, samples>>

-----------------------------------------------------------------------------
(* Sleep mode: RunSystemSleep, as far as the next event or the frame's end *)

PutOff(ts, offset) == ts + offset

SleepStep ==
  /\ pc = "sleep" /\ SysTimestamp < MaxTime
  /\ LET t == Earlier(MinEvent(SchedListMask \cap Sleepless), target)
         due == {i \in SchedListMask : Timestamp[i] <= t}
     IN \E d \in RtcPeriods, irq \in BOOLEAN :
          /\ SysTimestamp' = t /\ ARM9Timestamp' = t * ARM9Scale /\ ARM7Timestamp' = t
          /\ Timestamp' = [i \in Events |->
                 IF i \notin due THEN Timestamp[i]
                 ELSE CASE i = Event_SPU -> Timestamp[i] + SpuPeriod
                        [] i = Event_RTC -> Timestamp[i] + d
                        [] OTHER -> PutOff(Timestamp[i], t - SysTimestamp)]
          /\ ARM7Target' = Min({ARM7Target} \cup {Timestamp'[i] : i \in due \cap Sleepless})
          /\ LET mixed == IF Event_SPU \in due THEN 1 ELSE 0
             IN /\ samples' = samples + mixed
                /\ TransferOutput(t >= target,
                                  Earlier(OutputBackbuffer + mixed, OutputCapacity))
          /\ Wake(irq /\ Event_RTC \in due)
          /\ IF t >= target
             THEN pc' = "between" /\ TotalScanlines' = 263      \* BlankFrame
             ELSE /\ pc' = IF asleep' THEN "sleep" ELSE "frame"
                  /\ UNCHANGED TotalScanlines
  /\ UNCHANGED <<ARM9Target, CurCPU, target, SchedListMask, lcd, mask>>

-----------------------------------------------------------------------------

Next ==
  \/ StartAwake \/ StartAsleep \/ StartSlice \/ NextFrame
  \/ ARM9Step \/ ARM9Halt \/ ARM9Done
  \/ ARM7Step \/ ARM7Halt \/ ARM7Again
  \/ StartPass \/ NotDue
  \/ FireSPU \/ FireRTC \/ FireDisplayFIFO \/ FireOnce
  \/ FireStartScanline \/ FireStartHBlank \/ FireFinishFrame \/ EndPass
  \/ SleepStep

Spec == Init /\ [][Next]_vars

-----------------------------------------------------------------------------
(* Properties *)

TypeOK ==
  /\ pc \in {"frame", "slice", "arm9", "arm7", "pass", "between", "sleep"}
  /\ {SysTimestamp, ARM9Timestamp, ARM9Target, ARM7Timestamp, ARM7Target, target, line, samples}
       \subseteq Nat
  /\ CurCPU \in {0, 1}
  /\ SchedListMask \in SUBSET Events /\ mask \in SUBSET SchedListMask
  /\ Timestamp \in [Events -> Nat]
  /\ lcdFunc \in {"StartScanline", "StartHBlank", "FinishFrame"}
  /\ asleep \in BOOLEAN /\ wakeup \in BOOLEAN /\ TotalScanlines \in {0, 263}
  /\ OutputBackbuffer \in 0 .. OutputCapacity

BetweenPasses == pc \in {"frame", "slice", "between", "sleep"}

\* A pass leaves nothing behind: between two passes (awake, asleep, or over
\* the frame's end) every scheduled event lies in the future.
NothingOverdue == BetweenPasses => \A i \in SchedListMask : SysTimestamp < Timestamp[i]

\* An event the ARM9 or a handler scheduled is never later than the last
\* instruction overshoots; one the ARM7 scheduled, whose turn is not cut for
\* it, is at most a slice late.
LatenessBounded ==
  pc = "pass" => \A i \in mask :
    SysTimestamp - Timestamp[i] <= IF i = Event_SPITransfer THEN MaxSlice - 1 ELSE Overshoot

\* The CPUs stay together: at the end of a pass neither is behind the system's
\* time and neither is ahead by more than an instruction; during one the ARM9
\* is ahead by a slice at most.
CPUsInStep ==
  /\ BetweenPasses => /\ ARM9Timestamp \div ARM9Scale = SysTimestamp
                      /\ ARM7Timestamp \in SysTimestamp .. SysTimestamp + MaxCycles7 - 1
  /\ ARM9Timestamp \div ARM9Scale - ARM7Timestamp < MaxSlice

\* Sound keeps time, in sleep mode too: the SPU has mixed exactly one sample
\* per period that has passed.
SamplesKeepTime == BetweenPasses => samples = SysTimestamp \div SpuPeriod

\* "Frame count is traditionally the primary measure of emulated time, so it
\* needs to be tracked": a frame that runs comes to its end, for the LCD's next
\* event, which leads there, is on the list.
FrameHasLCD == pc = "slice" => Event_LCD \in SchedListMask
=============================================================================
