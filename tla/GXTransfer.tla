----------------------------- MODULE GXTransfer -----------------------------
(***************************************************************************)
(* Who feeds the 3D engine: the ARM9's program and its DMA channels        *)
(* (DMA.cpp), in the ARM9 half of the frame loop (NDS.cpp, RunFrame).  A   *)
(* slice belongs to the stalled ARM9, to the channels or to the program;   *)
(* then the engine catches up.                                             *)
(***************************************************************************)
EXTENDS GXFIFO

CONSTANTS
  NumChannels,   \* 4
  Controls,      \* Controls[d]: what programs write to channel d's control register
  ChunkSize,     \* words a transfer to the FIFO moves at a time, 112
  Stores,        \* the commands one store instruction can write
  DmaWords,      \* the commands one word of a transfer can bring
  SliceCycles,   \* bound: the longest slice, in instructions
  FrameCycles    \* bound: cycles between vertical blanks

Channels == 0 .. NumChannels - 1

TransferAssumption ==
  /\ {NumChannels, ChunkSize, SliceCycles, FrameCycles} \subseteq Nat \ {0}
  /\ \A d \in Channels : Controls[d] \subseteq
       [enable : BOOLEAN, gxMode : BOOLEAN, repeat : BOOLEAN, count : Nat \ {0}]
  /\ Stores \subseteq Seq(Commands) /\ DmaWords \subseteq Seq(Commands)

ASSUME TransferAssumption

VARIABLES
  dma,       \* the channels
  turn,      \* what RunFrame does next
  chan,      \* the channel whose turn it is
  left,      \* cycles left of the slice (ARM9Target - ARM9Timestamp)
  lead,      \* cycles the engine is behind the ARM9
  untilBlank \* cycles until the next vertical blank

gxvars == <<gx, dma, turn, chan, left, lead, untilBlank>>

ChannelOff == [enable |-> FALSE, gxMode |-> FALSE, repeat |-> FALSE, count |-> 1]

GxInit ==
  /\ gx = Idle
  /\ dma = [d \in Channels |->
       [cnt |-> ChannelOff, gxMode |-> FALSE, rem |-> 0, iter |-> 0, running |-> FALSE,
        inProgress |-> FALSE, executing |-> FALSE, stall |-> FALSE,
        moved |-> 0, goal |-> 0, resumed |-> FALSE]]
  /\ turn = "slice" /\ chan = 0
  /\ left = 0 /\ lead = 0 /\ untilBlank = FrameCycles

-----------------------------------------------------------------------------
(* The channels.  moved and goal are the words moved and asked for, resumed   *)
(* says that a program enabled a channel it had stopped in mid-transfer.      *)

Smaller(a, b) == IF a < b THEN a ELSE b

\* A transfer that is in progress goes on where it was.
Start(c) ==
  IF c.running THEN c
  ELSE LET rem == IF c.inProgress THEN c.rem ELSE c.cnt.count
       IN [c EXCEPT !.rem = rem,
                    !.iter = IF c.gxMode THEN Smaller(rem, ChunkSize) ELSE rem,
                    !.running = TRUE, !.inProgress = TRUE,
                    !.moved = IF c.inProgress THEN @ ELSE 0,
                    !.goal = IF c.inProgress THEN @ ELSE c.cnt.count]

\* CheckDMAs for the FIFO's mode.
CheckDMAs(cs) == [d \in Channels |-> IF cs[d].gxMode /\ cs[d].cnt.enable THEN Start(cs[d]) ELSE cs[d]]

\* CheckFIFODMA
CheckFIFODMA(cs, g) == IF Len(g.queue) < Half THEN CheckDMAs(cs) ELSE cs

\* The engine catches up by `elapsed' cycles, and starts the channels that wait.
EngineRuns(elapsed) ==
  LET g == Run([gx EXCEPT !.refilled = FALSE], elapsed)
  IN /\ gx' = [g EXCEPT !.refilled = FALSE]
     /\ dma' = IF g.refilled THEN CheckDMAs(dma) ELSE dma

AnyRunning(cs) == \E d \in Channels : cs[d].running

Elapse(n) == /\ left' = left - n /\ untilBlank' = untilBlank - n

-----------------------------------------------------------------------------
(* The slice *)

Target == Smaller(SliceCycles, untilBlank)

\* The ARM9 is stalled: time passes until the engine may have made room.
StalledSlice ==
  /\ turn = "slice" /\ gx.stalled
  /\ lead' = Smaller(Target, CyclesToRunFor(gx))
  /\ untilBlank' = untilBlank - lead'
  /\ turn' = "engine"
  /\ UNCHANGED <<gx, dma, chan, left>>

BeginSlice ==
  /\ turn = "slice" /\ ~gx.stalled
  /\ turn' = IF AnyRunning(dma) THEN "dma" ELSE "program"
  /\ left' = Target /\ chan' = 0
  /\ UNCHANGED <<gx, dma, lead, untilBlank>>

\* GPU3D::Run, then the events that are due.
EndSlice ==
  /\ turn = "engine"
  /\ LET g == Run([gx EXCEPT !.refilled = FALSE], lead)
     IN /\ gx' = [g EXCEPT !.refilled = FALSE,
                           !.flush = @ /\ untilBlank > 0]
        /\ dma' = IF g.refilled THEN CheckDMAs(dma) ELSE dma
  /\ untilBlank' = IF untilBlank = 0 THEN FrameCycles ELSE untilBlank
  /\ turn' = "slice" /\ lead' = 0 /\ left' = 0
  /\ UNCHANGED chan

-----------------------------------------------------------------------------
(* The channels' slice: each in turn moves words until it is done, stalled or *)
(* out of time.                                                               *)

\* Mutant: the word that stalls is moved again after the stall.
MovedUnlessStalled(c, stalled) ==
  IF stalled THEN [c EXCEPT !.moved = @ + 1, !.executing = TRUE, !.stall = TRUE]
  ELSE [c EXCEPT !.iter = @ - 1, !.rem = @ - 1, !.moved = @ + 1, !.executing = TRUE]

\* A word is done, whether or not it stalled the ARM9.
Moved(c, stalled) ==
  [c EXCEPT !.iter = @ - 1, !.rem = @ - 1, !.moved = @ + 1, !.executing = TRUE, !.stall = stalled]

\* The loop of Run9; the test for time comes first when the channel begins.
MayMove(c) == c.running /\ c.iter > 0 /\ ~c.stall /\ left > 0

NextChannel ==
  /\ chan' = (chan + 1) % NumChannels
  /\ turn' = IF chan = NumChannels - 1 THEN "engine" ELSE "dma"

\* A channel that is not running, has no time, or follows one that stalled.
SkipChannel ==
  /\ turn = "dma" /\ ~dma[chan].executing
  /\ \/ ~dma[chan].running \/ left = 0
     \/ gx.stalled /\ chan > 0
  /\ NextChannel
  /\ UNCHANGED <<gx, dma, left, lead, untilBlank>>

MoveWord(word) ==
  /\ turn = "dma" /\ MayMove(dma[chan])
  /\ dma[chan].executing \/ ~gx.stalled
  /\ gx' = Written(gx, word)
  /\ dma' = [dma EXCEPT ![chan] = Moved(@, gx'.stalled)]
  /\ Elapse(1) /\ lead' = lead + 1
  /\ UNCHANGED <<turn, chan>>

\* A chunk or the transfer is over, or will go on in another slice.
StopMoving ==
  /\ turn = "dma" /\ dma[chan].executing /\ ~MayMove(dma[chan])
  /\ LET c == [dma[chan] EXCEPT !.executing = FALSE, !.stall = FALSE]
         Now(d) == [dma EXCEPT ![chan] = d]
     IN \/ /\ c.rem > 0 /\ c.iter > 0
           /\ dma' = Now(c)
        \/ /\ c.rem > 0 /\ c.iter = 0
           /\ dma' = IF c.gxMode THEN CheckFIFODMA(Now([c EXCEPT !.running = FALSE]), gx)
                     ELSE Now([c EXCEPT !.running = FALSE])
        \/ /\ c.rem = 0
           /\ dma' = Now([c EXCEPT !.cnt.enable = @ /\ c.cnt.repeat, !.running = FALSE,
                                   !.inProgress = FALSE, !.resumed = FALSE,
                                   !.moved = 0, !.goal = 0])
  /\ NextChannel
  /\ UNCHANGED <<gx, left, lead, untilBlank>>

-----------------------------------------------------------------------------
(* The program's slice.  A transfer that starts halts the ARM9 at once; a      *)
(* stall does not, it is noticed at the next slice.                            *)

Executes ==
  /\ turn = "program"
  /\ Elapse(1)
  /\ turn' = IF AnyRunning(dma') \/ left' = 0 THEN "engine" ELSE "program"
  /\ UNCHANGED chan

Store(cmds) == /\ turn = "program"
               /\ gx' = Written(gx, cmds)
               /\ lead' = lead + 1
               /\ UNCHANGED dma
               /\ Executes

\* Reading GXSTAT lets the engine catch up first.
ReadStat == /\ turn = "program"
            /\ EngineRuns(lead)
            /\ lead' = 1
            /\ Executes

\* Acknowledging the interrupt requests it again while it is due.
AckIrq == /\ turn = "program"
          /\ gx' = [gx EXCEPT !.irq = IrqDue(gx)]
          /\ lead' = lead + 1
          /\ UNCHANGED dma
          /\ Executes

WriteChannel(d, val) ==
  LET old == dma[d]
      enables == val.enable /\ ~old.cnt.enable
      c == [old EXCEPT !.cnt = val]
      enabled == [c EXCEPT !.gxMode = val.gxMode, !.moved = 0, !.goal = val.count,
                           !.resumed = old.inProgress]
  IN /\ turn = "program"
     /\ dma' = IF ~enables THEN [dma EXCEPT ![d] = c]
               ELSE IF val.gxMode THEN CheckFIFODMA([dma EXCEPT ![d] = enabled], gx)
               ELSE [dma EXCEPT ![d] = Start(enabled)]
     /\ lead' = lead + 1
     /\ UNCHANGED gx
     /\ Executes

\* Nothing the engine or the channels see until the slice is over.
OtherCode == /\ turn = "program"
             /\ Elapse(left) /\ lead' = lead + left
             /\ turn' = "engine"
             /\ UNCHANGED <<gx, dma, chan>>

-----------------------------------------------------------------------------

GxNext == \/ StalledSlice \/ BeginSlice \/ EndSlice
          \/ SkipChannel \/ StopMoving
          \/ \E word \in DmaWords : MoveWord(word)
          \/ \E cmds \in Stores : Store(cmds)
          \/ ReadStat \/ AckIrq \/ OtherCode
          \/ \E d \in Channels : \E val \in Controls[d] : WriteChannel(d, val)

GxSpec == GxInit /\ [][GxNext]_gxvars

\* The machine runs: RunFrame is called again and again.  (GxNext is always
\* enabled, and this is then what its weak fairness says.)
GxFairness == []<><<TRUE>>_gxvars

-----------------------------------------------------------------------------
(* Properties *)

GxTypeOK ==
  /\ Len(gx.pipe) <= PipeDepth /\ Len(gx.queue) <= FIFODepth /\ Len(gx.stallQueue) <= StallDepth
  /\ gx.pipeline \in 0 .. Latency /\ gx.cycles \in Nat /\ gx.numStack \in Nat
  /\ turn \in {"slice", "program", "dma", "engine"} /\ chan \in Channels
  /\ left \in 0 .. SliceCycles /\ lead \in 0 .. SliceCycles /\ untilBlank \in 0 .. FrameCycles
  /\ \A d \in Channels : /\ dma[d].iter <= dma[d].rem
                         /\ dma[d].running => dma[d].inProgress

\* Commands go in at one end and come out at the other in the order they were
\* written, whatever path each took: past the FIFO, through it, or through the
\* stall queue.  Nothing is lost but the tail of what finds the stall queue full.
Accepts(cmds) == \E n \in 0 .. Len(cmds) :
  /\ OnTheWay(gx)' = OnTheWay(gx) \o SubSeq(cmds, 1, n)
  /\ n = Len(cmds) \/ Len(gx'.stallQueue) = StallDepth
CommandsInOrder ==
  [][/\ \A cmds \in Stores : Store(cmds) => Accepts(cmds)
     /\ \A word \in DmaWords : MoveWord(word) => Accepts(word)
     /\ ~(\E cmds \in Stores : Store(cmds)) /\ ~(\E word \in DmaWords : MoveWord(word)) =>
          \E n \in 0 .. Len(OnTheWay(gx)) :
            OnTheWay(gx)' = SubSeq(OnTheWay(gx), n + 1, Len(OnTheWay(gx)))]_gxvars

\* What GXSTAT and the interrupt line tell the program is so: the engine is
\* not called idle while commands are queued or the pipelines run, nor the
\* matrix stack while a push or pop is queued; a program that waits for the
\* FIFO to drain is interrupted; and the ARM9 is stalled exactly while the
\* stall queue holds commands.
Stacked == LET cmds == gx.pipe \o gx.queue
           IN Cardinality({k \in DOMAIN cmds : cmds[k] = "stack"})
StatusTruthful ==
  /\ ~gx.busy => OnTheWay(gx) = <<>> /\ gx.pipeline = 0
  /\ gx.numStack = Stacked /\ (gx.numStack > 0 => gx.stackBusy)
  /\ IrqDue(gx) => gx.irq
  /\ gx.stalled <=> gx.stallQueue # <<>>

\* A transfer moves the number of words the program asked for, in whatever
\* chunks and however often it was stalled.  The exception is one that is
\* enabled again after it was stopped in mid-transfer: it goes on with what it
\* had left.
TransfersExact ==
  [][\A d \in Channels : dma[d].inProgress /\ ~dma'[d].inProgress /\ ~dma[d].resumed
                           => dma[d].moved = dma[d].goal]_gxvars

\* No stall lasts, and a transfer that is under way is completed unless the
\* program or another channel keeps filling the FIFO.
OthersFill(d) == /\ turn = "program" \/ (turn = "dma" /\ chan # d)
                 /\ Len(OnTheWay(gx')) > Len(OnTheWay(gx))
NobodyWaitsForever ==
  /\ gx.stalled ~> ~gx.stalled
  /\ \A d \in Channels :
       \/ []<><<OthersFill(d)>>_gxvars
       \/ (dma[d].inProgress /\ dma[d].cnt.enable) ~> ~(dma[d].inProgress /\ dma[d].cnt.enable)

\* What the comment on the stall queue takes for granted (GPU3D.cpp:1671): it
\* has room for the worst case, so no command is ever lost.
NothingDropped ==
  [][\A cmds \in Stores : Store(cmds) => OnTheWay(gx)' = OnTheWay(gx) \o cmds]_gxvars
=============================================================================
