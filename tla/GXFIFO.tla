------------------------------- MODULE GXFIFO -------------------------------
(***************************************************************************)
(* The way of a command into the 3D engine (GPU3D.cpp): a short pipe, the  *)
(* command FIFO behind it, and a stall queue for what a full FIFO cannot   *)
(* take, which stalls the ARM9 until it is empty again.  `gx' is the       *)
(* state; the operators give the state after each function.                *)
(***************************************************************************)
EXTENDS Integers, SequencesExt

CONSTANTS
  PipeDepth, FIFODepth, StallDepth,  \* 4, 256 and 64 commands
  Half,         \* the FIFO is "less than half full" below this level, 128
  Commands,     \* command kinds: "swap" (swap buffers), "stack" (matrix push
                \* and pop), and any other
  Cost,         \* the cycles each takes
  Latency,      \* cycles the vertex pipelines run on after a command
  FIFOIrq       \* when the program wants the FIFO interrupt: 1 half, 2 empty

GxAssumption ==
  /\ {PipeDepth, FIFODepth, StallDepth, Half} \subseteq Nat \ {0}
  /\ PipeDepth > 1     \* the FIFO fills the pipe by halves
  /\ "swap" \in Commands /\ Cost \in [Commands -> Nat \ {0}]
  /\ Latency \in Nat /\ FIFOIrq \in 0 .. 2

ASSUME GxAssumption

VARIABLE gx

Idle == [pipe |-> <<>>, queue |-> <<>>, stallQueue |-> <<>>,
         stalled |-> FALSE,     \* CPUStop_GXStall
         busy |-> FALSE,        \* GXSTAT bit 27
         stackBusy |-> FALSE,   \* GXSTAT bit 14
         numStack |-> 0,        \* NumPushPopCommands
         cycles |-> 0,          \* CycleCount
         pipeline |-> 0,        \* the longest of the three pipelines
         flush |-> FALSE,       \* FlushRequest
         irq |-> FIFOIrq # 0,   \* the GXFIFO interrupt is pending
         refilled |-> FALSE]    \* CheckFIFODMA has found room for a transfer

\* CheckFIFOIRQ
IrqDue(g) == \/ FIFOIrq = 1 /\ Len(g.queue) < Half
             \/ FIFOIrq = 2 /\ g.queue = <<>>

-----------------------------------------------------------------------------
(* Writing *)

\* Mutants: a command in the pipe is not counted; a command may go straight to
\* the pipe whenever that has room.
Uncounted(g, cmd) == [g EXCEPT !.busy = TRUE]
PipeHasRoom(g) == Len(g.pipe) < PipeDepth

Counted(g, cmd) ==
  [g EXCEPT !.busy = TRUE,
            !.stackBusy = @ \/ cmd = "stack",
            !.numStack = IF cmd = "stack" THEN @ + 1 ELSE @]

\* The FIFO is passed by while it is empty.
GoesToPipe(g) == g.queue = <<>> /\ Len(g.pipe) < PipeDepth

CmdFIFOWrite(g, cmd) ==
  IF GoesToPipe(g) THEN Counted([g EXCEPT !.pipe = Append(@, cmd)], cmd)
  ELSE IF Len(g.queue) < FIFODepth THEN Counted([g EXCEPT !.queue = Append(@, cmd)], cmd)
  ELSE [g EXCEPT !.stallQueue = IF Len(@) < StallDepth THEN Append(@, cmd) ELSE @,
                 !.stalled = TRUE]

Written(g, cmds) == FoldLeft(CmdFIFOWrite, g, cmds)

-----------------------------------------------------------------------------
(* Executing *)

\* Mutant: the stall ends as soon as one command has found room.
EndsEarly(g, waiting) == g.stalled /\ Len(g.stallQueue) = waiting

\* The stall that was on with `waiting' commands in the stall queue stays on.
StallStays(g, waiting) == g.stalled /\ (waiting > 0 => g.stallQueue # <<>>)

\* The FIFO moves up into the pipe, half a pipe at a time, and the stall queue
\* into the FIFO as long as that has room.
MovedUp(g) ==
  LET n == IF Len(g.queue) < PipeDepth \div 2 THEN Len(g.queue) ELSE PipeDepth \div 2
  IN [g EXCEPT !.pipe = @ \o SubSeq(g.queue, 1, n),
               !.queue = SubSeq(@, n + 1, Len(@))]

Unqueue(g, cmd) ==
  IF Len(g.queue) >= FIFODepth THEN g
  ELSE CmdFIFOWrite([g EXCEPT !.stallQueue = SubSeq(@, 2, Len(@))], cmd)

Requeued(g) == FoldLeft(Unqueue, MovedUp(g), g.stallQueue)

Refill(g) == [Requeued(g) EXCEPT !.stalled = StallStays(Requeued(g), Len(g.stallQueue)),
                                  !.refilled = @ \/ Len(Requeued(g).queue) < Half,
                                  !.irq = IrqDue(Requeued(g))]

CmdFIFORead(g) ==
  LET popped == [g EXCEPT !.pipe = Tail(@)]
  IN IF Len(popped.pipe) <= PipeDepth \div 2 THEN Refill(popped) ELSE popped

AddCycles(g, n) == [g EXCEPT !.cycles = @ + n,
                             !.pipeline = IF @ > n THEN @ - n ELSE 0]

\* Each command has its time; swapping the buffers also holds the engine until
\* the next vertical blank.
ExecuteCommand(g) ==
  LET cmd == Head(g.pipe)
      done == AddCycles(CmdFIFORead(g), Cost[cmd])
  IN IF cmd = "swap" THEN [done EXCEPT !.flush = TRUE, !.cycles = Cost["swap"], !.pipeline = 0]
     ELSE IF cmd = "stack" THEN [done EXCEPT !.numStack = @ - 1]
     ELSE [done EXCEPT !.pipeline = Latency]

\* Mutant: the engine is idle as soon as it has no more commands.
FinishAtOnce(g) == [AddCycles(g, -g.cycles) EXCEPT !.cycles = 0, !.busy = FALSE]

FinishWork(g) ==
  LET rest == AddCycles(g, -g.cycles)
  IN [rest EXCEPT !.cycles = 0, !.busy = rest.pipeline > 0]

StackBusy(g) == g.stackBusy /\ g.numStack > 0

\* Mutant: a stalled engine does not run.
HeldLonger(g) == g.flush \/ g.stalled \/ (g.pipe = <<>> /\ ~g.busy)

\* What keeps the engine from running at all.
Held(g) == g.flush \/ (g.pipe = <<>> /\ ~g.busy)

\* The engine executes a command if it has time for one.
ExecuteNext(g, k) ==
  IF g.cycles <= 0 /\ g.pipe # <<>>
  THEN ExecuteCommand([g EXCEPT !.stackBusy = StackBusy(g)])
  ELSE g

\* All it has time for: each takes a cycle at least.
Executed(g, elapsed) ==
  FoldLeft(ExecuteNext, [g EXCEPT !.cycles = @ - elapsed], [k \in 1 .. elapsed + 1 |-> k])

\* The engine has nothing more to execute.
Ended(g) == LET ended == IF ~g.busy THEN [g EXCEPT !.cycles = 0] ELSE FinishWork(g)
            IN [ended EXCEPT !.stackBusy = StackBusy(ended)]

\* Run: the engine has had `elapsed' cycles and executes what it could.
Run(g, elapsed) ==
  IF Held(g) THEN g
  ELSE LET ran == Executed(g, elapsed)
       IN IF ran.cycles <= 0 /\ ran.pipe = <<>> THEN Ended(ran) ELSE ran

\* What a stalled ARM9 waits before it looks again.
CyclesToRunFor(g) == IF g.cycles < 0 THEN 0 ELSE g.cycles

\* The commands on their way, the next to be executed first.
OnTheWay(g) == g.pipe \o g.queue \o g.stallQueue
=============================================================================
