# A verification of melonPrimeDS in TLA+

melonPrimeDS emulates a Nintendo DS or DSi: two CPUs, graphics, sound, wifi and
the devices around them, run by an emulator thread inside a Qt application. This
directory models the parts of it where several actors share state, or where an
order of events decides whether the program is right. It is checked with TLC and,
in part, proved with TLAPS. Paths below are relative to `src/src/`; `qt_sdl/` is
short for `frontend/qt_sdl/`.

## 1. The system

Three kinds of concurrency meet in this program.

* *Host threads*: the UI thread, the emulator thread, the render thread of the
  software renderer, the flush thread of each save file, the audio callback.
* *Host processes*: several emulators on one machine, joined by shared memory.
* *Emulated concurrency*: the ARM9, the ARM7, the DMA channels and the devices,
  which one host thread interleaves in slices of emulated time.

| component | state | operations | speaks to | what makes it hard | what makes it right |
|---|---|---|---|---|---|
| FIFO containers (`FIFO.h`) | storage, two positions, occupancy | Clear, Write, Read, Peek | used by IPC, GXFIFO, SPU capture, AES, SD | wrap by comparison, full and empty look alike | first in, first out; nothing lost but what does not fit |
| Local multiplayer (`qt_sdl/LocalMP.cpp`) | a shared segment: instance and connected bitmasks, two rings, write offsets; 32 named semaphores; per process its ID and two read offsets | Init, DeInit, Begin, End, the sends, RecvPacket, RecvHostPacket, RecvReplies | `Wifi.cpp`; other processes | a lock around the rings, but posts and waits outside it; timeouts; late replies; processes that come and go | each frame is read once, whole, in order; one wakeup per frame; replies answer the command; each instance has an ID of its own |
| Software renderer (`GPU3D_Soft.cpp`) | three semaphores, RenderThreadRunning, RenderThreadRendering, FrameIdentical, the colour buffer | SetupRenderThread, StopRenderThread, EnableRenderThread, GetLine, VCount144, RenderFrame, Reset | driven by `GPU.cpp`, `GPU3D.cpp`, `NDS.cpp` | two threads with flags outside any lock; frames cut short, savestates, sleep | the GPU state is not changed while it is drawn from; a line is shown after it is drawn; no one waits for ever |
| Save file writer (`qt_sdl/SaveManager.cpp`) | two buffers, two versions, a timer, the path | RequestFlush, CheckFlush, SetPath, the flush thread, destruction | the cartridge, the emulator thread, the UI | debounce, checks outside the lock, closing at any time, files that fail to open | what the game saved reaches the file |
| Scheduler and frame loop (`NDS.cpp`) | three timestamps, the event list, CPUStop | RunFrame, RunSystem, RunSystemSleep, ScheduleEvent, CancelEvent, Reschedule | every device | instructions overshoot, handlers change the list during a pass, sleep mode | no event is lost or much too late, CPUs stay together, periods do not drift, frames end |
| IPC (`NDS.cpp`, `ARM.cpp`) | two FIFOs of 16 words, IPCFIFOCNT, IPCSYNC, IE, IF, IME, cached interrupt lines | register reads and writes, SetIRQ, UpdateIRQ, halting | both CPUs | the word and the wish to be told of it come in either order | the line is current; nobody sleeps on a word |
| Emulator thread (`qt_sdl/EmuThread.cpp`) and the UI slots that call it (`qt_sdl/Window.cpp`, `qt_sdl/main.cpp`) | EmuRunning, EmuStatus, PrevEmuStatus, the pause stack, ContextRequest, RunningSomething | emuRun, emuPause, emuUnpause, emuStop, emuFrameStep, init/deinitContext; the slots | audio, ROMManager | plain fields written by two threads, busy waiting, nested pauses, slots that run within another while it asks for a file | a pause that waited holds until it is undone; no request is lost; no one spins for ever |
| Sound output (`SPU.cpp`, `qt_sdl/AudioInOut.cpp`) | back buffer, ring with two positions, AudioLock | Mix, TransferOutput, ReadOutput, Stop, Reset, AudioSync | scheduler, audio callback | a ring that pushes its reader on; a wait with a timeout | samples in order; no gap while audio is in sync |
| DMA, NDMA (`DMA.cpp`, `DSi_NDMA.cpp`) | per channel registers and progress | start, run, stall, stop | scheduler, GXFIFO, cartridge | cut by the end of a slice, by a stall, by chunks | every unit is moved once; transfers end |
| Timers (`NDS.cpp`) | lazily run counters, TimerTimestamp | RunTimers, TimerGetCounter, TimerStart, reload writes | scheduler, interrupts | overflow and cascade at a distance | same count and interrupts as timers that count every cycle |
| Geometry FIFO (`GPU3D.cpp`) | pipe, FIFO, stall queue, GXSTAT, cycle count, pipelines | CmdFIFOWrite, CmdFIFORead, Run, FinishWork, status reads, VBlank | ARM9, DMA, interrupts | stalls and restarts the CPU | commands in order; the status is true; no stall for ever |
| Wifi hardware (`Wifi.cpp`, `WifiAP.cpp`) | MAC registers, transfer slots, MP state | USTimer, StartTX, CheckRX, MP exchange | LocalMP, scheduler | lockstep with other processes, timeouts | exchanges finish; clients follow the host |
| the rest | | | | CPU cores and JIT, 2D engines, VRAM mapping, cartridges, DSi devices, savestates, cheats, GDB stub, OpenGL, platform layer, UI, storage images, vendored code | see `PROJECT.json`, "components" |

`PROJECT.json` lists all of them with their status, and under "hazards" what in
this code is hard to test, each at its line, with the properties that would catch
it.

## 2. The modules

| module | models | with |
|---|---|---|
| `BoundedQueue` | what a FIFO promises | abstract |
| `FIFO` | `FIFO.h` | `Queues_proofs` |
| `IPC` | the IPC and interrupt registers | `Queues_proofs` |
| `IPCDriver` | `IPC` under two programs that halt | `Queues_proofs` |
| `Timers` | the timers of one CPU | `Timers_proofs` |
| `GXFIFO` | the ways of a command into the 3D engine, as operators on its state | |
| `GXTransfer` | `GXFIFO` under the ARM9, its DMA channels and the frame loop | `MCGXTransfer`, `Geometry_proofs` |
| `SPUOutput` | sound from the mixer to the host | `Queues_proofs` |
| `Devices` | `FIFO`, `IPC`, `IPCDriver`, `Timers`, `GXTransfer` and `SPUOutput`, one of them at a time | `MCDevices`, `Timers_proofs` |
| `EmuThread` | the emulator thread and the UI thread | `MCEmuThread`, `EmuThread_proofs` |
| `BroadcastChannel` | what local multiplayer promises about frames | abstract |
| `LocalMP` | `qt_sdl/LocalMP.cpp`, with the calls of `Wifi.cpp` | `MCLocalMP`, `LocalMP_proofs` |
| `SoftRenderer` | the render thread and its driver | `MCSoftRenderer`, `SoftRenderer_proofs` |
| `SaveManager` | `qt_sdl/SaveManager.cpp` and its callers | `MCSaveManager`, `SaveManager_proofs` |
| `Scheduler` | `RunFrame` and the event list | `MCScheduler`, `Scheduler_proofs` |

In all of them a variable has the name of the field it stands for, an action that
of the function, and `pc`-like variables (`pc`, `mpc`, `rpc`, `epc`, `tpc`) say
where a thread is between two of its steps. `map` in `PROJECT.json` gives the
lines of every definition. Definitions under a comment that begins with "Mutant"
are used by no specification: each one is a plausible mistake in the definition
that follows, and shows that a property notices it.

### FIFO
The storage keeps old words; Clear zeroes the first slot only; Read fetches its
word before it tests for emptiness. `Contents` is the refinement mapping: the
words `Peek` shows. `DynamicFIFO` has the same code. `RingBuffer`, which
overwrites, and DoSavestate are not modelled.

### LocalMP
A critical section under the segment's lock is one step. Everything the code does
outside it is a step of its own: the posts after a send (frame posts one
semaphore at a time, in `PostFrame`; the reply's single post in `PostReply`), the
wait before a receive and its timeout, and, when a segment is made, the attach,
the creation and the formatting. One cell of a ring stands for the size of a packet header; payloads
are whole cells, told apart by `data`. Writes and reads are placed cell by cell,
so that a packet that wraps is cut where the code cuts it. The caller is reduced
to what it guarantees: the console's thread makes one call at a time, a host
collects replies after its command, a client answers after it received one.
`WifiReset` is `Wifi::Reset` on a console that goes on.

Semaphores are those of POSIX; the Windows limit is `SemMax`, never reached here.
`MaxBacklog` keeps a sender less than a ring ahead of its readers: the code does
not check this (a TODO says so), and what follows an overrun is not examined.
`MaxBegins = 1`: an instance that leaves and comes back while another is between
unlocking and posting gets a wakeup that belongs to its earlier life. That is a
hazard listed at line 433, and not part of what the run shows; the proofs exclude it
by a hypothesis, `BeginsQuietly`.

### SoftRenderer
The emulator thread (`Progress`, and `Requests` for what others make it do) and the render thread (`RT`) interleave at each
access to a semaphore or a shared flag. `Semaphore_Reset` is two steps, as
QSemaphore makes it. What is drawn is only a number: each time the renderer is
asked for a picture it gets a new one (modulo 3), and `drawn[l]` is the number
line `l` was last finished in. `FrameIdentical` is chosen freely.

Four things upset the protocol: a write to VCOUNT (abort), an interrupt in sleep
mode (wakeup), a savestate, and a console reset. After each of them the properties
of plain frames can fail: the code posts, resets and waits in ways that cross the
render thread's. `upsets` records them, and the properties are stated for a
renderer that has not been upset. A new renderer (`Replace`, `Construct`) has new
semaphores, and the record is cleared there: so the run also shows that replacing
the renderer mends whatever was wrong, for which it must first be able to stop
the thread (`StopReturns`, unconditional). `FramesKeepComing`, without the
condition, is refuted by a savestate alone.

### SaveManager
The UI acts between two frames, while the emulator thread is paused. The timer is
"0" (none), "recent" or "past" its two seconds. `SetPath` is a savestate that
relocates the save file, `SetPathReload` one that reads it back; a file may fail
to open when it is written. `failures` and `setpaths` record that, and
`Undisturbed` says that neither has happened.

### Scheduler
Cycles are counted; instructions take any length up to a bound and may schedule
what the CPU they run on can schedule. The events are those of the LCD (three
functions), SPU, RTC, display FIFO, SPI and the divider; the others behave as one
of these. A pass works on the mask it read at its start, from the lowest event up,
and each handler is a step. Interrupts a handler may raise are chosen freely, and
one that wakes the machine sets the wakeup flag as SetIRQ does. Stopping the
console, savestates and changes of the DSi's clock are left out.

### IPC, IPCDriver
`IPC` lets both CPUs make every access at any time. `IPCDriver` lets them make the
accesses of a program: it asks to be told when it may send, halts when it has
nothing to do, and serves its interrupts. The program is not in the repository,
what it relies on is: the registers, the lines, halting.

### Timers
The code advances its counters only in RunTimers, at the end of a slice or when a
program reads a counter or starts a timer; `behind` is how many cycles that is
late. Beside it `exact` counts as the console does, one cycle at a time, and
`due` collects the overflows. The cascade of HandleTimerOverflow is `Carry`,
folded over the timers above. A program writes `reload` without RunTimers, and an
overflow that is past but not yet run then takes the new value: those timers, and
the ones chained to them, are `spoilt` and excepted.

### GXFIFO, GXTransfer
`GXFIFO` gives the state after each function, with the names of `GPU3D.cpp`:
CmdFIFOWrite puts a command in the pipe, the FIFO or the stall queue; CmdFIFORead
refills them from behind; ExecuteCommand charges its cycles; Run is what
`GPU3D::Run` does with the cycles gone by. A command is its kind: a swap of the
buffers (which holds the engine until the vertical blank), a push or pop (which
is counted), or any other. `pipeline` is the longest of the three pipelines.

`GXTransfer` is the ARM9's half of RunFrame: a slice goes to the stalled ARM9
(`StalledSlice`), to the channels in turn (`MoveWord`, `StopMoving`) or to the
program, which stores commands, reads GXSTAT, acknowledges the interrupt or
writes a channel's control register. One word and one instruction take one
cycle. A channel keeps beside its fields the words `moved` and the `goal`, and
`resumed`: a program that stops a channel in mid-transfer and enables it again
gets the rest of the old transfer, because Start looks at InProgress.

### SPUOutput
Samples are numbered, modulo `Modulus`; `Silence` is a cleared one. TransferOutput
pushes the read position on when it meets it, and AudioSync keeps that from
happening as long as the callback comes in time. `gaps` are the samples that may
follow a gap: those a push has exposed after frames without sync or after a
timeout, and the first one after a stop or reset. Reset clears the back buffer
but keeps its position, as the code does, so a frame begun before it goes out as
silence.

### Devices
The devices above share no state with one another in these modules, so they are
checked as a sum and not as a product: `device` is chosen at the start, and the
others stand still. Each action of `Devices` is one device's next-state relation
with the other devices unchanged.

### EmuThread
Both threads are cut at each read and write of a shared field. `ui` holds the
calls the slot that is running has yet to make (a slot is `User`, the calls are
`Call`), so that the emulator thread may move between any two of them. A spin is
an action that waits for its condition. What is loaded, saved or changed at once in
a pause is one step, the call "work". A slot that asks for a file first, or tells of
a failure, does so in the call "pick" and uses the console in the call "load" after
it. A dialog of Qt runs the event loop: while "pick" is at the head of `ui`, the slots
that need no menu of the main window (pause and frame step by hotkey, reset, a stop of
the console, a gained or lost focus) put their calls in front of what is left (`Event`).

In a turn of its loop the emulator thread runs the input code of this fork, and then
a frame. The input code may run frames of its own within the turn: `inner` counts
those still wanted. It touches the console before each of them, running or paused
(`Input`). A stop found after a frame (`EmuThread.cpp:547`) leaves that frame and not
the thread: the frames still wanted follow in the paused branch, and the thread ends at
the head of the loop (`Leave`).

`NoFrameInPause` says what a pause is good for: from the end of an emuPause until all
pauses counted are undone no frame is run, and a slot that works at once does so in
that time. It does not say more, because more does not hold. What runs while the user
chooses a file may undo the pause: onAppStateChanged unpauses on gaining the focus
whatever else has paused, and a reset runs the console. The file is then loaded into a
console that runs (the model reaches "load" at the head of `ui` with epc = "frame").
Nor is the console left alone by the thread: its input code uses it in every turn.

Two ways of pausing do not wait for the thread, and `unsure` records them. A pause
soon after an unpause finds EmuStatus still "Paused" from the pause before and
returns at once, while the thread may be about to begin a frame; and after a
frame step in a pause nobody waits for that frame. A stop is lost when it falls
between the read and the write of the line that ends a frame step
(`EmuThread.cpp:384`): that is the exception in `StopIsObeyed`, `epc # "step!"`.

## 3. What is checked

| run | properties | bounds |
|---|---|---|
| `devices` | DevTypeOK, LineCurrent, RecvIsTold, DoneIsTold, ImplementsQueue, DriverInOrder, DriverWakesUp, EverythingArrives, TimersExact, CommandsInOrder, StatusTruthful, TransfersExact, StallsAndTransfersEnd, HeardInOrder | ring: 3 slots, 3 words. IPC: queues of 2, one word (contents do not matter there), IE nothing or everything, no IPCSYNC interrupts. Programs: queues of 2, 3 words each way, so that each queue fills and its sender waits. Timers: 3, counters of 2 counts of 2 fractions, up to 2 cycles late; the first fast, slow or off, the others chained. Geometry: pipe and FIFO of 3, stall queue of 2, slices and vertical blanks of 2 cycles; one channel that moves a word at once, one that repeats 3 words in chunks of 2. Sound: ring of 4, back buffer of 2, reads of 1 or 3 |
| `gxfifo_overflow` | NothingDropped: **violated** | the same engine, no transfers |
| `emuthread` | EthTypeOK, NoFrameInPause, ContextHandedOver, SpinsEnd, StopIsObeyed | 2 pauses before a slot begins, so that it may make a third; 1 dialog, 1 frame by the input code, so that a stop can find one still wanted; no bound on the number of slots called, nor of those within another |
| `localmp_frames` | TypeOK, OneWakeupPerFrame, InstancesPresent, ImplementsChannel, EveryFrameRead | 2 processes, ring of 6 cells, packets of 2 or 3 cells that start so that the first ends before, at or after the end of the ring; 2 frames |
| `localmp_replies` | RepliesAnswerCmd | 2 processes that create the segment; 3 frames; commands 2 apart, a window of 1, so that a late reply falls outside it |
| `localmp_create` | PresentInBitmask: **violated** | 3 processes, no traffic |
| `softrenderer` | GPUStateProtected, NothingLeftOver, LinesInStep, StopReturns, PlainFramesKeepComing | 2 lines, a first and a last; no bound on the number of frames |
| `softrenderer_hang` | FramesKeepComing: **violated** | 2 lines, savestates only |
| `savemanager` | TypeOK, BufferFollowsGame, SavedUnlessDisturbed, PendingIsTimed, EventuallySaved | 3 bytes of 2 values, 2 paths; 2 writes, 1 path change, 1 failure |
| `savemanager_moved` | SavedOnClose: **violated** | the same, no failures |
| `scheduler` | TypeOK, NothingOverdue, LatenessBounded, CPUsInStep, SamplesKeepTime | slices of 4 cycles, lines of 7, frames of 2 lines, 9 cycles and the slice begun in them: every event fires, overshoots and collides with every other |
| `scheduler_wakeup` | FrameHasLCD: **violated** | frames of 14 cycles, 36 cycles |

Deadlock is not checked: with its bounds used up a run may stop, a program that
has sent and received everything halts, and the renderer really can stop (see
below). That nothing waits for ever is stated by liveness properties instead.

`ImplementsChannel` and `ImplementsQueue` are refinements: the specification with
a mapping implements the abstract one. `RecvIsTold`, `DoneIsTold`,
`TimersExact`, `CommandsInOrder`, `TransfersExact`, `HeardInOrder` and
`LinesInStep` are properties of steps. `EveryFrameRead`, `StopReturns`,
`PlainFramesKeepComing`, `EventuallySaved`, `EverythingArrives`,
`StallsAndTransfersEnd`, `SpinsEnd` and `StopIsObeyed` are liveness.

The bounds are the smallest at which the cases meet: in `devices` the stall queue
fills while a transfer is under way, a chunk ends in a stall, two links of a timer
chain wrap in one catch-up, and a read of the ring wraps; in `emuthread` a dialog
is open while the focus is lost and gained, a frame step is under way and the
window is closed.

### Fairness
Only what the scheduling of the code gives: each host thread goes on when it can
(weak fairness of `Progress`, what the emulator thread does by itself, and of `RT`;
of the flush thread and its timer); a poster
ends its loop, and a console with wifi on polls (`USTimer` runs for ever); an
emulated CPU gets a turn in every slice; the emulator thread and the UI thread each
go on with the call they are in, while the user need never call a slot.
`StallsAndTransfersEnd` has its assumption in its statement, that RunFrame is
called again and again (`GxFairness`), and except where it says so does not rest
on what the program does. Nothing is assumed of the game, the user
or other processes; in `SaveManager` frames are assumed to end, not to begin.

### What the violated properties show
* `gxfifo_overflow`: GXFIFOStall stalls the channels, but lets the program run on to
  the end of its slice. What it stores then goes to the stall queue, and what
  that cannot take is dropped; the comment there expects a single store
  instruction at most.
* `localmp_create`: the segment is created, then locked, then cleared; a process
  that attaches in between joins, and loses its bit. Two instances can then have
  one ID, one semaphore and one sender number.
* `softrenderer_hang`: `Semaphore_Reset` reads a count and then acquires it. If the
  render thread takes the post in between, the emulator thread waits for a post
  nobody will make.
* `savemanager_moved`: SetPath asks for a flush that only the next frame turns
  into a version; closing in between forgets it. (The shortest trace has no buffer yet,
  where a further frame would write nothing either; the same steps lose a save once the
  game has written one.)
* `scheduler_wakeup`: a machine that falls asleep in the pass that ends a frame, or
  falls asleep and wakes in one pass, goes on with a frame that is over. It has no
  LCD event, and RunFrame does not return.

More weaknesses came up and are described in "hazards" or above: the late post of a
reply (`LocalMP.cpp:468`), lines shown too early after a wakeup (`NDS.cpp:1338`),
samples dropped when RunFrame is prolonged by sleep (`SPU.cpp:900`), pauses that do
not wait and the stop that is lost (`EmuThread.cpp:1095` and `:384`), pauses undone while
a file is chosen (`Window.cpp:1471`) and the input code that uses a paused console
(`EmuThread.cpp:942`), the reload value
that comes too early for an overflow already past (`NDS.cpp:3230`), and the channel
that goes on with its old transfer (`DMA.cpp:159`).

## 4. What is proved

Each theorem holds for every value of the constants that meets the assumptions
named in its module; none of them needs the bounds of the runs. The proofs about the
parts of `Devices` build on one another: `Geometry_proofs` has the lemmas about folds,
`Queues_proofs` extends it, and `Timers_proofs` extends that.

* `Queues_proofs`, the container. `Inv` is TypeOK and PositionsAgree: the write position
  is the read position plus the occupancy, round the ring. It is inductive because every
  operation moves exactly the counters that keep the sum. **CountersAgree** states
  it. **RingImplementsQueue** adds that a Write appends to `Contents`
  (`WriteAppends`), a Read takes its head (`ReadTakesHead`), so that every step is
  one of the queue or a stutter.
  Of the registers, `IPCInv` has the types, and
  that the cached line is what IME, IE and IF
  say; it is preserved because every write to one of the three goes through
  UpdateIRQ. **IPCTypes** and **LineIsCurrent** follow; **ReceiverIsTold** and
  **SenderIsTold** distinguish for each step who sends, who reads and who writes
  the control register. The read that empties a queue is the one that took its
  only word (`LastOne`), which is when the code raises the interrupt.
  Of the two programs of `IPCDriver`, `DrvInv` has the types and the settings
  they leave alone, `InOrder`, and `Informed`: as long as a word waits, or a
  queue whose sender wants to know is empty, the interrupt that tells of it is pending or
  in the hands of its handler. Without `Informed` a program could halt just after the
  handler took an interrupt for an earlier word. `AppendedLater` and `HeadMoves` are the
  facts about queues behind `InOrder`. **ProgramsKeepOrder** and **ProgramsWakeUp** state
  both of `DevSpec`, for the behaviours in which the programs are the device that runs.
* `SaveManager_proofs`. **PendingVersionsAreTimed** needs no strengthening: the
  version and the timer are set and reset together under the lock. For
  **CopiesAddUp** and **ClosingSaves** the invariant `IInv` says what each copy
  lacks: the first buffer, if there is one, is the game's data; the second one is
  the first unless a flush is requested; the file is the second one unless the
  versions differ; and where the emulator thread is bounds what can be pending, so
  that at closing no request is left. All three parts are conditional on the path
  and the file having been left alone. `CopiedIsWritten` is the arithmetic of a
  write that runs over the end. **VersionsAndBuffers** is TypeOK, from `StoredTypes`,
  which adds what the copies of a write are made of.
* `Geometry_proofs`, about the 3D engine and the channels that feed it. `GxInv` has three
  parts. `Engine` says that the engine is well formed: `Fed`, no command is in the FIFO
  while the pipe is empty; `StackCounted`, the count of pushes and pops is the one of
  those queued; `IdleEmpty`, what is not busy has nothing to do; `StallsWhenFull`, the
  ARM9 stands still exactly while commands wait outside, and these wait only while the
  FIFO is full; `IrqTold`. It is why a refill, a store and an execution can each rely on the
  others: commands would overtake one another if the pipe were filled past a FIFO that is
  not empty, or the FIFO past the stall queue. In the middle of CmdFIFORead it
  does not hold, which is what `Consistent` and its parameter `over` are for (the
  command that was taken out and is still counted). `Turns` bounds the slices, and
  `TransfersInv` says of a channel that what it moved and what it has left make its
  `goal`, unless it was resumed. **EngineTellsTheTruth**, **EngineKeepsOrder** and
  **TransfersMoveAll** follow.
  Stores, refills and runs are folds over sequences. The value of a fold is that of a
  recursive function, so something has to be shown to satisfy its equation: `FoldTable`
  does it for all of them, by the smallest set of indices for which it would fail;
  `WrittenSteps`, `UnqueuedSteps` and `NextSteps` make of it the table of the states that
  a fold passes through; and `CountUp` takes an invariant along that table. PipeDepth > 1
  is assumed, since a pipe of one command would be refilled by halves of none (the code's
  holds 4).
* `Queues_proofs`, the sound. `Unheard` is what waits to be heard, the ring and behind it the back
  buffer. `SoundInv` says that it is numbered in a row up to the sample that is mixed next
  (`InARow`), but for one sample of silence in front after a reset; that its first number
  follows the one heard last or may follow a gap (`Expected`); and, in `RoomLeft`, that a
  frame that was synced finds room in the ring, so that only an unsynced one can push
  samples out, and that silence only goes into an empty ring. The effect of TransferOutput
  on `Unheard` is the work (`PutKeeps`, `PassedAll`): it loses its first d samples and
  nothing else changes. **SoundKeepsOrder** follows. It rests on SpuAssumption: the samples
  AudioSync leaves and those of one frame fit into the ring together.
* `Timers_proofs`. **LateTimersAreExact** is TimersExact. The code runs one timer after the
  other, each through all its overflows, and with each overflow the chain above it; the
  console runs all timers at once, cycle by cycle. `Ran` describes the console since
  the last catch-up: what the timers showed after each cycle, `h`, and which of them wrapped
  in it, `w`. `TimerInv` says that there is such a history from the counters of the code to
  what the console shows now, for the timers that are not spoilt; since a spoilt timer
  spoils those above it, and a chain only goes up, these can be followed without the
  others (`Closed`). Whose overflows a timer counts is `Led`; it is led by one running timer
  at most (`OneLeader`) and wraps only if that one does (`WrapsAreLed`). `OverflowIs` equates
  one overflow of the code, with the chain it sets off, and one cycle of the console;
  `RunMatches` goes through the cycles and finds, for each, how many overflows the code has
  handled when the timers it leads are where the console has them after that cycle; and
  `CatchUpFollows` goes through the timers. That there is a turn of RunTimer's loop for
  every overflow rests on there being one per cycle at most, which is what the width of a
  count against the fastest prescaler gives (TimerSettings in TimerAssumption). The loops are
  folds, turned into tables of states with `FoldTable` again.
  **DevicesKeepTypes** is DevTypeOK, from the invariants of all devices; of the timers it
  says that no counter is at its top or past it after a catch-up, however late.
* `EmuThread_proofs`. `PauseInv` says that a slot asks for a pause, awaits it and only
  then works at once, and asks for no pause once it has asked the user (`CallsInOrder`,
  `PickLast`); that the status says Running from before EmuRunning is
  read for the last time until the frame is over (`StatusTold`); and that a thread told to
  pause that has said so does not go on to a frame (`RestIsSafe`), which it is
  whenever a pause is in force (`PauseUnderWay`). Nested pauses rest on the first one,
  which is why the last part speaks of any depth. `UserCalls` says once what the slots
  can do: begin with one of a few lists of calls (`GoodSlot`), put one in front of a slot
  that asks, or go on after the user has answered. **PausesHold** is NoFrameInPause, for
  any depth and any number of slots and of slots within slots.
  For **ContextsHandedOver** the invariant `ContextInv`
  says where the change of video settings has got to: which of its calls are left, what
  request is out, and hence whose context the emulator thread draws with. Two places need
  care. Until the thread has made its console the first pause keeps every slot from
  asking (`NotStarted`); and a window that closes gives its context up for good
  (`Closing`). **ThreadTypes** needs `Nesting`: the calls that are left nest at most two
  pauses, and what is left behind an event none, which is why the count stays within one
  of its bound.
* `SoftRenderer_proofs`. `RenderInv` says of a plain frame (one that no savestate, VCOUNT
  write or skipped line has upset) where the render thread can be for each place of the
  emulator thread: asked to draw, begun, drawing, or done. Each of these fixes the three
  semaphores, and `Drawn` how the lines announced add up with those shown. `AbortEnds`
  keeps an aborted frame's flag from outliving its renderer, which is what makes frames
  plain again. **GPUStateIsProtected**, **SemaphoresBalance** and the action property
  **LinesAreDrawn** follow for any number of lines.
* `Scheduler_proofs`. `SchedInv` adds to the properties what holds in the middle of a
  pass. A slice ends before the next event, but for one that the CPU running schedules
  itself, which shortens its target (`EventTimes`); a turn overshoots its target by an
  instruction at most (`Clocks`); and a handler puts its next event more than an overshoot
  ahead, so that a pass leaves it in the future. `LCDTime` and `SoundTime` say the same of
  the two events that are never off the list for long. **SchedulerTypes**,
  **NothingIsOverdue**, **LatenessIsBounded**, **CPUsStayInStep** and
  **SamplesKeepSystemTime** are its parts. They rest on ClockAssumption (the code's margin
  is 8 cycles, the proofs need one) and on DelayAssumption: the longest instruction,
  block or DMA unit is shorter than every period a device asks for. The latter is a
  hypothesis on what runs; where a JIT block or a DMA burst is longer (a long block
  while the display FIFO is in use, for one), an event can be overdue when a pass ends.
* `LocalMP_proofs`. `MPTypes` is inductive: a process with its wifi on is attached to
  a formatted segment (`Attached`), the write offsets stay in their rings
  (`OffsetStays`, `PacketStays`), and what lies in a cell as a header has a length
  that was sent (`WriteKeepsCells`), so that a reader too stays in the ring, even one that
  reads what was overwritten. **OffsetsStayInRings** is TypeOK. **InstancesHoldTheirIDs**
  has two hypotheses on the constants. SegmentStays: some process stays attached. Without
  it the segment may be created and formatted while others join, and the run
  localmp_create shows what becomes of the bitmask. RoomForAll: no more processes than IDs,
  which leaves a free one to every process that joins (`SomeIDFree`, by counting).
  The other three rest on what lies in a ring. `HeadersWhole`: behind whatever a reader
  can take for a header lies its whole payload, in a part of the ring the writer is not
  in; so even an overrun leaves no half-written packet. `PutWrites` is the arithmetic
  of both writes of PutPacket, wherever they wrap. `Behind` says how far a reader is
  behind: what is between its offset and the writer's is a `Chain` of k packets, each
  beginning where the one before ends. A frame that is sent makes the chain longer at
  its end (`ChainAppended`), one that is read shorter in front (`ChainShortened`), and
  what `UnreadOf` parses is that chain (`UnreadIs`); its recursive function is shown to
  satisfy its equation as the folds are (`ParseExists`). `WakeInv` adds to these that k
  is the number of wakeups (`OneEach`), and that whoever has its wifi on is posted to
  (`Connections`). **WakeupsMatchFrames** is OneWakeupPerFrame. For
  **RingsImplementChannel** each step is shown to be one of `BroadcastChannel`: a send
  appends to every inbox but the sender's (`BroadcastIsSend`), a read takes the head of one
  or steps over a packet of the reader's own (`ReadIsDelivery`), and posts and
  waits are stutters. **RepliesAreForTheirCmd** is RepliesAnswerCmd: a client reads CMD
  frames in the order of their timestamps, which is where the order of the channel comes in
  (`Stamps`); a reply in the ring carries the timestamp of a CMD its client has read
  (`RepliesStamped`); and a header that passes the staleness test, wrapped or not, is no
  older than the CMD (`FreshReply`).
  All three have these hypotheses. KeptUp: SegmentStays and RoomForAll as above, and
  ReadersKeepUp, a sender is less than a ring, and not more packets than a semaphore counts,
  ahead of any reader (the code does not see to it; the bound is in the guard of the sends).
  BeginsQuietly, of the behaviour: nobody switches wifi on while a post to it is under
  way, since Begin clears the semaphore and that post would come on top. The bounds of
  localmp_frames meet them: each process switches on once there. With two times TLC finds
  OneWakeupPerFrame violated, which is the hazard at line 433, and with BeginsQuietly as
  a constraint on the steps finds it holds again. The third theorem adds StampsApart:
  CMD frames are further apart than the window is wide. localmp_replies goes beyond its
  hypotheses, since there the processes also create the segment, and may share an ID while
  they do.

Only model-checked:

* liveness, here as everywhere: fairness and ENABLED are beyond the prover. Every other
  property of a run that passes is stated by a theorem;
* RepliesAnswerCmd where the processes also create the segment (see above).

## 5. What could come next

1. `WifiMP`, the microsecond timer and the exchanges of `Wifi.cpp`, composed with
   `LocalMP`.
2. The DSi's second IPC enables and NDMA, other start modes of the DMA channels with
   the slices of `Scheduler`.
3. The SD/MMC and AES FIFOs of the DSi; VRAM mapping with its dirty tracking; the
   JIT's block cache.
4. Proofs: of `LocalMP`, the replies without the hypothesis that one process stays, and
   how the wakeups of the reply ring relate to the replies in it.

## 6. What is not modelled, and why

Pixels, sound samples, instruction semantics and file formats are data: their
correctness is a matter of unit tests. Device register decoding has no
interleaving. OpenGL, Qt and SDL calls, libslirp, teakra, FatFs and the other
vendored libraries are outside. Undefined behaviour on shared strings
(`SaveManager::Path`) is left out; SetPath is taken to be one step.
