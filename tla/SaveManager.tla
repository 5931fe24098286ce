---------------------------- MODULE SaveManager ----------------------------
(***************************************************************************)
(* Writing save memory back to its file (frontend/qt_sdl/SaveManager.cpp). *)
(* The emulator thread copies what the game writes into Buffer and, once a *)
(* frame, Buffer into SecondaryBuffer; a flush thread writes that to the   *)
(* file two seconds after the last change.  The user interface retargets   *)
(* or destroys the manager while the emulator thread is paused between     *)
(* two frames.  Under SecondaryBufferLock a critical section is one step.  *)
(***************************************************************************)
EXTENDS Integers

CONSTANTS
  Size,        \* bytes of save memory
  Values,      \* what a byte can hold
  Paths,       \* save files
  MaxWrites,   \* bound: writes of the game
  MaxSetPaths, \* bound: savestates that relocate the save file
  MaxFailures  \* bound: times the file cannot be opened for writing

ASSUME SizeAssumption == Size \in Nat \ {0}
ASSUME BoundsAssumption == {MaxWrites, MaxSetPaths, MaxFailures} \subseteq Nat

VARIABLES
  savedata,                             \* the cartridge's save memory
  file,                                 \* the files' contents
  epc,                                  \* the emulator thread and, between frames, the UI
  tpc,                                  \* the flush thread
  Path, Running,
  Buffer, FlushRequested,
  SecondaryBuffer, FlushVersion, PreviousFlushVersion,
  TimeAtLastFlushRequest,               \* 0, or "recent", or "past" two seconds
  writes, setpaths, failures            \* counts for the bounds

game == <<savedata, writes>>
first == <<Buffer, FlushRequested>>
second == <<SecondaryBuffer, FlushVersion, PreviousFlushVersion, TimeAtLastFlushRequest>>
faults == <<setpaths, failures>>
vars == <<game, first, second, file, epc, tpc, Path, Running, faults>>

Bytes == 0 .. Size - 1
Images == [Bytes -> Values]
NoBuffer == [b \in {} |-> 0]            \* a null buffer, of length 0

Init == /\ savedata \in Images
        /\ \E p \in Paths : /\ Path = p
                            /\ file = [q \in Paths |-> IF q = p THEN savedata ELSE NoBuffer]
        /\ epc = "frame" /\ tpc = "sleep" /\ Running = TRUE
        /\ Buffer = NoBuffer /\ FlushRequested = FALSE
        /\ SecondaryBuffer = NoBuffer
        /\ FlushVersion = 0 /\ PreviousFlushVersion = 0
        /\ TimeAtLastFlushRequest = "0"
        /\ writes = 0 /\ setpaths = 0 /\ failures = 0

-----------------------------------------------------------------------------
(* The emulator thread *)

Written(off, len) == {(off + k) % Size : k \in 0 .. len - 1}

\* Mutant: a write that wraps round the end is copied only up to the end.
CopiedNoWrap(off, len) == {b \in Bytes : off <= b /\ b < off + len}

\* The bytes RequestFlush copies: in two parts if the write wraps.
Copied(off, len) ==
  IF off + len > Size
  THEN LET rest == len - (Size - off)
       IN {b \in Bytes : off <= b \/ b < (IF rest > Size THEN Size ELSE rest)}
  ELSE {b \in Bytes : off <= b /\ b < off + len}

\* The game writes save memory; the cartridge reports it with RequestFlush.
\* A buffer of another length is replaced whole.
GameWrite(off, len, v) ==
  /\ epc = "frame" /\ writes < MaxWrites
  /\ writes' = writes + 1
  /\ savedata' = [b \in Bytes |-> IF b \in Written(off, len) THEN v ELSE savedata[b]]
  /\ Buffer' = [b \in Bytes |-> IF Buffer = NoBuffer \/ b \in Copied(off, len)
                                THEN savedata'[b] ELSE Buffer[b]]
  /\ FlushRequested' = TRUE
  /\ UNCHANGED <<second, file, epc, tpc, Path, Running, faults>>

EndFrame == /\ epc = "frame"
            /\ epc' = "check"
            /\ UNCHANGED <<game, first, second, file, tpc, Path, Running, faults>>

\* Mutants: the version is lowered, or the debounce timer not started.
LowerVersion == FlushVersion - 1
NoTimer == TimeAtLastFlushRequest

NextVersion == FlushVersion + 1
StartTimer == "recent"

CheckFlush ==
  /\ epc = "check"
  /\ epc' = "between"
  /\ \/ /\ ~FlushRequested
        /\ UNCHANGED <<first, second>>
     \/ /\ FlushRequested
        /\ SecondaryBuffer' = Buffer
        /\ FlushRequested' = FALSE
        /\ FlushVersion' = NextVersion
        /\ TimeAtLastFlushRequest' = StartTimer
        /\ UNCHANGED <<Buffer, PreviousFlushVersion>>
  /\ UNCHANGED <<game, file, tpc, Path, Running, faults>>

NextFrame == /\ epc = "between"
             /\ epc' = "frame"
             /\ UNCHANGED <<game, first, second, file, tpc, Path, Running, faults>>

-----------------------------------------------------------------------------
(* The user interface, with the emulator paused *)

\* After saving a state: future flushes go to another file, starting now.
SetPath(p) ==
  /\ epc = "between" /\ setpaths < MaxSetPaths
  /\ setpaths' = setpaths + 1
  /\ Path' = p
  /\ FlushRequested' = TRUE
  /\ UNCHANGED <<game, Buffer, second, file, epc, tpc, Running, failures>>

\* After loading a state: take the contents of the file that goes with it.
SetPathReload(p) ==
  /\ epc = "between" /\ setpaths < MaxSetPaths
  /\ setpaths' = setpaths + 1
  /\ Path' = p
  /\ Buffer' = IF file[p] = NoBuffer THEN Buffer ELSE file[p]
  /\ UNCHANGED <<game, FlushRequested, second, file, epc, tpc, Running, failures>>

\* The destructor: stop the thread, wait for it, flush what is pending.
Close == /\ epc = "between"
         /\ Running' = FALSE
         /\ epc' = "wait"
         /\ UNCHANGED <<game, first, second, file, tpc, Path, faults>>

NeedsFlush == FlushVersion # PreviousFlushVersion

\* Mutant: the destructor leaves the last flush to the thread.
NoFinalFlush == "closed"

AfterWait == IF SecondaryBuffer # NoBuffer /\ NeedsFlush THEN "flush" ELSE "closed"

CloseWaited == /\ epc = "wait" /\ tpc = "ended"
               /\ epc' = AfterWait
               /\ UNCHANGED <<game, first, second, file, tpc, Path, Running, faults>>

-----------------------------------------------------------------------------
(* FlushSecondaryBuffer, and the flush thread *)

\* The locked part.  Even if the file cannot be opened the data counts as
\* flushed.
WriteFile ==
  /\ \/ /\ file' = [file EXCEPT ![Path] = SecondaryBuffer]
        /\ UNCHANGED failures
     \/ /\ failures < MaxFailures /\ failures' = failures + 1
        /\ UNCHANGED file
  /\ PreviousFlushVersion' = FlushVersion
  /\ TimeAtLastFlushRequest' = "0"
  /\ UNCHANGED <<game, first, SecondaryBuffer, FlushVersion, Path, Running, setpaths>>

CloseFlush == epc = "flush" /\ epc' = "closed" /\ WriteFile /\ UNCHANGED tpc

ThreadWake ==
  /\ tpc = "sleep"
  /\ tpc' = IF ~Running THEN "ended"
            ELSE IF TimeAtLastFlushRequest # "past" THEN "sleep" ELSE "needs?"
  /\ UNCHANGED <<game, first, second, file, epc, Path, Running, faults>>

\* Checked without the lock.
ThreadNeedsFlush ==
  /\ tpc = "needs?"
  /\ tpc' = IF SecondaryBuffer # NoBuffer /\ NeedsFlush THEN "flush" ELSE "sleep"
  /\ UNCHANGED <<game, first, second, file, epc, Path, Running, faults>>

ThreadFlush == tpc = "flush" /\ tpc' = "sleep" /\ WriteFile /\ UNCHANGED epc

\* Two seconds without a new request.
Tick == /\ TimeAtLastFlushRequest = "recent"
        /\ TimeAtLastFlushRequest' = "past"
        /\ UNCHANGED <<game, first, SecondaryBuffer, FlushVersion, PreviousFlushVersion,
                       file, epc, tpc, Path, Running, faults>>

-----------------------------------------------------------------------------

Next ==
  \/ \E off \in Bytes, len \in 1 .. Size, v \in Values : GameWrite(off, len, v)
  \/ EndFrame \/ CheckFlush \/ NextFrame
  \/ \E p \in Paths : SetPath(p) \/ SetPathReload(p)
  \/ Close \/ CloseWaited \/ CloseFlush
  \/ ThreadWake \/ ThreadNeedsFlush \/ ThreadFlush \/ Tick

Spec == Init /\ [][Next]_vars

\* Frames end and are checked, time passes and the thread runs: none of them
\* depends on anything but the scheduler.
Fairness == /\ WF_vars(EndFrame) /\ WF_vars(CheckFlush) /\ WF_vars(Tick)
            /\ WF_vars(ThreadWake) /\ WF_vars(ThreadNeedsFlush) /\ WF_vars(ThreadFlush)
            /\ WF_vars(CloseWaited) /\ WF_vars(CloseFlush)
FairSpec == Spec /\ Fairness

-----------------------------------------------------------------------------
(* Properties *)

TypeOK ==
  /\ savedata \in Images
  /\ Buffer \in Images \cup {NoBuffer} /\ SecondaryBuffer \in Images \cup {NoBuffer}
  /\ PreviousFlushVersion <= FlushVersion
  /\ TimeAtLastFlushRequest \in {"0", "recent", "past"}

\* The save file is where it was, and could be opened whenever it was written.
Undisturbed == setpaths = 0 /\ failures = 0

\* The partial copies add up: after any sequence of writes, wrapping or not,
\* the first buffer is the save memory (a reload replaces it with a file's).
BufferFollowsGame == setpaths = 0 /\ Buffer # NoBuffer => Buffer = savedata

\* "We keep versions in case the user closes the application before a flush
\* cycle is finished": once the manager is destroyed, the current file holds
\* what the game last saved.
SavedOnClose == epc = "closed" => file[Path] = savedata

\* Closing loses nothing at whatever point of the flush cycle it comes, as long
\* as the save file was left alone.
SavedUnlessDisturbed == Undisturbed => SavedOnClose

\* A version that has not reached the file always has its timer running: the
\* thread, which looks at the timer first, never overlooks it, whatever becomes
\* of the file and whichever file it is.
PendingIsTimed == NeedsFlush => TimeAtLastFlushRequest # "0"

\* A game that stops saving has its save on disk in the end, without closing.
\* (A game that saves more often than every two seconds never reaches the file
\* before that: the premise is the bound on writes.)
EventuallySaved == <>[](Undisturbed => file[Path] = savedata)
=============================================================================
