----------------------------- MODULE EmuThread -----------------------------
(***************************************************************************)
(* The emulator thread and the UI thread (EmuThread.cpp, with the slots of *)
(* Window.cpp and main.cpp that call it).  The UI asks by plain fields:    *)
(* EmuRunning says what the emulator thread should do, EmuStatus what it   *)
(* does.  The UI waits by spinning, for a pause or for a GL context, and   *)
(* while the console is paused it loads, saves and replaces it.            *)
(*                                                                         *)
(* ui holds the calls the slot that is running has yet to make.  A slot    *)
(* that asks for a file, or tells of a failure, does so in the call        *)
(* "pick", which runs the events that come in: slots that need no menu may *)
(* then run, and what is left of the first comes after them.               *)
(***************************************************************************)
EXTENDS Integers, Sequences

CONSTANTS
  MaxStack,       \* bound: pauses nested in one another
  MaxDialogs,     \* bound: dialogs open that paused the console
  MaxInner        \* frames the input code of one turn of the loop runs by itself (32)

ASSUME MaxStackAssumption == MaxStack \in Nat \ {0}
ASSUME MaxDialogsAssumption == MaxDialogs \in Nat
ASSUME MaxInnerAssumption == MaxInner \in Nat

VARIABLES
  epc,            \* where the emulator thread is
  inner,          \* frames the input code still wants
  screenGL,       \* whether the emulator thread draws with OpenGL
  EmuStatus, EmuRunning, PrevEmuStatus, EmuPauseStack, ContextRequest,
  RunningSomething,
  ui,             \* calls the UI thread has yet to make
  hasOGL,         \* whether the window's panel has an OpenGL context
  dialogs,        \* dialogs open that paused the console
  pauseChecked,   \* the Pause action is checked
  pausedManually, \* as the last use of that action left it
  stopSignal,     \* windowEmuStop is in the UI's event queue
  unsure          \* the UI paused in one of the two ways that do not wait (see Pausing)

emuvars == <<epc, inner, screenGL>>
uivars == <<ui, hasOGL, dialogs, pauseChecked, pausedManually>>
shared == <<EmuStatus, EmuRunning, ContextRequest, RunningSomething, stopSignal>>
pauses == <<PrevEmuStatus, EmuPauseStack, unsure>>
ethvars == <<emuvars, uivars, shared, pauses>>

Status == {"Exit", "Running", "Paused", "FrameStep"}

\* main() starts the thread and pauses it, and may load a game, boot it, or fail.
EthInit ==
  /\ epc = "start" /\ inner = 0 /\ screenGL = FALSE
  /\ EmuStatus = "Exit" /\ EmuRunning = "Paused" /\ PrevEmuStatus = "Exit"
  /\ EmuPauseStack = 0 /\ ContextRequest = "None" /\ RunningSomething = FALSE
  /\ ui \in {<<"pause">>, <<"pause", "pick">>, <<"pause", "pick", "load">>,
            <<"pause", "pick", "load", "pick">>, <<"pause", "pick", "load", "run">>}
  /\ hasOGL \in BOOLEAN /\ dialogs = 0
  /\ pauseChecked = FALSE /\ pausedManually = FALSE
  /\ stopSignal = FALSE /\ unsure = FALSE

-----------------------------------------------------------------------------
(* The emulator thread *)

Go(from, to) == epc = from /\ epc' = to

\* The console is made and its renderer chosen.
Start ==
  /\ Go("start", "loop")
  /\ screenGL' = hasOGL
  /\ UNCHANGED <<inner, uivars, shared, pauses>>

\* Mutant: a stop is only looked for after a frame, where it ends no more than the frame.
StoppedInFrame == FALSE

\* The head of the loop.
Stopped == EmuRunning = "Exit"

\* while (EmuRunning != emuStatus_Exit): the input code may run frames of its
\* own before the one at the end of the turn.
Loop ==
  /\ Go("loop", "input") /\ ~Stopped
  /\ inner' \in 0 .. MaxInner
  /\ UNCHANGED <<screenGL, uivars, shared, pauses>>

\* The clock of the console is saved, and the thread ends.
Leave ==
  /\ Go("loop", "done") /\ Stopped
  /\ EmuStatus' = "Exit"
  /\ UNCHANGED <<inner, screenGL, uivars, EmuRunning, ContextRequest, RunningSomething,
                 stopSignal, pauses>>

\* Before each frame the input code reads and writes the memory, the touch screen
\* and the keys of the console, in a pause as well.
Input ==
  /\ Go("input", "check")
  /\ UNCHANGED <<inner, screenGL, uivars, shared, pauses>>

\* The test for a frame to run reads EmuRunning twice.
Check ==
  /\ \/ epc = "check" /\ epc' = (IF EmuRunning = "Running" THEN "claim" ELSE "check2")
     \/ epc = "check2" /\ epc' = (IF EmuRunning = "FrameStep" THEN "claim" ELSE "paused")
  /\ UNCHANGED <<inner, screenGL, uivars, shared, pauses>>

Claim ==
  /\ Go("claim", "step?")
  /\ EmuStatus' = "Running"
  /\ UNCHANGED <<inner, screenGL, uivars, EmuRunning, ContextRequest, RunningSomething,
                 stopSignal, pauses>>

\* A frame step is a frame and then a pause: read, and then written.
ReadStep ==
  /\ epc = "step?"
  /\ epc' = IF EmuRunning = "FrameStep" THEN "step!" ELSE "frame"
  /\ UNCHANGED <<inner, screenGL, uivars, shared, pauses>>

WriteStep ==
  /\ Go("step!", "frame")
  /\ EmuRunning' = "Paused"
  /\ UNCHANGED <<inner, screenGL, uivars, EmuStatus, ContextRequest, RunningSomething,
                 stopSignal, pauses>>

\* RunFrame; the console may stop by itself, which calls SignalStop.
Frame ==
  /\ Go("frame", "afterFrame")
  /\ \/ UNCHANGED <<RunningSomething, stopSignal>>
     \/ RunningSomething' = FALSE /\ stopSignal' = TRUE
  /\ UNCHANGED <<inner, screenGL, uivars, EmuStatus, EmuRunning, ContextRequest, pauses>>

\* One frame of the turn is over.
Turn(from) ==
  /\ epc = from
  /\ IF inner > 0 THEN epc' = "input" /\ inner' = inner - 1
                  ELSE epc' = "loop" /\ inner' = 0

\* A stop cuts short no more than this frame, whose timing is left out here: the
\* frames the input code still wants follow, in the paused branch.
AfterFrame ==
  /\ Turn("afterFrame")
  /\ UNCHANGED <<screenGL, uivars, shared, pauses>>

\* Mutant: the status is not told in a pause.
SilentStatus == EmuStatus

\* What a paused thread says it does.
Reported == EmuRunning

PausedBranch ==
  /\ Go("paused", "context?")
  /\ EmuStatus' = Reported
  /\ UNCHANGED <<inner, screenGL, uivars, EmuRunning, ContextRequest, RunningSomething,
                 stopSignal, pauses>>

\* After 75 ms the request is read, and then served.
ReadRequest ==
  /\ epc = "context?"
  /\ IF ContextRequest = "None" THEN Turn("context?") ELSE epc' = "context!" /\ UNCHANGED inner
  /\ UNCHANGED <<screenGL, uivars, shared, pauses>>

ServeRequest ==
  /\ Turn("context!")
  /\ screenGL' = (ContextRequest = "InitGL")
  /\ ContextRequest' = "None"
  /\ UNCHANGED <<uivars, EmuStatus, EmuRunning, RunningSomething, stopSignal, pauses>>

Emu == \/ Start \/ Loop \/ Leave \/ Input \/ Check \/ Claim \/ ReadStep \/ WriteStep
       \/ Frame \/ AfterFrame \/ PausedBranch \/ ReadRequest \/ ServeRequest

-----------------------------------------------------------------------------
(* Calls of the UI thread *)

Calls(call) == ui # <<>> /\ Head(ui) = call
Return == ui' = Tail(ui)
Then(calls) == ui' = calls \o Tail(ui)
window == <<hasOGL, dialogs, pauseChecked, pausedManually>>

\* emuPause: only the first of several nested pauses does anything.
Pause ==
  /\ Calls("pause")
  /\ EmuPauseStack' = EmuPauseStack + 1
  /\ IF EmuPauseStack > 0
     THEN Return /\ UNCHANGED PrevEmuStatus
     ELSE Then(<<"pausing", "awaitPause">>) /\ PrevEmuStatus' = EmuRunning
  /\ UNCHANGED <<emuvars, shared, window, unsure>>

\* EmuStatus may still be that of the pause before, if the thread has not
\* noticed that it was to run in between.
Pausing ==
  /\ Calls("pausing") /\ Return
  /\ EmuRunning' = "Paused"
  /\ unsure' = (EmuStatus = "Paused" /\ (unsure \/ PrevEmuStatus # "Paused"))
  /\ UNCHANGED <<emuvars, window, EmuStatus, ContextRequest, RunningSomething, stopSignal,
                 PrevEmuStatus, EmuPauseStack>>

\* Mutants: a pause, or a context, is asked for and not waited for.
NoWait == TRUE

\* What the UI waits for.
IsPaused == EmuStatus = "Paused"
IsServed == ContextRequest = "None"

AwaitPause ==
  /\ Calls("awaitPause") /\ Return
  /\ IsPaused
  /\ UNCHANGED <<emuvars, shared, window, pauses>>

\* The console is saved, loaded, changed or replaced: right after a pause, or
\* once the user has chosen a file.
Work ==
  /\ Calls("work") \/ Calls("load")
  /\ Return
  /\ UNCHANGED <<emuvars, shared, window, pauses>>

\* Mutant: an unpause too many is counted.
LoweredTooFar == EmuPauseStack - 1

Lowered == IF EmuPauseStack = 0 THEN 0 ELSE EmuPauseStack - 1

\* emuUnpause
Unpause ==
  /\ Calls("unpause") /\ Return
  /\ EmuPauseStack' = Lowered
  /\ EmuRunning' = IF EmuPauseStack = 1 THEN PrevEmuStatus ELSE EmuRunning
  /\ UNCHANGED <<emuvars, window, EmuStatus, ContextRequest, RunningSomething, stopSignal,
                 PrevEmuStatus, unsure>>

\* emuRun, and onEmuStart, which its signal calls.
Run ==
  /\ Calls("run") /\ Return
  /\ EmuRunning' = "Running" /\ EmuPauseStack' = 0
  /\ RunningSomething' = TRUE
  /\ pauseChecked' = FALSE
  /\ UNCHANGED <<emuvars, hasOGL, dialogs, pausedManually, EmuStatus, ContextRequest, stopSignal,
                 PrevEmuStatus, unsure>>

\* The end of emuFrameStep: if the thread is paused already, no one waits for
\* the frame it now runs.
Step ==
  /\ Calls("step") /\ Return
  /\ EmuRunning' = "FrameStep"
  /\ unsure' = TRUE
  /\ UNCHANGED <<emuvars, window, EmuStatus, ContextRequest, RunningSomething, stopSignal,
                 PrevEmuStatus, EmuPauseStack>>

\* NDS::Stop by the UI: SignalStop, and onEmuStop is called at once.
Stop ==
  /\ Calls("stop") /\ Then(<<"pause">>)
  /\ RunningSomething' = FALSE
  /\ UNCHANGED <<emuvars, window, EmuStatus, EmuRunning, ContextRequest, stopSignal, pauses>>

\* deinitContext and initContext.
Request(call, kind) ==
  /\ Calls(call) /\ Then(<<"awaitContext">>)
  /\ ContextRequest' = kind
  /\ UNCHANGED <<emuvars, window, EmuStatus, EmuRunning, RunningSomething, stopSignal, pauses>>

AwaitContext ==
  /\ Calls("awaitContext") /\ Return
  /\ IsServed
  /\ UNCHANGED <<emuvars, shared, window, pauses>>

\* The panel is made anew, with or without OpenGL.
NewPanel ==
  /\ Calls("panel")
  /\ \E gl \in BOOLEAN : hasOGL' = gl /\ Then(IF gl THEN <<"init">> ELSE <<>>)
  /\ UNCHANGED <<emuvars, shared, dialogs, pauseChecked, pausedManually, pauses>>

\* emuStop at the end of main(), and the wait for the thread.
EmuStop ==
  /\ Calls("exit") /\ Then(<<"join">>)
  /\ EmuRunning' = "Exit" /\ EmuPauseStack' = 0
  /\ UNCHANGED <<emuvars, window, EmuStatus, ContextRequest, RunningSomething, stopSignal,
                 PrevEmuStatus, unsure>>

Join ==
  /\ Calls("join") /\ Then(<<"end">>)
  /\ epc = "done"
  /\ UNCHANGED <<emuvars, shared, window, pauses>>

\* The user has chosen, or has read the message.
Pick ==
  /\ Calls("pick") /\ Return
  /\ UNCHANGED <<emuvars, shared, window, pauses>>

Call == \/ Pause \/ Pausing \/ AwaitPause \/ Work \/ Unpause \/ Run \/ Step \/ Stop
        \/ Request("deinit", "DeInitGL") \/ Request("init", "InitGL") \/ AwaitContext
        \/ NewPanel \/ EmuStop \/ Join

-----------------------------------------------------------------------------
(* Slots of the UI thread *)

Slot(calls) == ui = <<>> /\ EmuPauseStack < MaxStack /\ ui' = calls

\* Slots of the system and of the emulator thread's signals may run while the
\* user is asked; those of the main window's menus may not.
Event(calls) == \/ Slot(calls)
                \/ Calls("pick") /\ EmuPauseStack < MaxStack /\ ui' = calls \o ui

others == <<emuvars, EmuStatus, EmuRunning, ContextRequest, RunningSomething, pauses>>

\* Quick savestates, ejected cartridges and all else that pauses for a moment.
UseConsole ==
  /\ Slot(<<"pause", "work", "unpause">>)
  /\ UNCHANGED <<others, stopSignal, window>>

\* A slot that asks for a file: the user calls it off, the console is used, or
\* that fails, of which a message tells.
Asking(end) == {<<"pause", "pick", "unpause">>, <<"pause", "pick", "load", end>>,
                <<"pause", "pick", "load", "pick", "unpause">>}

\* Savestates in files, cartridges and imported save files.
UseFile ==
  /\ \E calls \in Asking("unpause") : Slot(calls)
  /\ UNCHANGED <<others, stopSignal, window>>

\* A game is loaded.
Boot ==
  /\ \E calls \in Asking("run") : Slot(calls)
  /\ UNCHANGED <<others, stopSignal, window>>

\* onReset
Reset ==
  /\ RunningSomething /\ Event(<<"pause", "work", "run">>)
  /\ UNCHANGED <<others, stopSignal, window>>

OpenDialog ==
  /\ dialogs < MaxDialogs /\ Slot(<<"pause">>) /\ dialogs' = dialogs + 1
  /\ UNCHANGED <<others, stopSignal, hasOGL, pauseChecked, pausedManually>>

CloseDialog ==
  /\ dialogs > 0 /\ Slot(<<"unpause">>) /\ dialogs' = dialogs - 1
  /\ UNCHANGED <<others, stopSignal, hasOGL, pauseChecked, pausedManually>>

\* onPause: the action is checked or unchecked.  It stays enabled until onEmuStop,
\* but does nothing more once the console has stopped.
Trigger(calls) ==
  /\ Event((IF RunningSomething THEN IF pauseChecked THEN <<"unpause">> ELSE <<"pause">>
            ELSE <<>>) \o calls)
  /\ pauseChecked' = ~pauseChecked
  /\ pausedManually' = IF RunningSomething THEN ~pauseChecked ELSE pausedManually

TogglePause ==
  /\ RunningSomething \/ stopSignal
  /\ Trigger(<<>>)
  /\ UNCHANGED <<others, stopSignal, hasOGL, dialogs>>

OnStop ==
  /\ RunningSomething /\ Slot(<<"pause", "stop">>)
  /\ UNCHANGED <<others, stopSignal, window>>

\* onEmuStop, when the console has stopped by itself.
OnEmuStop ==
  /\ stopSignal /\ Event(<<"pause">>) /\ stopSignal' = FALSE
  /\ UNCHANGED <<others, window>>

\* emuFrameStep: a console that is not paused is, by the Pause action.
FrameStep ==
  /\ RunningSomething
  /\ \/ EmuPauseStack = 0 /\ Trigger(<<"step">>)
     \/ EmuPauseStack > 0 /\ Event(<<"step">>) /\ UNCHANGED <<pauseChecked, pausedManually>>
  /\ UNCHANGED <<others, stopSignal, hasOGL, dialogs>>

\* onAppStateChanged, with PauseLostFocus set.  An application becomes active
\* after it was inactive, hidden or suspended, and pauses only when inactive.
LoseFocus ==
  /\ EmuRunning = "Running" /\ Event(<<"pause">>)
  /\ UNCHANGED <<others, stopSignal, window>>

GainFocus ==
  /\ ~pausedManually /\ Event(<<"unpause">>)
  /\ UNCHANGED <<others, stopSignal, window>>

\* onUpdateVideoSettings, when the kind of panel changes.
VideoSettings ==
  /\ Slot(<<"pause">> \o (IF hasOGL THEN <<"deinit">> ELSE <<>>) \o <<"panel", "unpause">>)
  /\ UNCHANGED <<others, stopSignal, window>>

\* The window is closed (which pauses for good), or the application is quit.
Close ==
  /\ \/ Slot(<<"exit">>)
     \/ hasOGL /\ Slot(<<"pause", "deinit", "exit">>)
  /\ UNCHANGED <<others, stopSignal, window>>

User == \/ UseConsole \/ UseFile \/ Boot \/ Pick \/ Reset \/ OpenDialog \/ CloseDialog
        \/ TogglePause \/ OnStop \/ OnEmuStop \/ FrameStep \/ LoseFocus \/ GainFocus
        \/ VideoSettings \/ Close

EthNext == Emu \/ Call \/ User

\* Both threads go on while they can; the user need not do anything.
EthSpec == /\ EthInit /\ [][EthNext]_ethvars
           /\ WF_ethvars(Emu) /\ WF_ethvars(Call)

-----------------------------------------------------------------------------
(* Properties *)

Labels == {"start", "loop", "input", "check", "check2", "claim", "step?", "step!", "frame",
           "afterFrame", "paused", "context?", "context!", "done"}

EthTypeOK ==
  /\ epc \in Labels /\ inner \in 0 .. MaxInner /\ screenGL \in BOOLEAN
  /\ {EmuStatus, EmuRunning, PrevEmuStatus} \subseteq Status
  /\ EmuPauseStack \in 0 .. MaxStack + 1
  /\ ContextRequest \in {"None", "InitGL", "DeInitGL"}
  /\ {RunningSomething, hasOGL, pauseChecked, pausedManually, stopSignal, unsure} \subseteq BOOLEAN
  /\ dialogs \in 0 .. MaxDialogs

\* A pause is over for emuPause when it has seen the thread pause.
Holding == EmuPauseStack > 0 /\ ~Calls("pausing") /\ ~Calls("awaitPause")

\* What a pause is good for.  From the return of emuPause until the pauses counted
\* are undone the emulator thread runs no frame, unless the pause was one of the
\* two kinds that do not wait for the thread; and the slots that use the console
\* at once do so within that time.  A slot that asks first may not: what runs
\* while the user chooses can undo its pause.  Nor is it said that the thread
\* leaves the console alone: its input code does not.
NoFrameInPause == ~unsure /\ (Holding \/ Calls("work")) => epc # "frame"

\* Whenever the UI is between two slots both threads have the same idea of who
\* draws: no context request is left over, and the panel's context is in use.
ContextHandedOver ==
  ui = <<>> /\ epc \notin {"start", "done"} => ContextRequest = "None" /\ screenGL = hasOGL

\* The UI never spins for ever, on a pause or on a context.
Spinning == Calls("awaitPause") \/ Calls("awaitContext")
SpinsEnd == Spinning ~> ~Spinning

\* A stop is obeyed, unless the thread is about to write EmuRunning itself.
StopIsObeyed == (Calls("join") /\ EmuRunning = "Exit" /\ epc # "step!") ~> epc = "done"
=============================================================================
