---------------------------- MODULE SoftRenderer ----------------------------
(***************************************************************************)
(* The threaded software renderer (GPU3D_Soft.cpp): the emulator thread    *)
(* and the render thread share the GPU state and the colour buffer and     *)
(* hand them over with three semaphores.  The emulator side is driven by   *)
(* the scanlines of GPU.cpp and, between frames, by savestates, resets and *)
(* renderer changes.  QSemaphore (frontend/qt_sdl/Platform.cpp) has no     *)
(* reset: Semaphore_Reset acquires the count it has just read.             *)
(***************************************************************************)
EXTENDS Integers

CONSTANTS
  Lines,      \* scanlines of a frame (192)
  Kinds       \* what may upset plain frames

ASSUME LinesAssumption == Lines \in Nat \ {0}
ASSUME KindsAssumption == Kinds \subseteq {"abort", "wakeup", "savestate", "reset"}

VARIABLES
  mpc,                    \* where the emulator thread is
  line,                   \* the scanline it draws next
  after,                  \* where it goes on after SetupRenderThread and EnableRenderThread
  avail,                  \* Semaphore_Reset: the count just read
  AbortFrame,
  Threaded,
  upsets,                 \* what has upset the frames of this renderer
  RenderThreadRunning, RenderThreadRendering, FrameIdentical,
  rpc,                    \* where the render thread is
  rline,                  \* lines it has finished of this frame
  Sema_RenderStart, Sema_RenderDone, Sema_ScanlineCount,
  want,                   \* number of the rendering last asked for
  rround,                 \* number of the rendering the render thread is at
  drawn                   \* per line: the rendering that last finished it

emu == <<mpc, line, after, avail, AbortFrame, Threaded, upsets>>
semas == <<Sema_RenderStart, Sema_RenderDone, Sema_ScanlineCount>>
flags == <<RenderThreadRunning, RenderThreadRendering, FrameIdentical>>
rendering == <<rpc, rline, rround, drawn>>
vars == <<emu, semas, flags, rendering, want>>

Round == 0 .. 2            \* renderings are numbered modulo 3
NewRound == want' = (want + 1) % 3

\* A new SoftRenderer: no thread, and FrameIdentical is not initialised.  The
\* first thing that happens to it is Reset().
Init == /\ Threaded \in BOOLEAN
        /\ RenderThreadRunning = FALSE /\ RenderThreadRendering = FALSE
        /\ FrameIdentical \in BOOLEAN
        /\ rpc = "none" /\ rline = 0 /\ rround = 0
        /\ Sema_RenderStart = 0 /\ Sema_RenderDone = 0 /\ Sema_ScanlineCount = 0
        /\ mpc = "setup" /\ after = "idle" /\ line = 0 /\ avail = 0
        /\ AbortFrame = FALSE
        /\ want = 0 /\ upsets = {}
        /\ drawn = [l \in 0 .. Lines - 1 |-> 0]

-----------------------------------------------------------------------------
(* SetupRenderThread, StopRenderThread, EnableRenderThread *)

\* Create the thread, if there is none.
Setup ==
  /\ mpc = "setup" /\ Threaded
  /\ mpc' = "reset1"
  /\ IF RenderThreadRunning THEN UNCHANGED <<RenderThreadRunning, rpc>>
     ELSE RenderThreadRunning' = TRUE /\ rpc' = "wait"
  /\ UNCHANGED <<line, after, avail, AbortFrame, Threaded, semas,
                 RenderThreadRendering, FrameIdentical, rline, rround, drawn, want, upsets>>

SetupUnthreaded ==
  /\ mpc = "setup" /\ ~Threaded
  /\ mpc' = IF RenderThreadRunning THEN "stop" ELSE "enable"
  /\ UNCHANGED <<line, after, avail, AbortFrame, Threaded, semas, flags, rendering,
                 want, upsets>>

\* Semaphore_Reset(Sema_RenderStart), first and second time: read, then acquire.
ResetRead ==
  /\ mpc \in {"reset1", "reset2"}
  /\ avail' = Sema_RenderStart
  /\ mpc' = IF mpc = "reset1" THEN "acquire1" ELSE "acquire2"
  /\ UNCHANGED <<line, after, AbortFrame, Threaded, semas, flags, rendering, want,
                 upsets>>

\* The second time Sema_ScanlineCount is reset after it.  Only this thread
\* takes from Sema_ScanlineCount and Sema_RenderDone: their resets never block.
ResetAcquire ==
  /\ mpc \in {"acquire1", "acquire2"}
  /\ Sema_RenderStart >= avail
  /\ Sema_RenderStart' = Sema_RenderStart - avail
  /\ \/ /\ mpc = "acquire1"
        /\ mpc' = "rendering?"
        /\ UNCHANGED Sema_ScanlineCount
     \/ /\ mpc = "acquire2"
        /\ mpc' = IF after = "load" THEN "load" ELSE "enable"
        /\ Sema_ScanlineCount' = 0
  /\ UNCHANGED <<line, after, avail, AbortFrame, Threaded, Sema_RenderDone, flags,
                 rendering, want, upsets>>

\* "Oh, sorry, were you already in the middle of a frame?"
CheckRendering ==
  /\ mpc = "rendering?"
  /\ mpc' = IF RenderThreadRendering THEN "waitdone" ELSE "resetdone"
  /\ UNCHANGED <<line, after, avail, AbortFrame, Threaded, semas, flags, rendering,
                 want, upsets>>

SetupWaitDone ==
  /\ mpc = "waitdone" /\ Sema_RenderDone > 0
  /\ Sema_RenderDone' = Sema_RenderDone - 1
  /\ mpc' = "resetdone"
  /\ UNCHANGED <<line, after, avail, AbortFrame, Threaded, Sema_RenderStart,
                 Sema_ScanlineCount, flags, rendering, want, upsets>>

ResetDone ==
  /\ mpc = "resetdone"
  /\ Sema_RenderDone' = 0
  /\ mpc' = "reset2"
  /\ UNCHANGED <<line, after, avail, AbortFrame, Threaded, Sema_RenderStart,
                 Sema_ScanlineCount, flags, rendering, want, upsets>>

\* Mutant: the render thread is not woken to see that it should stop.
NoWakeup == 0

StopPosts == 1

\* StopRenderThread: tell it, wake it, join it.
Stop ==
  /\ mpc = "stop"
  /\ RenderThreadRunning' = FALSE
  /\ mpc' = "stoppost"
  /\ UNCHANGED <<line, after, avail, AbortFrame, Threaded, semas,
                 RenderThreadRendering, FrameIdentical, rendering, want, upsets>>

StopPost ==
  /\ mpc = "stoppost"
  /\ Sema_RenderStart' = Sema_RenderStart + StopPosts
  /\ mpc' = "join"
  /\ UNCHANGED <<line, after, avail, AbortFrame, Threaded, Sema_RenderDone,
                 Sema_ScanlineCount, flags, rendering, want, upsets>>

\* Joined: to build another renderer, or with no thread to go on with.
Thread_Wait ==
  /\ mpc = "join" /\ rpc = "exited"
  /\ rpc' = "none"
  /\ mpc' = IF after = "construct" THEN "construct" ELSE "enable"
  /\ UNCHANGED <<line, after, avail, AbortFrame, Threaded, semas, flags, rline, rround,
                 drawn, want, upsets>>

\* EnableRenderThread; FinishFrame then clears AbortFrame.
Enable ==
  /\ mpc = "enable"
  /\ \/ /\ Threaded
        /\ Sema_RenderStart' = Sema_RenderStart + 1
        /\ NewRound
     \/ /\ ~Threaded
        /\ UNCHANGED <<Sema_RenderStart, want>>
  /\ mpc' = IF after = "finished" THEN "idle" ELSE after
  /\ AbortFrame' = IF after = "finished" THEN FALSE ELSE AbortFrame
  /\ UNCHANGED <<line, after, avail, Threaded, Sema_RenderDone, Sema_ScanlineCount,
                 flags, rendering, upsets>>

\* One of the ways a plain frame can be upset.
Upset(kind) == kind \in Kinds /\ upsets' = upsets \cup {kind}

Call(return) == mpc' = "setup" /\ after' = return

-----------------------------------------------------------------------------
(* A frame, as GPU.cpp drives it *)

StartFrame ==
  /\ mpc = "idle"
  /\ mpc' = "draw" /\ line' = 0
  /\ UNCHANGED <<after, avail, AbortFrame, Threaded, semas, flags, rendering, want,
                 upsets>>

NextLine == /\ line' = (line + 1) % Lines
            /\ mpc' = IF line + 1 = Lines THEN "vcount144" ELSE "draw"

\* GPU3D::GetLine, one per scanline.
GetLine ==
  /\ mpc = "draw"
  /\ NextLine
  /\ \/ /\ RenderThreadRunning /\ ~AbortFrame
        /\ Sema_ScanlineCount > 0
        /\ Sema_ScanlineCount' = Sema_ScanlineCount - 1
     \/ /\ ~RenderThreadRunning \/ AbortFrame
        /\ UNCHANGED Sema_ScanlineCount
  /\ UNCHANGED <<after, avail, AbortFrame, Threaded, Sema_RenderStart, Sema_RenderDone,
                 flags, rendering, want, upsets>>

\* A write to VCOUNT, at any point of the frame.
SetVCount ==
  /\ Upset("abort") /\ mpc \in {"draw", "vcount144", "vcount215", "finish"}
  /\ AbortFrame' = TRUE
  /\ UNCHANGED <<mpc, line, after, avail, Threaded, semas, flags, rendering, want>>

\* VCount was moved past scanline 192, or past 215.
SkipScanlines ==
  /\ AbortFrame
  /\ \/ mpc = "vcount144" /\ mpc' = "vcount215"
     \/ mpc = "vcount215" /\ mpc' = "finish"
  /\ UNCHANGED <<line, after, avail, AbortFrame, Threaded, semas, flags, rendering,
                 want, upsets>>

\* Mutant: VBlank is not held up by the render thread.
VBlankFree == FALSE

NeedsDone == RenderThreadRunning /\ ~AbortFrame

\* Scanline 192.
VCount144 ==
  /\ mpc = "vcount144"
  /\ mpc' = "vblank"
  /\ \/ /\ NeedsDone
        /\ Sema_RenderDone > 0
        /\ Sema_RenderDone' = Sema_RenderDone - 1
     \/ /\ ~NeedsDone
        /\ UNCHANGED Sema_RenderDone
  /\ UNCHANGED <<line, after, avail, AbortFrame, Threaded, Sema_RenderStart,
                 Sema_ScanlineCount, flags, rendering, want, upsets>>

\* GPU3D::VBlank rewrites what the renderer reads: polygons, registers, tables.
VBlank ==
  /\ mpc = "vblank"
  /\ mpc' = "vcount215"
  /\ UNCHANGED <<line, after, avail, AbortFrame, Threaded, semas, flags, rendering,
                 want, upsets>>

\* Scanline 215: without a thread the frame is rendered here.
RenderFrame ==
  /\ mpc = "vcount215"
  /\ mpc' = "finish"
  /\ FrameIdentical' \in BOOLEAN
  /\ NewRound
  /\ \/ /\ RenderThreadRunning
        /\ Sema_RenderStart' = Sema_RenderStart + 1
        /\ UNCHANGED drawn
     \/ /\ ~RenderThreadRunning
        /\ drawn' = [l \in 0 .. Lines - 1 |-> want']
        /\ UNCHANGED Sema_RenderStart
  /\ UNCHANGED <<line, after, avail, AbortFrame, Threaded, Sema_RenderDone,
                 Sema_ScanlineCount, RenderThreadRunning, RenderThreadRendering, rpc, rline,
                 rround, upsets>>

\* GPU::FinishFrame: an aborted frame restarts the renderer.
FinishFrame ==
  /\ mpc = "finish"
  /\ IF AbortFrame THEN Call("finished") ELSE mpc' = "idle" /\ UNCHANGED after
  /\ UNCHANGED <<line, avail, AbortFrame, Threaded, semas, flags, rendering, want,
                 upsets>>

\* NDS::SetIRQ wakes a console that went to sleep in the middle of a frame:
\* RestartFrame, then the frame goes on where it was.
Wakeup ==
  /\ Upset("wakeup") /\ mpc = "draw"
  /\ Call("draw")
  /\ UNCHANGED <<line, avail, AbortFrame, Threaded, semas, flags, rendering, want>>

-----------------------------------------------------------------------------
(* Between frames *)

\* GPU3D::DoSavestate brackets its work when the renderer is threaded.
DoSavestate ==
  /\ Upset("savestate") /\ mpc = "idle"
  /\ IF Threaded THEN Call("load") ELSE mpc' = "load" /\ after' = "idle"
  /\ UNCHANGED <<line, avail, AbortFrame, Threaded, semas, flags, rendering, want>>

LoadState ==
  /\ mpc = "load"
  /\ mpc' = IF Threaded THEN "enable" ELSE "idle"
  /\ after' = "idle"
  /\ UNCHANGED <<line, avail, AbortFrame, Threaded, semas, flags, rendering, want,
                 upsets>>

\* SoftRenderer::Reset on a console reset.
Reset ==
  /\ Upset("reset") /\ mpc = "idle"
  /\ Call("idle")
  /\ UNCHANGED <<line, avail, AbortFrame, Threaded, semas, flags, rendering, want>>

\* GPU::SetRenderer3D: the old renderer's destructor joins its thread.
Replace ==
  /\ mpc = "idle"
  /\ mpc' = IF RenderThreadRunning THEN "stop" ELSE "construct"
  /\ after' = "construct"
  /\ UNCHANGED <<line, avail, AbortFrame, Threaded, semas, flags, rendering, want,
                 upsets>>

Construct ==
  /\ mpc = "construct"
  /\ Threaded' \in BOOLEAN
  /\ RenderThreadRunning' = FALSE /\ RenderThreadRendering' = FALSE
  /\ FrameIdentical' \in BOOLEAN
  /\ rpc' = "none" /\ rline' = 0 /\ rround' = 0
  /\ Sema_RenderStart' = 0 /\ Sema_RenderDone' = 0 /\ Sema_ScanlineCount' = 0
  /\ Call("idle")
  /\ upsets' = {}
  /\ UNCHANGED <<line, avail, AbortFrame, want, drawn>>

-----------------------------------------------------------------------------
(* RenderThreadFunc *)

RTWaitStart ==
  /\ rpc = "wait" /\ Sema_RenderStart > 0
  /\ Sema_RenderStart' = Sema_RenderStart - 1
  /\ rpc' = "started"
  /\ UNCHANGED <<emu, Sema_RenderDone, Sema_ScanlineCount, flags, rline, rround,
                 drawn, want>>

RTCheckRunning ==
  /\ rpc = "started"
  /\ rpc' = IF RenderThreadRunning THEN "begin" ELSE "exited"
  /\ UNCHANGED <<emu, semas, flags, rline, rround, drawn, want>>

RTBegin ==
  /\ rpc = "begin"
  /\ RenderThreadRendering' = TRUE
  /\ rpc' = "draw" /\ rline' = 0
  /\ rround' = want
  /\ UNCHANGED <<emu, semas, RenderThreadRunning, FrameIdentical, drawn, want>>

\* Nothing changed since the last frame: all lines are as good as drawn.
RTIdentical ==
  /\ rpc = "draw" /\ rline = 0 /\ FrameIdentical
  /\ Sema_ScanlineCount' = Sema_ScanlineCount + Lines
  /\ drawn' = [l \in 0 .. Lines - 1 |-> rround]
  /\ rpc' = "done"
  /\ UNCHANGED <<emu, Sema_RenderStart, Sema_RenderDone, flags, rline, rround, want>>

\* Mutants: a line is announced before its final pass; the last line is never
\* announced, or the first one twice.
FinishedLate(l) == l - 1
AnnounceButLast(l) == IF l + 1 = Lines THEN 0 ELSE 1
AnnounceTwice(l) == IF l = 0 THEN 2 ELSE 1

LineFinished(l) == l
PostsFor(l) == 1
LastLine(l) == l + 1 = Lines

\* RenderPolygons: a line's final pass, then its post.  FrameIdentical was read
\* before the first line.
RTLine ==
  /\ rpc = "draw" /\ (rline > 0 \/ ~FrameIdentical)
  /\ drawn' = [l \in DOMAIN drawn |->
                 IF l = LineFinished(rline) THEN rround ELSE drawn[l]]
  /\ Sema_ScanlineCount' = Sema_ScanlineCount + PostsFor(rline)
  /\ rline' = rline + 1
  /\ rpc' = IF LastLine(rline) THEN "done" ELSE "draw"
  /\ UNCHANGED <<emu, Sema_RenderStart, Sema_RenderDone, flags, rround, want>>

RTDone ==
  /\ rpc = "done"
  /\ Sema_RenderDone' = Sema_RenderDone + 1
  /\ rpc' = "clear"
  /\ UNCHANGED <<emu, Sema_RenderStart, Sema_ScanlineCount, flags, rline, rround,
                 drawn, want>>

RTClear ==
  /\ rpc = "clear"
  /\ RenderThreadRendering' = FALSE
  /\ rpc' = "wait" /\ rline' = 0
  /\ UNCHANGED <<emu, semas, RenderThreadRunning, FrameIdentical, rround, drawn, want>>

-----------------------------------------------------------------------------

\* What the emulator thread does by itself, and what others make it do.
Progress ==
  \/ Setup \/ SetupUnthreaded \/ ResetRead \/ ResetAcquire \/ CheckRendering
  \/ SetupWaitDone \/ ResetDone \/ Stop \/ StopPost \/ Thread_Wait \/ Enable
  \/ StartFrame \/ GetLine \/ VCount144 \/ VBlank \/ RenderFrame \/ FinishFrame
  \/ LoadState \/ Construct
Requests == SetVCount \/ SkipScanlines \/ Wakeup \/ DoSavestate \/ Reset \/ Replace
RT == \/ RTWaitStart \/ RTCheckRunning \/ RTBegin \/ RTIdentical \/ RTLine
      \/ RTDone \/ RTClear

Next == Progress \/ Requests \/ RT

Spec == Init /\ [][Next]_vars
FairSpec == Spec /\ WF_vars(Progress) /\ WF_vars(RT)

-----------------------------------------------------------------------------
(* Properties *)

TypeOK ==
  /\ line \in 0 .. Lines - 1 /\ rline \in 0 .. Lines
  /\ Sema_RenderStart \in Nat /\ Sema_RenderDone \in Nat /\ Sema_ScanlineCount \in Nat
  /\ drawn \in [0 .. Lines - 1 -> Round]
  /\ want \in Round /\ rround \in Round /\ upsets \subseteq Kinds

IsUpset == upsets # {}

\* "Tell the main thread that we're done rendering and that it's safe to access
\* the GPU state again": in plain frames the emulator thread rewrites that state
\* (VBlank) only once the render thread has said so, and not yet begun anew.
GPUStateProtected ==
  mpc = "vblank" /\ ~IsUpset => rpc \notin {"started", "begin", "draw", "done"}

\* A scanline is shown only once the render thread has finished it in the
\* rendering asked for: GetLine waits for any post, not for its own line's.
LinesInStep == [][GetLine /\ RenderThreadRunning /\ ~IsUpset => drawn[line] = want]_vars

\* No post is left over when the render thread is asked for a new frame: one
\* credit too many would let GetLine run ahead in every later frame.  (Neither
\* thread goes past the last line, and the semaphores count.)
NothingLeftOver ==
  /\ TypeOK
  /\ mpc = "vblank" /\ RenderThreadRunning /\ ~IsUpset
       => Sema_ScanlineCount = 0 /\ Sema_RenderDone = 0 /\ Sema_RenderStart = 0

\* Stopping the render thread always succeeds, whatever has upset its frames:
\* it sees the flag and ends, and the join returns.
StopReturns == mpc = "join" ~> mpc # "join"

\* Frames keep coming: neither thread waits for the other for ever.
FramesKeepComing == []<>(mpc = "idle")

\* ... as long as nothing upsets them, and again once the renderer is replaced.
PlainFramesKeepComing == []<>(mpc = "idle" \/ IsUpset)
=============================================================================
