------------------------ MODULE SoftRenderer_proofs ------------------------
(***************************************************************************)
(* For frames of any height: in plain frames the two threads take turns    *)
(* with the GPU state, and each line is shown as the round asked for drew  *)
(* it.  Types do not bound a semaphore; the invariant says, for each place *)
(* the render thread can be at, what the three of them hold.               *)
(***************************************************************************)
EXTENDS SoftRenderer, TLAPS

\* The scanlines of a frame, those on the way from idle to VBlank, and the
\* calls of SetupRenderThread and EnableRenderThread.
FramePlaces == {"draw", "vcount144", "vblank", "vcount215", "finish"}
WaitingPlaces == {"finish", "idle", "draw", "vcount144"}
SetupPlaces == {"setup", "reset1", "acquire1", "rendering?", "waitdone", "resetdone", "reset2",
                "acquire2", "enable"}
StopPlaces == {"stop", "stoppost", "join"}
RenderPlaces == {"none", "wait", "started", "begin", "draw", "done", "clear", "exited"}

Types == TypeOK /\ avail \in Nat /\ rpc \in RenderPlaces

\* The render thread has a line to draw, and an aborted frame is over before
\* the renderer is replaced: its flag outlives no renderer.
LineToDraw == rpc = "draw" => rline < Lines
AbortEnds ==
  AbortFrame => \/ mpc \in FramePlaces
                \/ mpc \in SetupPlaces \cup StopPlaces /\ after \in {"draw", "finished"}

-----------------------------------------------------------------------------
(* Plain frames *)

\* A renderer that nothing has upset, and that is not being replaced.
Plain == ~IsUpset /\ mpc \notin StopPlaces \cup {"construct"}

Nothing == Sema_RenderStart = 0 /\ Sema_RenderDone = 0 /\ Sema_ScanlineCount = 0

\* A new renderer starts its thread, if it has one.
NewRenderer ==
  /\ after = "idle" /\ Nothing /\ ~RenderThreadRendering
  /\ mpc # "waitdone"
  /\ rpc = IF RenderThreadRunning THEN "wait" ELSE "none"
  /\ mpc = "setup" => ~RenderThreadRunning
  /\ mpc \in SetupPlaces \ {"setup"} => (RenderThreadRunning <=> Threaded)
  /\ mpc \in {"acquire1", "acquire2"} => avail = 0

\* Lines of the frame that have been shown.
Shown == IF mpc = "draw" THEN line ELSE IF mpc = "vcount144" THEN Lines ELSE 0
\* The lines before l are those of the round asked for, and all are announced.
Drawn(l) == Sema_ScanlineCount + Shown = l /\ \A k \in 0 .. l - 1 : drawn[k] = want

\* The frame that is shown was asked for; how far the render thread has got:
\* it is yet to begin, draws, is about to say so, or has said that it is done.
Asked == /\ rpc \in {"clear", "wait"} /\ Sema_RenderStart = 1 /\ Sema_RenderDone = 0
         /\ Sema_ScanlineCount = 0 /\ Shown = 0
Begun == rpc \in {"started", "begin"} /\ Nothing /\ Shown = 0
Drawing == /\ rpc \in {"draw", "done"} /\ Sema_RenderStart = 0 /\ Sema_RenderDone = 0
           /\ rround = want /\ Drawn(IF rpc = "draw" THEN rline ELSE Lines)
Done == rpc \in {"clear", "wait"} /\ Sema_RenderStart = 0 /\ Sema_RenderDone = 1 /\ Drawn(Lines)

\* Between VBlank and the next frame's start the render thread rests.
Resting == rpc \in {"clear", "wait"} /\ Nothing

PlainFrames ==
  /\ ~IsUpset => ~AbortFrame /\ (mpc \in StopPlaces => after = "construct")
  /\ Plain => \/ mpc \in SetupPlaces /\ NewRenderer
              \/ /\ mpc \in FramePlaces \cup {"idle"} /\ ~RenderThreadRunning
                 /\ rpc = "none"
              \/ /\ mpc \in WaitingPlaces /\ RenderThreadRunning
                 /\ Asked \/ Begun \/ Drawing \/ Done
              \/ mpc \in {"vblank", "vcount215"} /\ RenderThreadRunning /\ Resting

RenderInv == Types /\ LineToDraw /\ AbortEnds /\ PlainFrames

-----------------------------------------------------------------------------

LEMMA LinesCount ==
  ASSUME NEW l \in 0 .. Lines - 1
  PROVE  (l + 1) % Lines = IF l + 1 = Lines THEN 0 ELSE l + 1
BY LinesAssumption

LEMMA TypesKept == RenderInv /\ Next => Types' /\ LineToDraw' /\ AbortEnds'
<1> SUFFICES ASSUME Types, LineToDraw, AbortEnds, Next
             PROVE  Types' /\ LineToDraw' /\ AbortEnds'
  BY DEF RenderInv
<1> USE LinesAssumption, KindsAssumption
    DEF Types, TypeOK, LineToDraw, AbortEnds, FramePlaces, SetupPlaces, StopPlaces, RenderPlaces,
        Round, emu, semas, flags, rendering
<1>1. CASE Setup
  BY <1>1 DEF Setup
<1>2. CASE SetupUnthreaded
  BY <1>2 DEF SetupUnthreaded
<1>3. CASE ResetRead
  BY <1>3 DEF ResetRead
<1>4. CASE ResetAcquire
  BY <1>4 DEF ResetAcquire
<1>5. CASE CheckRendering
  BY <1>5 DEF CheckRendering
<1>6. CASE SetupWaitDone
  BY <1>6 DEF SetupWaitDone
<1>7. CASE ResetDone
  BY <1>7 DEF ResetDone
<1>8. CASE Stop
  BY <1>8 DEF Stop
<1>9. CASE StopPost
  BY <1>9 DEF StopPost, StopPosts
<1>10. CASE Thread_Wait
  BY <1>10 DEF Thread_Wait
<1>11. CASE Enable
  <2>1. Types' /\ LineToDraw'
    <3>1. want' \in Round
      BY <1>11 DEF Enable, NewRound
    <3>2. Sema_RenderStart' \in Nat
      BY <1>11 DEF Enable
    <3> QED BY <1>11, <3>1, <3>2 DEF Enable
  <2>2. AbortEnds'
    BY <1>11 DEF Enable
  <2> QED BY <2>1, <2>2
<1>12. CASE StartFrame
  BY <1>12 DEF StartFrame
<1>13. CASE GetLine
  BY <1>13, LinesCount DEF GetLine, NextLine
<1>14. CASE VCount144
  BY <1>14 DEF VCount144, NeedsDone
<1>15. CASE VBlank
  BY <1>15 DEF VBlank
<1>16. CASE RenderFrame
  BY <1>16 DEF RenderFrame, NewRound
<1>17. CASE FinishFrame
  BY <1>17 DEF FinishFrame, Call
<1>18. CASE LoadState
  BY <1>18 DEF LoadState
<1>19. CASE Construct
  <2>1. Types' /\ LineToDraw'
    BY <1>19 DEF Construct, Call
  <2>2. AbortEnds'
    BY <1>19 DEF Construct, Call
  <2> QED BY <2>1, <2>2
<1>20. CASE SetVCount
  BY <1>20 DEF SetVCount, Upset
<1>21. CASE SkipScanlines
  BY <1>21 DEF SkipScanlines
<1>22. CASE Wakeup
  BY <1>22 DEF Wakeup, Upset, Call
<1>23. CASE DoSavestate
  BY <1>23 DEF DoSavestate, Upset, Call
<1>24. CASE Reset
  BY <1>24 DEF Reset, Upset, Call
<1>25. CASE Replace
  BY <1>25 DEF Replace
<1>26. CASE RTWaitStart
  BY <1>26 DEF RTWaitStart
<1>27. CASE RTCheckRunning
  BY <1>27 DEF RTCheckRunning
<1>28. CASE RTBegin
  BY <1>28 DEF RTBegin
<1>29. CASE RTIdentical
  BY <1>29 DEF RTIdentical
<1>30. CASE RTLine
  BY <1>30 DEF RTLine, LineFinished, PostsFor, LastLine
<1>31. CASE RTDone
  BY <1>31 DEF RTDone
<1>32. CASE RTClear
  BY <1>32 DEF RTClear
<1> QED
  BY <1>1, <1>2, <1>3, <1>4, <1>5, <1>6, <1>7, <1>8, <1>9, <1>10, <1>11, <1>12, <1>13, <1>14, <1>15, <1>16, <1>17, <1>18, <1>19, <1>20, <1>21, <1>22, <1>23, <1>24, <1>25, <1>26, <1>27, <1>28, <1>29, <1>30, <1>31, <1>32 DEF Next, Progress, Requests, RT

LEMMA PlainKept == RenderInv /\ Next => PlainFrames'
<1> SUFFICES ASSUME Types, LineToDraw, AbortEnds, PlainFrames, Next
             PROVE  PlainFrames'
  BY DEF RenderInv
<1> USE LinesAssumption, KindsAssumption
    DEF Types, TypeOK, LineToDraw, AbortEnds, FramePlaces, SetupPlaces, StopPlaces, WaitingPlaces,
        PlainFrames, Plain, IsUpset, NewRenderer, Nothing, Shown, Drawn, Asked, Begun, Drawing, Done,
        Resting, emu, semas, flags, rendering
<1>1. CASE Setup
  BY <1>1 DEF Setup
<1>2. CASE SetupUnthreaded
  BY <1>2 DEF SetupUnthreaded
<1>3. CASE ResetRead
  BY <1>3 DEF ResetRead
<1>4. CASE ResetAcquire
  BY <1>4 DEF ResetAcquire
<1>5. CASE CheckRendering
  BY <1>5 DEF CheckRendering
<1>6. CASE SetupWaitDone
  BY <1>6 DEF SetupWaitDone
<1>7. CASE ResetDone
  BY <1>7 DEF ResetDone
<1>8. CASE Stop
  BY <1>8 DEF Stop
<1>9. CASE StopPost
  BY <1>9 DEF StopPost, StopPosts
<1>10. CASE Thread_Wait
  BY <1>10 DEF Thread_Wait
<1>11. CASE Enable
  BY <1>11 DEF Enable
<1>12. CASE StartFrame
  BY <1>12 DEF StartFrame
<1>13. CASE GetLine
  BY <1>13, LinesCount DEF GetLine, NextLine
<1>14. CASE VCount144
  BY <1>14 DEF VCount144, NeedsDone
<1>15. CASE VBlank
  BY <1>15 DEF VBlank
<1>16. CASE RenderFrame
  BY <1>16 DEF RenderFrame
<1>17. CASE FinishFrame
  BY <1>17 DEF FinishFrame, Call
<1>18. CASE LoadState
  BY <1>18 DEF LoadState
<1>19. CASE Construct
  BY <1>19 DEF Construct, Call
<1>20. CASE SetVCount
  BY <1>20 DEF SetVCount, Upset
<1>21. CASE SkipScanlines
  BY <1>21 DEF SkipScanlines
<1>22. CASE Wakeup
  BY <1>22 DEF Wakeup, Upset, Call
<1>23. CASE DoSavestate
  BY <1>23 DEF DoSavestate, Upset, Call
<1>24. CASE Reset
  BY <1>24 DEF Reset, Upset, Call
<1>25. CASE Replace
  BY <1>25 DEF Replace
<1>26. CASE RTWaitStart
  BY <1>26 DEF RTWaitStart
<1>27. CASE RTCheckRunning
  BY <1>27 DEF RTCheckRunning
<1>28. CASE RTBegin
  BY <1>28 DEF RTBegin
<1>29. CASE RTIdentical
  BY <1>29 DEF RTIdentical
<1>30. CASE RTLine
  BY <1>30 DEF RTLine, LineFinished, PostsFor, LastLine
<1>31. CASE RTDone
  BY <1>31 DEF RTDone
<1>32. CASE RTClear
  BY <1>32 DEF RTClear
<1> QED
  BY <1>1, <1>2, <1>3, <1>4, <1>5, <1>6, <1>7, <1>8, <1>9, <1>10, <1>11, <1>12, <1>13, <1>14, <1>15, <1>16, <1>17, <1>18, <1>19, <1>20, <1>21, <1>22, <1>23, <1>24, <1>25, <1>26, <1>27, <1>28, <1>29, <1>30, <1>31, <1>32 DEF Next, Progress, Requests, RT

LEMMA InitRenderInv == Init => RenderInv
<1> SUFFICES ASSUME Init PROVE RenderInv
  OBVIOUS
<1>1. drawn \in [0 .. Lines - 1 -> Round]
  BY DEF Init, Round
<1>2. Types
  <2>1. line \in 0 .. Lines - 1 /\ rline \in 0 .. Lines
    BY LinesAssumption DEF Init
  <2> QED BY <1>1, <2>1 DEF Init, Types, TypeOK, Round, RenderPlaces
<1>3. LineToDraw /\ AbortEnds
  BY DEF Init, LineToDraw, AbortEnds
<1>4. PlainFrames
  BY DEF Init, PlainFrames, NewRenderer, Nothing, SetupPlaces, StopPlaces
<1> QED BY <1>2, <1>3, <1>4 DEF RenderInv

LEMMA NextRenderInv == RenderInv /\ [Next]_vars => RenderInv'
<1>1. RenderInv /\ UNCHANGED vars => RenderInv'
  BY DEF RenderInv, vars, emu, semas, flags, rendering, Types, TypeOK, LineToDraw, AbortEnds,
         PlainFrames, Plain, IsUpset, NewRenderer, Nothing, Shown, Drawn, Asked, Begun, Drawing, Done,
         Resting
<1> QED BY <1>1, TypesKept, PlainKept DEF RenderInv

LEMMA SpecRenderInv == Spec => []RenderInv
  BY InitRenderInv, NextRenderInv, PTL DEF Spec

\* "Tell the main thread that we're done rendering and that it's safe to access
\* the GPU state again" (RenderThreadFunc, GPU3D_Soft.cpp): in plain frames of
\* any height VBlank rewrites that state only while the render thread rests.
THEOREM GPUStateIsProtected == Spec => []GPUStateProtected
<1>1. RenderInv => GPUStateProtected
  BY DEF RenderInv, PlainFrames, Plain, GPUStateProtected, NewRenderer, Resting, SetupPlaces,
         WaitingPlaces, StopPlaces
<1> QED BY <1>1, SpecRenderInv, PTL

\* The semaphores of GPU3D_Soft.cpp are all down when VBlank comes: as many
\* lines were announced (RenderPolygons) as were waited for (GetLine), and the
\* end of the frame once (VCount144).
THEOREM SemaphoresBalance == Spec => []NothingLeftOver
<1>1. RenderInv => NothingLeftOver
  BY DEF RenderInv, Types, PlainFrames, Plain, NothingLeftOver, NewRenderer, Resting, Nothing,
         SetupPlaces, WaitingPlaces, StopPlaces, FramePlaces
<1> QED BY <1>1, SpecRenderInv, PTL

\* GetLine waits for any post of Sema_ScanlineCount, not for its own line's; all
\* the same the line it shows is finished, in the rendering that was asked for.
THEOREM LinesAreDrawn == Spec => LinesInStep
<1>1. RenderInv /\ [Next]_vars
        => [GetLine /\ RenderThreadRunning /\ ~IsUpset => drawn[line] = want]_vars
  <2> SUFFICES ASSUME RenderInv, GetLine, RenderThreadRunning, ~IsUpset
               PROVE  drawn[line] = want
    OBVIOUS
  <2>1. Sema_ScanlineCount > 0 /\ mpc = "draw"
    BY DEF GetLine, RenderInv, PlainFrames
  <2>2. Drawing \/ Done
    BY <2>1 DEF RenderInv, PlainFrames, Plain, StopPlaces, SetupPlaces, Asked, Begun, Nothing
  <2>3. \E l \in Nat : line < l /\ Drawn(l)
    BY <2>1, <2>2, LinesAssumption DEF RenderInv, Types, TypeOK, Drawing, Done, Drawn, Shown
  <2> QED BY <2>3 DEF Drawn, RenderInv, Types, TypeOK
<1> QED BY <1>1, SpecRenderInv, PTL DEF Spec, LinesInStep
=============================================================================
