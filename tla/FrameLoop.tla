----------------------------- MODULE FrameLoop -----------------------------
(***************************************************************************)
(* What a running session promises about its frames, whatever the threads  *)
(* of the application do: at most one frame is waited for and not begun,   *)
(* at most one is begun and not ended; a frame is begun only after it was  *)
(* waited for, once, in the order the frames were handed out; none is      *)
(* replaced silently by a later one.  OxrSession implements it.            *)
(***************************************************************************)
EXTENDS Naturals

CONSTANT MaxFrames

VARIABLES lastFrame,    \* the latest frame xrWaitFrame returned, 0 for none
          waitedFrame,  \* the frame that may be begun, 0 for none
          begunFrame    \* the frame that may be ended, 0 for none

loopVars == <<lastFrame, waitedFrame, begunFrame>>

LoopInit == lastFrame = 0 /\ waitedFrame = 0 /\ begunFrame = 0

WaitReturns ==
  /\ waitedFrame = 0
  /\ lastFrame < MaxFrames
  /\ lastFrame' = lastFrame + 1
  /\ waitedFrame' = lastFrame'
  /\ UNCHANGED begunFrame

\* The frame begun before is discarded first.
Begin ==
  /\ waitedFrame # 0
  /\ begunFrame = 0
  /\ begunFrame' = waitedFrame
  /\ waitedFrame' = 0
  /\ UNCHANGED lastFrame

\* xrEndFrame, a discard by the next xrBeginFrame, or the end of the session.
EndOrDiscard ==
  /\ begunFrame # 0
  /\ begunFrame' = 0
  /\ UNCHANGED <<lastFrame, waitedFrame>>

\* The end of the session.
DiscardWaited ==
  /\ waitedFrame # 0
  /\ waitedFrame' = 0
  /\ UNCHANGED <<lastFrame, begunFrame>>

LoopNext ==
  \/ WaitReturns
  \/ Begin
  \/ EndOrDiscard
  \/ DiscardWaited

LoopSpec == LoopInit /\ [][LoopNext]_loopVars
=============================================================================
