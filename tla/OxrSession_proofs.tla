------------------------- MODULE OxrSession_proofs -------------------------
(***************************************************************************)
(* Theorems about OxrSession, for every number of frames, every set of     *)
(* events and every build: type correctness, the throttle never loses a    *)
(* wakeup, and the states are announced in an order OpenXR allows.  Off    *)
(* Android, two inductive invariants tell which frame each of the ids      *)
(* names and in which state the pacer has it; from them follow the limit   *)
(* of two frames, the gate that opens on a cleared frame_id.waited only,   *)
(* the assertions of the compositor, and the abstract frame loop.          *)
(***************************************************************************)
EXTENDS OxrSession, TLAPS

-----------------------------------------------------------------------------
(* What a path of states does to `events' and `state'. *)

\* The state a path ends in.
LEMMA LastOfPath ==
  /\ \A a : Last(<<a>>) = a
  /\ \A a, b : Last(<<a, b>>) = b
  /\ \A a, b, c : Last(<<a, b, c>>) = c
BY DEF Last

\* A path of session states leaves `state' in its last one.
LEMMA ChangeStatesType ==
  ASSUME state \in SessionStates,
         NEW path \in Seq(SessionStates),
         ChangeStates(path)
  PROVE  state' \in SessionStates /\ events' \in Seq(SessionStates)
<1>1. CASE path = <<>>
  BY <1>1 DEF ChangeStates
<1>2. CASE path # <<>>
  <2>1. Len(path) \in 1 .. Len(path)
    BY <1>2
  <2>2. path[Len(path)] \in SessionStates
    BY <2>1
  <2> QED BY <1>2, <2>2 DEF ChangeStates, Last
<1> QED BY <1>1, <1>2

\* Paths of up to three states.
LEMMA ShortPaths ==
  ASSUME NEW S
  PROVE  /\ <<>> \in Seq(S)
         /\ \A a \in S : <<a>> \in Seq(S)
         /\ \A a, b \in S : <<a, b>> \in Seq(S)
         /\ \A a, b, c \in S : <<a, b, c>> \in Seq(S)
OBVIOUS

\* The paths of xrRequestExitSession, of a pause and of xrPollEvent.
LEMMA PathTypes ==
  /\ ExitPath \in Seq(SessionStates)
  /\ PausePath \in Seq(SessionStates)
  /\ VisibilityPath \in Seq(SessionStates)
<1> DEFINE P == Seq(SessionStates)
<1>1. {"VISIBLE", "SYNCHRONIZED", "STOPPING", "FOCUSED"}
        \subseteq SessionStates
  BY DEF SessionStates
<1>2. /\ <<>> \in P
      /\ <<"STOPPING">> \in P
      /\ <<"FOCUSED">> \in P
      /\ <<"SYNCHRONIZED">> \in P
      /\ <<"SYNCHRONIZED", "STOPPING">> \in P
      /\ <<"VISIBLE", "FOCUSED">> \in P
      /\ <<"VISIBLE", "SYNCHRONIZED">> \in P
      /\ <<"VISIBLE", "SYNCHRONIZED", "STOPPING">> \in P
  BY <1>1, ShortPaths
<1> HIDE DEF P
<1>3. ExitPath \in P
  BY <1>2 DEF ExitPath
<1>4. PausePath \in P
  BY <1>2 DEF PausePath
<1>5. VisibilityPath \in P
  BY <1>2 DEF VisibilityPath
<1> QED BY <1>3, <1>4, <1>5 DEF P

-----------------------------------------------------------------------------
(* Types. *)

StateTypes ==
  /\ state \in SessionStates
  /\ exiting \in BOOLEAN
  /\ has_ended_once \in BOOLEAN
  /\ visible \in BOOLEAN
  /\ events \in Seq(SessionStates)

FrameTypes ==
  /\ frame_started \in BOOLEAN
  /\ active_wait_frames \in Int
  /\ waited \in Frames \union {-1, 0}
  /\ begun \in Frames \union {-1, 0}
  /\ wframe \in Frames \union {-1}

CompTypes ==
  /\ life \in [Frames -> LifeStates]
  /\ session_active \in BOOLEAN
  /\ aborted \in BOOLEAN

OtherTypes ==
  /\ has_lost \in BOOLEAN
  /\ mpc \in MainPlaces
  /\ wpc \in WaitPlaces
  /\ serverUp \in BOOLEAN
  /\ activity \in {"none", "onPause", "onResume"}

\* TypeOK, by the variables that change together.
LEMMA TypeParts ==
  TypeOK <=> FS!FSTypeOK /\ StateTypes /\ FrameTypes /\ CompTypes /\ OtherTypes
BY DEF TypeOK, StateTypes, FrameTypes, CompTypes, OtherTypes

\* A step that announces no state.
LEMMA StateKept ==
  ASSUME StateTypes, NoStateChange
  PROVE  StateTypes'
BY ShortPaths DEF StateTypes, NoStateChange, stateVars

\* oxr_session_request_exit.
LEMMA RequestExitType ==
  ASSUME StateTypes, DoRequestExit
  PROVE  StateTypes'
<1>1. state' \in SessionStates /\ events' \in Seq(SessionStates)
  BY PathTypes, ChangeStatesType DEF StateTypes, DoRequestExit
<1> QED BY <1>1 DEF StateTypes, DoRequestExit

\* The first xrEndFrame of a session.
LEMMA SynchronizeType ==
  ASSUME StateTypes, DoSynchronize
  PROVE  StateTypes'
<1> DEFINE first == ~has_ended_once
                      /\ state \in {"IDLE", "READY", "SYNCHRONIZED"}
           path == IF first /\ state # "SYNCHRONIZED"
                   THEN <<"SYNCHRONIZED">> ELSE <<>>
<1>1. path \in Seq(SessionStates)
  BY ShortPaths DEF SessionStates
<1>2. ChangeStates(path)
  BY DEF DoSynchronize
<1>3. state' \in SessionStates /\ events' \in Seq(SessionStates)
  <2> HIDE DEF path
  <2> QED BY <1>1, <1>2, ChangeStatesType DEF StateTypes
<1>4. has_ended_once' = (has_ended_once \/ first)
        /\ UNCHANGED <<exiting, visible>>
  BY DEF DoSynchronize
<1> QED BY <1>3, <1>4 DEF StateTypes

\* One mark of a frame in the pacer.
LEMMA MarkType ==
  ASSUME CompTypes, UNCHANGED session_active,
         NEW f, NEW S, NEW next \in LifeStates, Mark(f, S, next)
  PROVE  CompTypes'
BY DEF CompTypes, Mark, InState

\* The marks of the compositor's calls.
LEMMA MarksType ==
  ASSUME CompTypes, UNCHANGED session_active, NEW f,
         CompBegin(f) \/ CompDiscard(f) \/ CompDeliver(f)
  PROVE  CompTypes'
<1>1. {"begun", "discarded", "delivered"} \subseteq LifeStates
  BY DEF LifeStates
<1>2. CASE CompBegin(f)
  BY <1>1, <1>2, MarkType DEF CompBegin
<1>3. CASE CompDiscard(f)
  BY <1>1, <1>3, MarkType DEF CompDiscard
<1>4. CASE CompDeliver(f)
  BY <1>1, <1>4, MarkType DEF CompDeliver
<1> QED BY <1>2, <1>3, <1>4

\* The steps of the throttle.
SyncStep ==
  \/ FS!FSNext
  \/ UNCHANGED syncVars

\* A step on the throttle.
LEMMA SyncStepType ==
  ASSUME FS!FSTypeOK, SyncStep
  PROVE  FS!FSTypeOK'
<1> USE DEF FS!FSTypeOK
<1>1. ASSUME NEW t \in {WaitThread}, FS!WaitCall(t) PROVE FS!FSTypeOK'
  BY <1>1 DEF FS!WaitCall, FS!Places
<1>2. ASSUME NEW t \in {WaitThread}, FS!WaitPass(t) PROVE FS!FSTypeOK'
  BY <1>2 DEF FS!WaitPass, FS!Places
<1>3. ASSUME NEW t \in {WaitThread}, FS!WaitSleep(t) PROVE FS!FSTypeOK'
  BY <1>3 DEF FS!WaitSleep, FS!Places
<1>4. ASSUME NEW t \in {WaitThread}, FS!WaitRefused(t) PROVE FS!FSTypeOK'
  BY <1>4 DEF FS!WaitRefused, FS!Places
<1>5. ASSUME NEW t \in {WaitThread}, FS!SpuriousWakeup(t) PROVE FS!FSTypeOK'
  BY <1>5 DEF FS!SpuriousWakeup, FS!Places
<1>6. ASSUME FS!Signal \/ UNCHANGED waiter
      PROVE  waiter' \in [{WaitThread} -> FS!Places]
  BY <1>6 DEF FS!Signal, FS!Asleep, FS!Places
<1>7. CASE FS!Release
  BY <1>6, <1>7 DEF FS!Release
<1>8. CASE FS!BeginSession
  BY <1>6, <1>8 DEF FS!BeginSession
<1>9. CASE FS!EndSession
  BY <1>6, <1>9 DEF FS!EndSession
<1>10. CASE FS!Fini
  BY <1>6, <1>10 DEF FS!Fini
<1>11. CASE UNCHANGED syncVars
  BY <1>11 DEF syncVars
<1> QED
  BY <1>1, <1>2, <1>3, <1>4, <1>5, <1>7, <1>8, <1>9, <1>10, <1>11
  DEF SyncStep, FS!FSNext

(***************************************************************************)
(* Every step of the session is a step of oxr_frame_sync, or leaves it     *)
(* alone.                                                                  *)
(***************************************************************************)
LEMMA StepOfSync ==
  ASSUME [Next]_vars
  PROVE  SyncStep
<1> USE DEF SyncStep, FS!FSNext, syncVars
<1>1. CASE WaitThreadNext
  BY <1>1 DEF WaitThreadNext, WaitFrame, GateStep, GatePass, GateSleep,
     GateRefused, GateSpuriousWakeup, Predict, PredictLost, ReleaseOnError,
     Record
<1>2. CASE MainThreadNext
  BY <1>2 DEF MainThreadNext, BeginSession, BeginSessionLost, EndSession,
     EndDiscardWaited, EndDiscardBegun, EndCompositor, EndCompositorLost,
     EndSync, BeginFrame, BeginDiscard, BeginCompositor, BeginFrameLost,
     BeginAssign, BeginRelease, EndFrameEmpty, EndFrameEmptyLost,
     EndFrameLayers, EndFrameLayersLost, EndFrameUnchanged, RequestExit, Poll,
     PollEvent, PollLost, PollDone, PollUnchanged, DestroySession
<1>3. CASE ServerGone
  BY <1>3 DEF ServerGone
<1>4. ASSUME NEW a \in {"onPause", "onResume"}, Activity(a) PROVE SyncStep
  BY <1>4 DEF Activity
<1>5. CASE Finished \/ UNCHANGED vars
  BY <1>5 DEF Finished, vars
<1> QED BY <1>1, <1>2, <1>3, <1>4, <1>5 DEF Next

\* A session that was just created.
LEMMA TypeInit == Init => TypeOK
<1> SUFFICES ASSUME Init PROVE TypeOK
  OBVIOUS
<1> USE DEF Init
<1>1. FS!FSTypeOK
  BY DEF FS!FSInit, FS!FSTypeOK, FS!Places
<1>2. StateTypes
  <2>1. <<"IDLE", "READY">> \in Seq(SessionStates)
    BY ShortPaths DEF SessionStates
  <2> QED BY <2>1 DEF StateTypes, SessionStates
<1>3. FrameTypes
  <2>1. frame_started \in BOOLEAN
    OBVIOUS
  <2>2. active_wait_frames \in Int
    OBVIOUS
  <2>3. waited \in Frames \union {-1, 0} /\ begun \in Frames \union {-1, 0}
    OBVIOUS
  <2>4. wframe \in Frames \union {-1}
    OBVIOUS
  <2> QED BY <2>1, <2>2, <2>3, <2>4 DEF FrameTypes
<1>4. CompTypes
  BY DEF CompTypes, LifeStates
<1>5. OtherTypes
  BY DEF OtherTypes, MainPlaces, WaitPlaces
<1> QED BY <1>1, <1>2, <1>3, <1>4, <1>5, TypeParts

\* The parts of the type invariant a step leaves alone.
LEMMA FrameKept ==
  ASSUME FrameTypes, UNCHANGED <<frameVars, wframe>>
  PROVE  FrameTypes'
BY DEF FrameTypes, frameVars

\* A step that leaves the compositor alone.
LEMMA CompKept ==
  ASSUME CompTypes, UNCHANGED <<compVars, aborted>>
  PROVE  CompTypes'
BY DEF CompTypes, compVars

\* A step that announces the states of a path.
LEMMA PathTaken ==
  ASSUME StateTypes, NEW path \in Seq(SessionStates), ChangeStates(path),
         exiting' \in BOOLEAN, has_ended_once' \in BOOLEAN, visible'
           \in BOOLEAN
  PROVE  StateTypes'
BY ChangeStatesType DEF StateTypes

-----------------------------------------------------------------------------
(* Type correctness, action by action: the throttle is SyncStepType. *)

Rest == StateTypes /\ FrameTypes /\ CompTypes /\ OtherTypes

\* xrWaitFrame.
LEMMA WaitThreadType ==
  ASSUME Rest, WaitThreadNext
  PROVE  Rest'
<1> USE DEF Rest
<1>1. ASSUME \/ WaitFrame \/ GatePass \/ GateSleep \/ GateRefused
             \/ GateSpuriousWakeup
      PROVE  Rest'
  <2>1. /\ NoStateChange
        /\ UNCHANGED <<has_lost, frameVars, mpc, wframe, compVars, envVars,
                       aborted>>
        /\ wpc' \in {wpc, "gate", "predict", "idle"}
    BY <1>1 DEF WaitFrame, GatePass, GateSleep, GateRefused,
       GateSpuriousWakeup, GateUnchanged
  <2>2. OtherTypes'
    BY <2>1 DEF OtherTypes, envVars, WaitPlaces
  <2> QED BY <2>1, <2>2, StateKept, FrameKept, CompKept
<1>2. CASE Predict
  <2>1. OtherTypes' /\ FrameTypes'
    BY <1>2 DEF Predict, OtherTypes, FrameTypes, envVars, frameVars, WaitPlaces
  <2>2. PICK f \in Frames : life' = [life EXCEPT ![f] = "woken"]
    BY <1>2 DEF Predict
  <2>3. CompTypes'
    BY <1>2, <2>2 DEF Predict, CompTypes, LifeStates
  <2> QED BY <1>2, <2>1, <2>3, StateKept DEF Predict
<1>3. CASE PredictLost
  BY <1>3, StateKept, FrameKept, CompKept
  DEF PredictLost, CallLost, OtherTypes, envVars, WaitPlaces
<1>4. CASE ReleaseOnError
  <2>1. OtherTypes' /\ CompTypes'
    BY <1>4 DEF ReleaseOnError, OtherTypes, CompTypes, envVars, compVars,
       WaitPlaces
  <2>2. FrameTypes'
    BY <1>4 DEF ReleaseOnError, FrameTypes, frameVars
  <2> QED BY <1>4, <2>1, <2>2, StateKept DEF ReleaseOnError
<1>5. CASE Record
  <2>1. OtherTypes' /\ FrameTypes'
    BY <1>5 DEF Record, OtherTypes, FrameTypes, envVars, WaitPlaces
  <2> QED BY <1>5, <2>1, StateKept, CompKept DEF Record
<1> QED BY <1>1, <1>2, <1>3, <1>4, <1>5 DEF WaitThreadNext, GateStep

\* The other calls.
LEMMA MainThreadType ==
  ASSUME Rest, MainThreadNext
  PROVE  Rest'
<1> USE DEF Rest
<1>1. CASE BeginSession
  <2>1. OtherTypes' /\ FrameTypes' /\ CompTypes'
    BY <1>1 DEF BeginSession, OtherTypes, FrameTypes, CompTypes, envVars,
       frameVars, waitVars
  <2>2. exiting' \in BOOLEAN /\ has_ended_once' \in BOOLEAN
          /\ visible' \in BOOLEAN
    BY <1>1 DEF BeginSession, StateTypes
  <2>3. CASE ChangeStates(<<"SYNCHRONIZED", "VISIBLE", "FOCUSED">>)
    <3>1. <<"SYNCHRONIZED", "VISIBLE", "FOCUSED">> \in Seq(SessionStates)
      BY ShortPaths DEF SessionStates
    <3> QED BY <2>1, <2>2, <2>3, <3>1, PathTaken
  <2>4. CASE events' = <<>> /\ UNCHANGED state
    BY <2>1, <2>2, <2>4, ShortPaths DEF StateTypes
  <2> QED BY <1>1, <2>3, <2>4 DEF BeginSession
<1>2. ASSUME BeginSessionLost \/ BeginFrameLost \/ EndCompositorLost
               \/ PollLost
      PROVE  Rest'
  <2>1. CallLost /\ NoStateChange /\ UNCHANGED <<frameVars, waitVars, envVars>>
    BY <1>2 DEF BeginSessionLost, BeginFrameLost, EndCompositorLost, PollLost
  <2>2. mpc' \in MainPlaces
    BY <1>2 DEF BeginSessionLost, BeginFrameLost, EndCompositorLost, PollLost,
       OtherTypes, MainPlaces
  <2> QED BY <2>1, <2>2, StateKept, FrameKept, CompKept
      DEF CallLost, OtherTypes, envVars, waitVars
<1>3. ASSUME \/ EndSession \/ BeginFrame \/ BeginAssign \/ BeginRelease
      PROVE  Rest'
  <2>1. /\ NoStateChange
        /\ UNCHANGED <<has_lost, waitVars, compVars, envVars, aborted>>
        /\ mpc' \in MainPlaces
    BY <1>3 DEF EndSession, BeginFrame, BeginAssign, BeginRelease, MainPlaces
  <2>2. FrameTypes'
    BY <1>3, <2>1 DEF EndSession, BeginFrame, BeginAssign, BeginRelease,
       FrameTypes, frameVars, waitVars
  <2> QED BY <2>1, <2>2, StateKept, CompKept DEF OtherTypes, envVars, waitVars
<1>4. ASSUME \/ EndDiscardWaited \/ EndDiscardBegun \/ BeginDiscard
             \/ BeginCompositor
      PROVE  Rest'
  <2>1. /\ NoStateChange
        /\ UNCHANGED <<has_lost, waitVars, envVars, session_active>>
        /\ mpc' \in MainPlaces
    BY <1>4 DEF EndDiscardWaited, EndDiscardBegun, BeginDiscard,
       BeginCompositor, MainPlaces
  <2>2. FrameTypes'
    <3>1. CASE EndDiscardWaited
      BY <3>1 DEF EndDiscardWaited, FrameTypes, waitVars
    <3>2. CASE EndDiscardBegun
      BY <3>2 DEF EndDiscardBegun, FrameTypes, waitVars
    <3>3. CASE BeginDiscard
      BY <3>3 DEF BeginDiscard, FrameTypes, waitVars
    <3>4. CASE BeginCompositor
      BY <3>4 DEF BeginCompositor, FrameTypes, frameVars, waitVars
    <3> QED BY <1>4, <3>1, <3>2, <3>3, <3>4
  <2>3. CASE UNCHANGED <<life, aborted>>
    BY <2>1, <2>2, <2>3, StateKept, CompKept
    DEF OtherTypes, envVars, waitVars, compVars
  <2>4. CASE \E f : CompBegin(f) \/ CompDiscard(f)
    BY <2>1, <2>2, <2>4, StateKept, MarksType DEF OtherTypes, envVars, waitVars
  <2> QED
    BY <1>4, <2>3, <2>4
    DEF EndDiscardWaited, EndDiscardBegun, BeginDiscard, BeginCompositor
<1>5. CASE EndCompositor
  <2>1. OtherTypes' /\ CompTypes'
    BY <1>5 DEF EndCompositor, OtherTypes, CompTypes, envVars, waitVars,
       MainPlaces
  <2>2. FrameTypes'
    <3>1. UNCHANGED <<frameVars, wframe>>
      BY <1>5 DEF EndCompositor, waitVars
    <3>2. QED
      BY <3>1, FrameKept
  <2>3. PICK path \in Seq(SessionStates) : ChangeStates(path)
    BY <1>5, ShortPaths DEF EndCompositor, SessionStates
  <2>4. StateTypes'
    BY <1>5, <2>3, PathTaken DEF EndCompositor, StateTypes
  <2> QED BY <2>1, <2>2, <2>4
<1>6. CASE EndSync
  <2>1. OtherTypes' /\ StateTypes'
    BY <1>6, ShortPaths DEF EndSync, OtherTypes, StateTypes, envVars, waitVars,
       MainPlaces
  <2> QED BY <1>6, <2>1, FrameKept, CompKept DEF EndSync, waitVars
<1>7. CASE EndFrameEmpty
  <2>1. OtherTypes'
    BY <1>7 DEF EndFrameEmpty, EndFrameUnchanged, OtherTypes, envVars, waitVars
  <2>2. FrameTypes'
    <3>1. frame_started' \in BOOLEAN
      BY <1>7 DEF EndFrameEmpty
    <3>2. active_wait_frames' \in Int
      BY <1>7 DEF EndFrameEmpty, FrameTypes
    <3>3. begun' \in Frames \union {-1, 0}
      BY <1>7 DEF EndFrameEmpty, FrameTypes
    <3>4. UNCHANGED <<waited, wframe>>
      BY <1>7 DEF EndFrameEmpty, EndFrameUnchanged, waitVars
    <3> QED BY <3>1, <3>2, <3>3, <3>4 DEF FrameTypes
  <2>3. CompTypes'
    BY <1>7, MarksType DEF EndFrameEmpty, EndFrameUnchanged, CompTypes
  <2> QED BY <1>7, <2>1, <2>2, <2>3, SynchronizeType DEF EndFrameEmpty
<1>8. CASE EndFrameEmptyLost
  <2>1. OtherTypes' /\ FrameTypes'
    BY <1>8 DEF EndFrameEmptyLost, CallLost, OtherTypes, FrameTypes, envVars,
       waitVars
  <2> QED BY <1>8, <2>1, StateKept, CompKept DEF EndFrameEmptyLost, CallLost
<1>9. CASE EndFrameLayers
  <2>1. OtherTypes'
    BY <1>9
    DEF EndFrameLayers, EndFrameUnchanged, OtherTypes, envVars, waitVars
  <2>2. FrameTypes'
    <3>1. frame_started' \in BOOLEAN
      BY <1>9 DEF EndFrameLayers
    <3>2. active_wait_frames' \in Int
      BY <1>9 DEF EndFrameLayers, FrameTypes
    <3>3. begun' \in Frames \union {-1, 0}
      BY <1>9 DEF EndFrameLayers, FrameTypes
    <3>4. UNCHANGED <<waited, wframe>>
      BY <1>9 DEF EndFrameLayers, EndFrameUnchanged, waitVars
    <3> QED BY <3>1, <3>2, <3>3, <3>4 DEF FrameTypes
  <2>3. CompTypes'
    BY <1>9, MarksType DEF EndFrameLayers, EndFrameUnchanged
  <2> QED BY <1>9, <2>1, <2>2, <2>3, SynchronizeType DEF EndFrameLayers
<1>10. CASE EndFrameLayersLost
  <2>1. OtherTypes'
    BY <1>10 DEF EndFrameLayersLost, CallLost, OtherTypes, envVars, waitVars
  <2> QED
    BY <1>10, <2>1, SynchronizeType, FrameKept, CompKept
    DEF EndFrameLayersLost, CallLost, waitVars
<1>11. CASE RequestExit
  <2>1. OtherTypes'
    BY <1>11 DEF RequestExit, OtherTypes, envVars, waitVars
  <2> QED BY <1>11, <2>1, RequestExitType, FrameKept, CompKept
      DEF RequestExit, waitVars
<1>12. ASSUME Poll \/ PollDone PROVE Rest'
  <2>1. OtherTypes'
    BY <1>12 DEF Poll, PollDone, PollUnchanged, OtherTypes, envVars, waitVars,
       MainPlaces
  <2>2. PICK path \in Seq(SessionStates) : ChangeStates(path)
    BY <1>12, ShortPaths, PathTypes DEF Poll, PollDone, SessionStates
  <2>3. StateTypes'
    BY <1>12, <2>2, PathTaken DEF Poll, PollDone, StateTypes
  <2> QED BY <1>12, <2>1, <2>3, FrameKept, CompKept
      DEF Poll, PollDone, PollUnchanged, waitVars
<1>13. ASSUME NEW event \in Events, PollEvent(event) PROVE Rest'
  <2>1. OtherTypes'
    BY <1>13 DEF PollEvent, PollUnchanged, OtherTypes, envVars, waitVars
  <2>2. CASE DoRequestExit
    BY <1>13, <2>1, <2>2, RequestExitType, FrameKept, CompKept
    DEF PollEvent, PollUnchanged, waitVars
  <2>3. CASE ~DoRequestExit
    <3>1. CASE NoStateChange
      BY <1>13, <2>1, <3>1, StateKept, FrameKept, CompKept
      DEF PollEvent, PollUnchanged, waitVars
    <3>2. CASE event \in {"show", "hide"}
      <4>1. StateTypes'
        BY <1>13, <2>3, <3>2, ShortPaths DEF PollEvent, StateTypes
      <4> QED BY <1>13, <2>1, <4>1, FrameKept, CompKept
          DEF PollEvent, PollUnchanged, waitVars
    <3>3. CASE event = "lossPending"
      <4>1. PICK path \in Seq(SessionStates) : ChangeStates(path)
        BY <1>13, <3>3, ShortPaths DEF PollEvent, SessionStates
      <4>2. StateTypes'
        BY <1>13, <3>3, <4>1, PathTaken DEF PollEvent, StateTypes
      <4> QED BY <1>13, <2>1, <4>2, FrameKept, CompKept
          DEF PollEvent, PollUnchanged, waitVars
    <3> QED BY <1>13, <2>3, <3>1, <3>2, <3>3 DEF PollEvent
  <2> QED BY <2>2, <2>3
<1>14. CASE DestroySession
  <2>1. OtherTypes' /\ CompTypes'
    BY <1>14 DEF DestroySession, OtherTypes, CompTypes, envVars, waitVars,
       MainPlaces
  <2> QED BY <1>14, <2>1, StateKept, FrameKept DEF DestroySession, waitVars
<1> QED
  BY <1>1, <1>2, <1>3, <1>4, <1>5, <1>6, <1>7, <1>8, <1>9, <1>10, <1>11,
     <1>12, <1>13, <1>14
  DEF MainThreadNext

\* Every step keeps the types.
LEMMA TypeStep == TypeOK /\ [Next]_vars => TypeOK'
<1> SUFFICES ASSUME TypeOK, [Next]_vars PROVE TypeOK'
  OBVIOUS
<1>1. FS!FSTypeOK /\ Rest
  BY TypeParts DEF Rest
<1>2. FS!FSTypeOK'
  BY <1>1, StepOfSync, SyncStepType
<1>3. ASSUME NoStateChange,
             UNCHANGED <<frameVars, waitVars, compVars, aborted, has_lost,
                         mpc>>,
             serverUp' \in BOOLEAN, activity'
               \in {"none", "onPause", "onResume"}
      PROVE  Rest'
  <2>1. OtherTypes'
    BY <1>1, <1>3 DEF OtherTypes, Rest, waitVars
  <2> QED BY <1>1, <1>3, <2>1, StateKept, FrameKept, CompKept
          DEF Rest, waitVars
<1>4. Rest'
  <2>1. CASE ServerGone
    BY <1>1, <1>3, <2>1 DEF ServerGone, Rest, OtherTypes
  <2>2. CASE \E a \in {"onPause", "onResume"} : Activity(a)
    BY <1>1, <1>3, <2>2 DEF Activity, Rest, OtherTypes
  <2>3. CASE Finished \/ UNCHANGED vars
    BY <1>1, <2>3
    DEF Finished, vars, Rest, StateTypes, FrameTypes, CompTypes, OtherTypes,
        stateVars, frameVars, compVars, envVars, waitVars
  <2> QED BY <1>1, <2>1, <2>2, <2>3, WaitThreadType, MainThreadType DEF Next
<1> QED
  BY <1>2, <1>4
  DEF Rest, TypeOK, StateTypes, FrameTypes, CompTypes, OtherTypes

(***************************************************************************)
(* Every state the session reaches is well typed; with it every path of    *)
(* session states it announces is one of XrSessionState values.            *)
(***************************************************************************)
THEOREM TypeCorrect == Spec => []TypeOK
BY TypeInit, TypeStep, PTL DEF Spec

-----------------------------------------------------------------------------
(* The throttle. *)

(***************************************************************************)
(* The session uses oxr_frame_sync as FrameSync specifies it, with one     *)
(* waiting thread: none of its calls changes the throttle in another way.  *)
(***************************************************************************)
THEOREM UsesFrameSync == Spec => FS!FSSpec
<1>1. Init => FS!FSInit
  BY DEF Init
<1>2. [Next]_vars => [FS!FSNext]_(FS!fsVars)
  BY StepOfSync DEF SyncStep, syncVars, FS!fsVars
<1> QED BY <1>1, <1>2, PTL DEF Spec, FS!FSSpec

\* Only the wait thread can sleep at the gate.
LEMMA OneSleeper ==
  ASSUME FS!FSTypeOK
  PROVE  FS!Asleep # {} <=> waiter[WaitThread] = "asleep"
BY DEF FS!Asleep

\* A signal wakes it.
LEMMA SignalWakes ==
  ASSUME FS!FSTypeOK, FS!Signal
  PROVE  waiter'[WaitThread] # "asleep"
BY DEF FS!FSTypeOK, FS!Signal, FS!Asleep

\* Every step on the throttle keeps the wakeup.
LEMMA NoLostWakeupStep ==
  ASSUME FS!FSTypeOK, FS!NoLostWakeup, SyncStep
  PROVE  FS!NoLostWakeup'
<1>1. FS!FSTypeOK'
  BY SyncStepType
<1>2. SUFFICES ASSUME waiter'[WaitThread] = "asleep"
               PROVE  running' /\ ~canWaitFrameReturn'
  BY DEF FS!NoLostWakeup, FS!Asleep
<1>3. CASE FS!WaitSleep(WaitThread)
  BY <1>3 DEF FS!WaitSleep
<1>4. CASE \/ FS!WaitCall(WaitThread) \/ FS!WaitPass(WaitThread)
           \/ FS!WaitRefused(WaitThread) \/ FS!SpuriousWakeup(WaitThread)
  BY <1>2, <1>4
  DEF FS!WaitCall, FS!WaitPass, FS!WaitRefused, FS!SpuriousWakeup, FS!FSTypeOK
<1>5. CASE FS!Release \/ FS!BeginSession \/ FS!EndSession
  BY <1>2, <1>5, SignalWakes DEF FS!Release, FS!BeginSession, FS!EndSession
<1>6. CASE FS!Fini
  BY <1>2, <1>6, OneSleeper, SignalWakes DEF FS!Fini, FS!NoLostWakeup
<1>7. CASE UNCHANGED syncVars
  BY <1>2, <1>7, OneSleeper DEF syncVars, FS!NoLostWakeup
<1> QED BY <1>3, <1>4, <1>5, <1>6, <1>7 DEF SyncStep, FS!FSNext

(***************************************************************************)
(* The wait thread never sleeps while the gate is open or the session is   *)
(* over, in any build and whatever events arrive.                          *)
(***************************************************************************)
THEOREM NeverLostWakeup == Spec => []NoWakeupLost
<1>1. Init => NoWakeupLost
  BY DEF Init, NoWakeupLost, FS!NoLostWakeup, FS!FSInit, FS!Asleep
<1>2. TypeOK /\ NoWakeupLost /\ [Next]_vars => NoWakeupLost'
  BY StepOfSync, NoLostWakeupStep DEF TypeOK, NoWakeupLost
<1> QED BY <1>1, <1>2, TypeCorrect, PTL DEF Spec

-----------------------------------------------------------------------------
(* The frame count and the gate, where a session that ended cannot begin    *)
(* again.  FrameInv is inductive.                                           *)

\* What the invariant needs to know of the types.
LEMMA Numbers ==
  ASSUME TypeOK
  PROVE  /\ active_wait_frames \in Int
         /\ waited \in Int
         /\ \A f \in Frames : f \in Int /\ f > 0
BY ConstantsAssumption DEF TypeOK, Frames

\* A session that was just created has no frame.
LEMMA FrameInvInit == Init => FrameInv
BY DEF Init, FrameInv, AtMostTwoInFlight, Throttle, Counted, InsideCalls,
   NeverRan, StoppingExits, EndPlaces, BeginPlaces, PastGate, Started,
   NotBegun,
   RoomForOneMore, FS!FSInit

\* Where the paths of the state machine lead.
LEMMA RequestExitStops ==
  ASSUME DoRequestExit
  PROVE  state' = "STOPPING" /\ exiting'
<1> DEFINE P == {<<"VISIBLE", "SYNCHRONIZED", "STOPPING">>,
                 <<"SYNCHRONIZED", "STOPPING">>, <<"STOPPING">>}
<1>1. ExitPath \in P \/ (ExitPath = <<>> /\ state = "STOPPING")
  BY DEF ExitPath
<1>2. \A path \in P : path # <<>> /\ Last(path) = "STOPPING"
  BY LastOfPath
<1> QED BY <1>1, <1>2 DEF DoRequestExit, ChangeStates

\* The first xrEndFrame leads to SYNCHRONIZED, or nowhere.
LEMMA SynchronizeLeads ==
  ASSUME DoSynchronize
  PROVE  /\ state' \in {state, "SYNCHRONIZED"}
         /\ exiting' = exiting
BY LastOfPath DEF DoSynchronize, ChangeStates

\* xrPollEvent leads to FOCUSED or back to SYNCHRONIZED, or nowhere.
LEMMA VisibilityLeads ==
  ASSUME ChangeStates(VisibilityPath)
  PROVE  state' \in {state, "FOCUSED", "SYNCHRONIZED"}
<1> DEFINE P == {<<"VISIBLE", "FOCUSED">>, <<"FOCUSED">>,
                 <<"VISIBLE", "SYNCHRONIZED">>, <<"SYNCHRONIZED">>}
<1>1. VisibilityPath \in P \union {<<>>}
  BY DEF VisibilityPath
<1>2. \A path \in P : Last(path) \in {"FOCUSED", "SYNCHRONIZED"}
  BY LastOfPath
<1> QED BY <1>1, <1>2 DEF ChangeStates

\* A step between the calls of the frame loop.
Quiet ==
  /\ UNCHANGED <<running, canWaitFrameReturn, frameVars, wframe, activity>>
  /\ wpc' = wpc \/ (wpc \in {"idle", "gate"} /\ wpc' = "idle")
                \/ (wpc = "idle" /\ wpc' = "gate" /\ running /\ ~Headless)
  /\ mpc' = mpc \/ (mpc \in {"idle", "poll"} /\ mpc' \in {"idle", "poll"})
  /\ UNCHANGED <<state, exiting, has_lost>> \/ mpc \in {"idle", "poll"}
  /\ has_lost => has_lost'
  /\ state' = "READY" => state = "READY"
  /\ state' = "STOPPING" => exiting'

\* A step that changes nothing FrameInv speaks of.
LEMMA QuietKeeps ==
  ASSUME FrameInv, Quiet
  PROVE  FrameInv'
<1> USE DEF FrameInv, Quiet, frameVars, EndPlaces, BeginPlaces, PastGate
<1>1. AtMostTwoInFlight'
  BY DEF AtMostTwoInFlight
<1>2. Throttle'
  BY DEF Throttle, RoomForOneMore
<1>3. Counted'
  BY DEF Counted, Started, NotBegun
<1>4. InsideCalls'
  BY DEF InsideCalls
<1>5. NeverRan'
  BY DEF NeverRan
<1>6. StoppingExits'
  BY DEF StoppingExits
<1> QED BY <1>1, <1>2, <1>3, <1>4, <1>5, <1>6

\* xrWaitFrame.
LEMMA WaitThreadFrameInv ==
  ASSUME TypeOK, FrameInv, WaitThreadNext
  PROVE  FrameInv'
<1> USE DEF FrameInv, EndPlaces, BeginPlaces, PastGate
<1>0. StoppingExits /\ Quiet => FrameInv'
  BY QuietKeeps
<1>1. ASSUME WaitFrame \/ GateSleep \/ GateRefused \/ GateSpuriousWakeup
      PROVE  Quiet
  BY <1>1
  DEF WaitFrame, GateSleep, GateRefused, GateSpuriousWakeup, GateUnchanged,
      NoStateChange, stateVars, envVars, Waiting, ApiAllowed, Quiet,
      FS!WaitCall, FS!WaitSleep, FS!WaitRefused, FS!SpuriousWakeup,
      StoppingExits
<1>2. CASE GatePass
  BY <1>2, Numbers
  DEF GatePass, GateUnchanged, FS!WaitPass, Waiting, NoStateChange, stateVars,
      frameVars, envVars, AtMostTwoInFlight, Throttle, Counted, InsideCalls,
      NeverRan, StoppingExits, RoomForOneMore, Started, NotBegun
<1>3. CASE Predict
  BY <1>3, Numbers
  DEF Predict, syncVars, Waiting, NoStateChange, stateVars,
      frameVars, envVars, AtMostTwoInFlight, Throttle, Counted, InsideCalls,
      NeverRan, StoppingExits, RoomForOneMore, Started, NotBegun
<1>4. CASE PredictLost
  BY <1>4, Numbers
  DEF PredictLost, CallLost, syncVars, Waiting, NoStateChange, stateVars,
      frameVars, envVars, AtMostTwoInFlight, Throttle, Counted, InsideCalls,
      NeverRan, StoppingExits, RoomForOneMore, Started, NotBegun
<1>5. CASE ReleaseOnError
  BY <1>5, Numbers
  DEF ReleaseOnError, FS!Release, syncVars, Waiting, NoStateChange, stateVars,
      frameVars, envVars, AtMostTwoInFlight, Throttle, Counted, InsideCalls,
      NeverRan, StoppingExits, RoomForOneMore, Started, NotBegun
<1>6. CASE Record
  BY <1>6, Numbers
  DEF Record, syncVars, Waiting, NoStateChange, stateVars,
      frameVars, envVars, AtMostTwoInFlight, Throttle, Counted, InsideCalls,
      NeverRan, StoppingExits, RoomForOneMore, Started, NotBegun
<1> QED BY <1>0, <1>1, <1>2, <1>3, <1>4, <1>5, <1>6
        DEF WaitThreadNext, GateStep

\* xrPollEvent, xrRequestExitSession and the calls that are refused.
LEMMA PollFrameInv ==
  ASSUME TypeOK, FrameInv,
         \/ BeginSessionLost \/ EndFrameLayersLost \/ RequestExit \/ Poll
         \/ PollLost \/ PollDone \/ \E event \in Events : PollEvent(event)
  PROVE  FrameInv'
<1> USE DEF Main, NoStateChange, stateVars, envVars, waitVars, syncVars
<1>1. activity = "none" /\ (state = "STOPPING" => exiting)
  BY DEF FrameInv, StoppingExits
<1>2. ASSUME BeginSessionLost \/ PollLost PROVE Quiet
  BY <1>1, <1>2 DEF BeginSessionLost, PollLost, CallLost, Quiet
<1>3. CASE EndFrameLayersLost
  BY <1>1, <1>3, SynchronizeLeads, QuietKeeps
  DEF EndFrameLayersLost, CallLost, Quiet
<1>4. CASE RequestExit
  BY <1>4, RequestExitStops, QuietKeeps DEF RequestExit, Quiet
<1>5. CASE Poll
  <2>1. UNCHANGED <<state, exiting>>
    BY <1>1, <1>5 DEF Poll, ChangeStates
  <2> QED BY <1>1, <1>5, <2>1, QuietKeeps DEF Poll, PollUnchanged, Quiet
<1>6. CASE PollDone
  BY <1>1, <1>6, VisibilityLeads, QuietKeeps DEF PollDone, PollUnchanged, Quiet
<1>7. ASSUME NEW event \in Events, PollEvent(event) PROVE FrameInv'
  <2>1. CASE DoRequestExit
    <3>1. UNCHANGED <<syncVars, frameVars, waitVars, envVars, mpc>>
      BY <1>7 DEF PollEvent, PollUnchanged
    <3>2. mpc = "poll" /\ (has_lost => has_lost')
      BY <1>7 DEF PollEvent
    <3>3. Quiet
      BY <2>1, <3>1, <3>2, RequestExitStops DEF Quiet
    <3> QED BY <3>3, QuietKeeps
  <2>2. CASE ~DoRequestExit
    <3>1. UNCHANGED exiting /\ state' \in {state, "LOSS_PENDING"}
      BY <1>7, <2>2, LastOfPath DEF PollEvent, ChangeStates
    <3>2. has_lost => has_lost'
      BY <1>7, <2>2 DEF PollEvent
    <3>3. /\ UNCHANGED <<syncVars, frameVars, waitVars, envVars, mpc>>
          /\ mpc = "poll"
      BY <1>7 DEF PollEvent, PollUnchanged
    <3>4. Quiet
      BY <1>1, <3>1, <3>2, <3>3 DEF Quiet
    <3> QED BY <3>4, QuietKeeps
  <2> QED BY <2>1, <2>2
<1> QED BY <1>2, <1>3, <1>4, <1>5, <1>6, <1>7, QuietKeeps

\* Beginning and ending the session, and the frame that is dropped then.
LEMMA SessionFrameInv ==
  ASSUME Android = FALSE, TypeOK, FrameInv,
         \/ BeginSession \/ EndSession \/ EndDiscardWaited \/ EndDiscardBegun
         \/ EndCompositor \/ EndCompositorLost \/ EndSync \/ DestroySession
  PROVE  FrameInv'
<1> USE Numbers
    DEF Main, NoStateChange, stateVars, envVars, waitVars, frameVars, syncVars,
        FrameInv, EndPlaces, BeginPlaces, PastGate, AtMostTwoInFlight,
        Throttle,
        Counted, InsideCalls, NeverRan, StoppingExits, RoomForOneMore, Started,
        NotBegun
<1>1. CASE BeginSession
  <2>1. state' \in {state, "FOCUSED"}
    BY <1>1, LastOfPath DEF BeginSession, ChangeStates
  <2> QED BY <1>1, <2>1 DEF BeginSession, FS!BeginSession
<1>2. CASE EndSession
  BY <1>2 DEF EndSession, ApiAllowed
<1>3. CASE EndDiscardWaited
  BY <1>3 DEF EndDiscardWaited
<1>4. CASE EndDiscardBegun
  BY <1>4 DEF EndDiscardBegun
<1>5. CASE EndCompositor
  <2>1. exiting /\ ChangeStates(<<"IDLE", "EXITING">>)
    BY <1>5 DEF EndCompositor
  <2>2. state' = "EXITING"
    BY <2>1, LastOfPath DEF ChangeStates
  <2> QED BY <1>5, <2>2 DEF EndCompositor
<1>6. CASE EndCompositorLost
  BY <1>6 DEF EndCompositorLost, CallLost
<1>7. CASE EndSync
  BY <1>7 DEF EndSync, FS!EndSession
<1>8. CASE DestroySession
  BY <1>8 DEF DestroySession, Waiting, FS!Fini
<1> QED BY <1>1, <1>2, <1>3, <1>4, <1>5, <1>6, <1>7, <1>8

\* xrBeginFrame, and xrEndFrame up to the compositor.
LEMMA FrameCallsFrameInv ==
  ASSUME TypeOK, FrameInv,
         \/ BeginFrame \/ BeginDiscard \/ BeginCompositor \/ BeginFrameLost
         \/ BeginAssign \/ BeginRelease \/ EndFrameEmpty \/ EndFrameEmptyLost
         \/ EndFrameLayers
  PROVE  FrameInv'
<1> USE Numbers
    DEF Main, NoStateChange, stateVars, envVars, waitVars, frameVars, syncVars,
        FrameInv, EndPlaces, BeginPlaces, PastGate, AtMostTwoInFlight,
        Throttle,
        Counted, InsideCalls, NeverRan, StoppingExits, RoomForOneMore, Started,
        NotBegun
<1>1. CASE BeginFrame
  BY <1>1 DEF BeginFrame, ApiAllowed
<1>2. CASE BeginDiscard
  BY <1>2 DEF BeginDiscard
<1>3. CASE BeginCompositor
  BY <1>3 DEF BeginCompositor
<1>4. CASE BeginFrameLost
  BY <1>4 DEF BeginFrameLost, CallLost
<1>5. CASE BeginAssign
  BY <1>5 DEF BeginAssign
<1>6. CASE BeginRelease
  <2>1. running /\ ~canWaitFrameReturn
    BY <1>6 DEF BeginRelease
  <2>2. FS!Release
    BY <1>6, <2>1 DEF BeginRelease, FS!ReleaseRefused
  <2>3. active_wait_frames <= 1 /\ waited <= 0 /\ wpc \notin PastGate
    BY <1>6 DEF BeginRelease
  <2>4. running /\ running' = running
    BY <2>1, <2>2 DEF FS!Release
  <2>5. Throttle'
    BY <1>6, <2>3, <2>4 DEF BeginRelease
  <2> QED BY <1>6, <2>4, <2>5 DEF BeginRelease
<1>7. CASE EndFrameEmpty
  BY <1>7, SynchronizeLeads DEF EndFrameEmpty, EndFrameUnchanged, ApiAllowed
<1>8. CASE EndFrameEmptyLost
  BY <1>8 DEF EndFrameEmptyLost, CallLost, ApiAllowed
<1>9. CASE EndFrameLayers
  BY <1>9, SynchronizeLeads DEF EndFrameLayers, EndFrameUnchanged, ApiAllowed
<1> QED BY <1>1, <1>2, <1>3, <1>4, <1>5, <1>6, <1>7, <1>8, <1>9

\* Off Android every step keeps FrameInv.
LEMMA FrameInvStep ==
  ASSUME Android = FALSE, TypeOK, FrameInv, [Next]_vars
  PROVE  FrameInv'
<1>1. ASSUME ServerGone \/ Finished \/ UNCHANGED vars PROVE Quiet
  BY <1>1
  DEF ServerGone, Finished, vars, NoStateChange, stateVars, envVars, waitVars,
      frameVars, syncVars, Quiet, FrameInv, StoppingExits
<1>2. ~\E a \in {"onPause", "onResume"} : Activity(a)
  BY DEF Activity
<1> QED
  BY <1>1, <1>2, QuietKeeps, WaitThreadFrameInv, PollFrameInv, SessionFrameInv,
     FrameCallsFrameInv
  DEF Next, MainThreadNext

(***************************************************************************)
(* Off Android, with any number of frames, any events, a compositor in or  *)
(* out of process, and a session with or without graphics: the count of    *)
(* frames in flight, the throttle and the two frame ids agree.             *)
(***************************************************************************)
THEOREM FrameLoopInvariant ==
  ASSUME Android = FALSE
  PROVE  Spec => []FrameInv
<1>1. TypeOK /\ FrameInv /\ [Next]_vars => FrameInv'
  BY FrameInvStep
<1> QED BY <1>1, FrameInvInit, TypeCorrect, PTL DEF Spec

(***************************************************************************)
(* "max 2 xrWaitFrame can be in flight" (oxr_session.c, xrBeginFrame).     *)
(***************************************************************************)
THEOREM TwoInFlight ==
  ASSUME Android = FALSE
  PROVE  Spec => []AtMostTwoInFlight
<1>1. FrameInv => AtMostTwoInFlight
  BY DEF FrameInv
<1> QED BY <1>1, FrameLoopInvariant, PTL

(***************************************************************************)
(* xrWaitFrame passes the gate only when xrBeginFrame has cleared          *)
(* frame_id.waited, so no frame id is overwritten before it is begun.      *)
(***************************************************************************)
THEOREM GateIsSafe ==
  ASSUME Android = FALSE
  PROVE  Spec => []GateOpensOnClearedId
<1>1. FrameInv => GateOpensOnClearedId
  BY DEF FrameInv, Throttle, RoomForOneMore, PastGate, GateOpensOnClearedId
<1> QED BY <1>1, FrameLoopInvariant, PTL

-----------------------------------------------------------------------------
(* What the ids say of the pacer's states, where a session that ended cannot *)
(* begin again.  With FrameInv, LifeInv is inductive.                        *)

Ids ==
  /\ wpc = "record" <=> wframe > 0
  /\ begun > 0 => frame_started
  /\ mpc \in {"begin", "assign"} => begun <= 0
  /\ Headless => /\ begun <= 0
                 /\ ~frame_started
                 /\ mpc \notin {"endWaited", "endBegun"}

\* A server that is there has each of the three frames in the state the next
\* call on it needs, and knows of no other open frame.
Lives ==
  serverUp =>
    /\ waited > 0 =>
         life[waited] = IF mpc = "assign" THEN "begun" ELSE "woken"
    /\ begun > 0 => life[begun] = "begun"
    /\ wframe > 0 => life[wframe] = "woken"
    /\ frame_started /\ mpc \notin {"begin", "assign"} => begun > 0
    /\ NoFrameForgotten

\* Compositor sessions begin and end in turn.
InTurn ==
  /\ ~Headless /\ running /\ mpc # "endSync" => session_active
  /\ ~running /\ state = "READY" /\ mpc # "destroyed" => ~session_active

\* Ids are handed out in order; xrWaitFrame returns the latest.
HandedInOrder ==
  \E n \in 0 .. MaxFrames :
    /\ \A f \in Frames : life[f] # "unused" <=> f <= n
    /\ wpc = "record" => wframe = n

LifeInv == Ids /\ Lives /\ InTurn /\ HandedInOrder

\* A session that was just created has handed out no id.
LEMMA LifeInvInit == Init => LifeInv
<1> SUFFICES ASSUME Init PROVE LifeInv
  OBVIOUS
<1>1. HandedInOrder
  <2>1. 0 \in 0 .. MaxFrames /\ \A f \in Frames : ~(f <= 0)
    BY ConstantsAssumption DEF Frames
  <2> QED BY <2>1 DEF Init, HandedInOrder
<1>2. Ids /\ Lives /\ InTurn
  BY DEF Init, Ids, Lives, InTurn, NoFrameForgotten, FS!FSInit
<1> QED BY <1>1, <1>2 DEF LifeInv

\* What a pacer call does when its assertion holds.
Marked(f, next) ==
  life' = [life EXCEPT ![f] = next] /\ UNCHANGED aborted

\* A mark of a frame in the state the pacer asserts breaks no assertion.
LEMMA MarkInState ==
  ASSUME NEW f, NEW S, NEW next, InState(f, S), Mark(f, S, next)
  PROVE  Marked(f, next)
BY DEF Mark, Marked

\* The frames the session holds, with what TypeOK says of them.
LEMMA Held ==
  ASSUME TypeOK
  PROVE  /\ waited \in Int /\ begun \in Int /\ wframe \in Int
         /\ waited > 0 => waited \in Frames
         /\ begun > 0 => begun \in Frames
         /\ wframe > 0 => wframe \in Frames
         /\ life \in [Frames -> LifeStates]
         /\ \A f \in Frames : f \in Int /\ f > 0
BY ConstantsAssumption DEF TypeOK, Frames

\* A step that leaves the pacer and the ids alone.
LifeQuiet ==
  /\ UNCHANGED <<frame_started, waited, begun, wframe, life>>
  /\ serverUp' => serverUp
  /\ wpc = "record" <=> wpc' = "record"
  /\ mpc' \in {"begin", "assign"} => mpc' = mpc
  /\ serverUp' /\ mpc \in {"begin", "assign"} => mpc' = mpc
  /\ mpc' \in {"endWaited", "endBegun"} =>
       mpc \in {"endWaited", "endBegun"} \/ ~Headless

\* A step that changes none of the ids.
LEMMA LifeQuietKeeps ==
  ASSUME LifeInv, LifeQuiet
  PROVE  (Ids /\ Lives /\ HandedInOrder)'
BY DEF LifeInv, LifeQuiet, Ids, Lives, HandedInOrder, NoFrameForgotten

\* A step that leaves the session as it was.
TurnQuiet ==
  /\ UNCHANGED <<running, session_active>>
  /\ state' = "READY" => state = "READY"
  /\ mpc = "endSync" <=> mpc' = "endSync"
  /\ mpc = "destroyed" <=> mpc' = "destroyed"

\* A step that neither begins nor ends a session.
LEMMA TurnQuietKeeps ==
  ASSUME LifeInv, TurnQuiet
  PROVE  InTurn'
BY DEF LifeInv, TurnQuiet, InTurn

\* xrWaitFrame takes the next id, and records it past the gate.
LEMMA WaitThreadLife ==
  ASSUME TypeOK, FrameInv, LifeInv, WaitThreadNext
  PROVE  LifeInv'
<1> USE DEF LifeInv
<1>1. InTurn'
  <2>1. TurnQuiet
    BY DEF WaitThreadNext, GateStep, WaitFrame, GatePass, GateSleep,
       GateRefused, GateSpuriousWakeup, GateUnchanged, Predict, PredictLost,
       CallLost, ReleaseOnError, Record, NoStateChange, stateVars, syncVars,
       compVars, TurnQuiet, FS!WaitCall, FS!WaitPass, FS!WaitSleep,
       FS!WaitRefused, FS!SpuriousWakeup, FS!Release
  <2> QED BY <2>1, TurnQuietKeeps
<1>2. ASSUME \/ WaitFrame \/ GateStep \/ GateSpuriousWakeup \/ PredictLost
             \/ ReleaseOnError
      PROVE  LifeQuiet
  BY <1>2
  DEF GateStep, WaitFrame, GatePass, GateSleep, GateRefused,
      GateSpuriousWakeup, GateUnchanged, PredictLost, CallLost,
      ReleaseOnError, Waiting, frameVars, compVars, envVars, LifeQuiet
<1>3. CASE Predict
  <2>1. PICK f \in Frames :
          /\ life[f] = "unused"
          /\ \A g \in 1 .. f - 1 : life[g] # "unused"
          /\ life' = [life EXCEPT ![f] = "woken"]
          /\ wframe' = f
    BY <1>3 DEF Predict
  <2>2. /\ UNCHANGED <<frame_started, waited, begun, mpc, serverUp>>
        /\ wpc = "predict" /\ wpc' = "record" /\ serverUp
    BY <1>3 DEF Predict, Waiting, frameVars, envVars
  <2>3. waited <= 0 /\ wframe <= 0
    BY <2>2, Held DEF FrameInv, Throttle, RoomForOneMore, PastGate, Ids
  <2>4. begun > 0 => begun # f
    BY <2>1, <2>2 DEF Lives
  <2>5. Ids'
    BY <2>1, <2>2, Held DEF Ids
  <2>6. Lives'
    BY <2>1, <2>2, <2>3, <2>4, Held DEF Lives, NoFrameForgotten
  <2>7. HandedInOrder'
    <3>1. PICK n \in 0 .. MaxFrames :
            \A g \in Frames : life[g] # "unused" <=> g <= n
      BY DEF HandedInOrder
    <3>2. f \in Frames /\ f = n + 1
      <4>1. f \in 1 .. MaxFrames /\ ~(f <= n)
        BY <2>1, <3>1 DEF Frames
      <4>2. f > 1 => f - 1 \in Frames /\ f - 1 \in 1 .. f - 1
        BY <4>1, ConstantsAssumption DEF Frames
      <4>3. f > 1 => f - 1 <= n
        BY <2>1, <3>1, <4>2
      <4> QED BY <4>1, <4>3, ConstantsAssumption DEF Frames
    <3>3. \A g \in Frames : life'[g] # "unused" <=> g <= f
      BY <2>1, <3>1, <3>2, Held
    <3> QED BY <2>1, <3>2, <3>3, ConstantsAssumption DEF HandedInOrder, Frames
  <2> QED BY <1>1, <2>5, <2>6, <2>7
<1>4. CASE Record
  <2>1. /\ UNCHANGED <<frame_started, begun, mpc, serverUp, life>>
        /\ wpc = "record" /\ wpc' = "idle"
        /\ waited' = wframe /\ wframe' = -1
    BY <1>4 DEF Record, Waiting, compVars, envVars
  <2>2. waited <= 0 /\ mpc # "assign"
    BY <2>1 DEF FrameInv, Throttle, RoomForOneMore, PastGate, BeginPlaces
  <2>3. Ids'
    BY <2>1 DEF Ids
  <2>4. Lives'
    BY <2>1, <2>2, Held DEF Lives, NoFrameForgotten
  <2>5. HandedInOrder'
    BY <2>1 DEF HandedInOrder
  <2> QED BY <1>1, <2>3, <2>4, <2>5
<1> QED BY <1>1, <1>2, <1>3, <1>4, LifeQuietKeeps DEF WaitThreadNext

\* Beginning and ending the session, and what xrEndFrame delivers.
LEMMA SessionLife ==
  ASSUME Android = FALSE, TypeOK, FrameInv, LifeInv,
         \/ BeginSession \/ BeginSessionLost \/ EndSession \/ EndCompositor
         \/ EndCompositorLost \/ EndSync \/ DestroySession
  PROVE  LifeInv' /\ (aborted' => aborted)
<1> USE DEF LifeInv, Main
<1>1. LifeQuiet
  BY DEF BeginSession, BeginSessionLost, EndSession, EndCompositor,
     EndCompositorLost, EndSync, DestroySession, CallLost, NoStateChange,
     frameVars, waitVars, compVars, envVars, LifeQuiet
<1>2. Ids' /\ Lives' /\ HandedInOrder'
  BY <1>1, LifeQuietKeeps
<1>3. CASE BeginSession
  <2>1. ~running /\ state = "READY" /\ running' /\ mpc' = "idle"
          /\ mpc = "idle"
    BY <1>3 DEF BeginSession, FS!BeginSession
  <2>2. ~session_active
    BY <2>1 DEF InTurn
  <2>3. /\ aborted' => aborted
        /\ ~Headless => session_active'
    BY <1>3, <2>2 DEF BeginSession
  <2>4. InTurn'
    BY <2>1, <2>3 DEF InTurn
  <2> QED BY <1>2, <2>3, <2>4
<1>4. CASE BeginSessionLost \/ EndSession \/ EndCompositorLost
  <2>1. TurnQuiet /\ UNCHANGED aborted
    BY <1>4
    DEF BeginSessionLost, EndSession, EndCompositorLost, CallLost,
        NoStateChange, stateVars, syncVars, compVars, TurnQuiet
  <2> QED BY <1>2, <2>1, TurnQuietKeeps
<1>5. CASE EndCompositor
  <2>1. running /\ UNCHANGED running /\ mpc = "endComp" /\ mpc' = "endSync"
    BY <1>5 DEF EndCompositor, syncVars, FrameInv, InsideCalls, EndPlaces
  <2>2. InTurn'
    BY <2>1 DEF InTurn
  <2>3. ~Headless => session_active
    BY <2>1 DEF InTurn
  <2>4. aborted' => aborted
    BY <1>5, <2>3 DEF EndCompositor
  <2> QED BY <1>2, <2>2, <2>4
<1>6. CASE EndSync
  <2>1. state' # "READY" /\ ~running' /\ UNCHANGED aborted
    BY <1>6 DEF EndSync, FS!EndSession, FrameInv, StoppingExits
  <2> QED BY <1>2, <2>1 DEF InTurn
<1>7. CASE DestroySession
  <2>1. mpc' = "destroyed" /\ ~running' /\ UNCHANGED aborted
    BY <1>7 DEF DestroySession, FS!Fini
  <2> QED BY <1>2, <2>1 DEF InTurn
<1> QED BY <1>3, <1>4, <1>5, <1>6, <1>7

\* xrPollEvent, and calls that end without the compositor.
LEMMA PollLife ==
  ASSUME FrameInv, LifeInv,
         \/ BeginFrameLost \/ BeginRelease \/ EndFrameEmptyLost
         \/ EndFrameLayersLost \/ RequestExit \/ Poll \/ PollLost \/ PollDone
         \/ \E event \in Events : PollEvent(event)
  PROVE  LifeInv' /\ UNCHANGED aborted
<1> USE DEF LifeInv, Main
<1>1. LifeQuiet /\ UNCHANGED <<session_active, aborted>>
  BY DEF BeginFrameLost, BeginRelease, EndFrameEmptyLost, EndFrameLayersLost,
     RequestExit, Poll, PollLost, PollDone, PollEvent, PollUnchanged, CallLost,
     frameVars, waitVars, compVars, envVars, LifeQuiet
<1>2. /\ mpc # "endSync" /\ mpc' # "endSync"
      /\ mpc # "destroyed" /\ mpc' # "destroyed"
      /\ UNCHANGED running
  BY DEF BeginFrameLost, BeginRelease, EndFrameEmptyLost, EndFrameLayersLost,
     RequestExit, Poll, PollLost, PollDone, PollEvent, PollUnchanged,
     syncVars, FS!Release
<1>3. state' = "READY" => state = "READY"
  <2>1. CASE BeginFrameLost \/ BeginRelease \/ EndFrameEmptyLost \/ PollLost
    BY <2>1
    DEF BeginFrameLost, BeginRelease, EndFrameEmptyLost, PollLost,
        NoStateChange, stateVars
  <2>2. CASE EndFrameLayersLost
    BY <2>2, SynchronizeLeads DEF EndFrameLayersLost
  <2>3. CASE RequestExit
    BY <2>3, RequestExitStops DEF RequestExit
  <2>4. CASE Poll
    BY <2>4 DEF Poll, ChangeStates, FrameInv, StoppingExits
  <2>5. CASE PollDone
    BY <2>5, VisibilityLeads DEF PollDone
  <2>6. ASSUME NEW event \in Events, PollEvent(event)
        PROVE state' # "READY" \/ UNCHANGED state
    BY <2>6, RequestExitStops, LastOfPath
    DEF PollEvent, ChangeStates, NoStateChange, stateVars
  <2> QED BY <2>1, <2>2, <2>3, <2>4, <2>5, <2>6
<1>4. TurnQuiet
  BY <1>1, <1>2, <1>3 DEF TurnQuiet
<1> QED BY <1>1, <1>4, LifeQuietKeeps, TurnQuietKeeps

\* The calls that begin, discard and deliver a frame.
LEMMA FrameCallsLife ==
  ASSUME TypeOK, FrameInv, LifeInv,
         \/ BeginFrame \/ BeginDiscard \/ BeginCompositor \/ BeginAssign
         \/ EndFrameEmpty \/ EndFrameLayers
         \/ EndDiscardWaited \/ EndDiscardBegun
  PROVE  LifeInv' /\ UNCHANGED aborted
<1> USE DEF LifeInv, Main
<1> DEFINE Kept == UNCHANGED <<wframe, wpc, serverUp>>
<1>1. InTurn'
  <2>1. CASE BeginFrame \/ BeginDiscard \/ BeginCompositor \/ BeginAssign
             \/ EndDiscardWaited \/ EndDiscardBegun
    <3>1. TurnQuiet
      BY <2>1
      DEF BeginFrame, BeginDiscard, BeginCompositor, BeginAssign,
          EndDiscardWaited, EndDiscardBegun, NoStateChange, stateVars,
          syncVars,
          compVars, TurnQuiet
    <3> QED BY <3>1, TurnQuietKeeps
  <2>2. CASE EndFrameEmpty \/ EndFrameLayers
    <3>1. TurnQuiet
      BY <2>2, SynchronizeLeads
      DEF EndFrameEmpty, EndFrameLayers, EndFrameUnchanged, syncVars, TurnQuiet
    <3> QED BY <3>1, TurnQuietKeeps
  <2> QED BY <2>1, <2>2
<1>2. Kept
  BY DEF BeginFrame, BeginDiscard, BeginCompositor, BeginAssign, EndFrameEmpty,
     EndFrameLayers, EndFrameUnchanged, EndDiscardWaited, EndDiscardBegun,
     waitVars, envVars
<1>3. CASE BeginFrame
  <2>1. ~Headless
    BY <1>3 DEF BeginFrame, FrameInv, Throttle
  <2>2. /\ UNCHANGED <<waited, begun, life, aborted>>
        /\ mpc = "idle" /\ frame_started' = TRUE
        /\ mpc' = IF frame_started THEN "discard" ELSE "begin"
    BY <1>3, <2>1 DEF BeginFrame, compVars
  <2>3. Ids'
    BY <1>2, <2>1, <2>2, Held DEF Ids
  <2>4. Lives'
    BY <1>2, <2>2 DEF Lives, NoFrameForgotten
  <2>5. HandedInOrder'
    BY <1>2, <2>2 DEF HandedInOrder
  <2> QED BY <1>1, <2>2, <2>3, <2>4, <2>5
<1>4. CASE BeginAssign
  <2>1. /\ begun' = waited /\ waited' = -1
        /\ mpc = "assign" /\ mpc' = "release"
        /\ UNCHANGED <<frame_started, life, aborted>>
    BY <1>4 DEF BeginAssign, compVars
  <2>2. waited > 0 /\ begun <= 0 /\ frame_started
    BY <2>1 DEF Ids, FrameInv, InsideCalls, BeginPlaces
  <2>3. ~Headless
    BY <2>2 DEF Ids
  <2>4. Ids'
    BY <1>2, <2>1, <2>2, <2>3, Held DEF Ids
  <2>5. Lives'
    BY <1>2, <2>1, <2>2, Held DEF Lives, NoFrameForgotten
  <2>6. HandedInOrder'
    BY <1>2, <2>1 DEF HandedInOrder
  <2> QED BY <1>1, <2>1, <2>4, <2>5, <2>6
<1>5. CASE BeginCompositor
  <2>1. /\ UNCHANGED <<frame_started, waited, begun>>
        /\ mpc = "begin" /\ mpc' = "assign" /\ serverUp
        /\ CompBegin(waited)
    BY <1>5 DEF BeginCompositor, frameVars
  <2>2. waited > 0 /\ begun <= 0
    BY <2>1 DEF Ids, FrameInv, InsideCalls
  <2>3. Marked(waited, "begun")
    BY <2>1, <2>2, Held, MarkInState DEF Lives, InState, CompBegin
  <2>4. Ids'
    BY <1>2, <2>1, <2>2 DEF Ids
  <2>5. waited # wframe
    BY <2>1, <2>2, Held
    DEF Ids, FrameInv, Throttle, RoomForOneMore, PastGate, BeginPlaces
  <2>6. Lives'
    BY <1>2, <2>1, <2>2, <2>3, <2>5, Held DEF Lives, NoFrameForgotten, Marked
  <2>7. HandedInOrder'
    BY <1>2, <2>1, <2>2, <2>3, Held DEF Lives, HandedInOrder, Marked
  <2> QED BY <1>1, <2>3, <2>4, <2>6, <2>7 DEF Marked
<1>6. CASE EndDiscardWaited
  <2>1. /\ UNCHANGED <<frame_started, begun>>
        /\ mpc = "endWaited" /\ mpc' = "endBegun" /\ ~Headless
    BY <1>6 DEF EndDiscardWaited, Ids
  <2>2. CASE waited <= 0 \/ ~serverUp
    <3>1. UNCHANGED <<life, aborted>> /\ waited' \in {waited, -1}
      BY <1>6, <2>2, Held DEF EndDiscardWaited
    <3>2. serverUp => waited' = waited
      BY <1>6, <2>2, Held DEF EndDiscardWaited
    <3>3. Ids' /\ Lives' /\ HandedInOrder'
      BY <1>2, <2>1, <3>1, <3>2 DEF Ids, Lives, HandedInOrder, NoFrameForgotten
    <3> QED BY <1>1, <3>1, <3>3
  <2>3. CASE waited > 0 /\ serverUp
    <3>1. waited' = -1 /\ CompDiscard(waited)
      BY <1>6, <2>3 DEF EndDiscardWaited
    <3>2. Marked(waited, "discarded")
      BY <2>1, <2>3, <3>1, Held, MarkInState DEF Lives, InState, CompDiscard
    <3>3. waited # wframe /\ waited # begun
      BY <2>1, <2>3, Held
      DEF Ids, Lives, FrameInv, Throttle, RoomForOneMore, PastGate
    <3>4. Ids'
      BY <1>2, <2>1 DEF Ids
    <3>5. Lives'
      BY <1>2, <2>1, <2>3, <3>1, <3>2, <3>3, Held
      DEF Lives, NoFrameForgotten, Marked
    <3>6. HandedInOrder'
      BY <1>2, <2>1, <2>3, <3>2, Held DEF Lives, HandedInOrder, Marked
    <3> QED BY <1>1, <3>2, <3>4, <3>5, <3>6 DEF Marked
  <2> QED BY <2>2, <2>3, Held
<1>7. ASSUME begun > 0, serverUp,
             CompDiscard(begun) \/ CompDeliver(begun),
             begun' = -1, UNCHANGED waited,
             mpc' # "assign", mpc # "assign",
             mpc' \in {"endWaited", "endBegun"} =>
                mpc \in {"endWaited", "endBegun"} \/ ~Headless,
             frame_started' = FALSE
               \/ (frame_started' = frame_started /\ mpc' = "begin")
      PROVE  LifeInv' /\ UNCHANGED aborted
  <2>1. PICK next \in {"discarded", "delivered"} : Marked(begun, next)
    BY <1>7, Held, MarkInState DEF Lives, InState, CompDiscard, CompDeliver
  <2>2. begun # wframe /\ begun # waited
    BY <1>7, Held DEF Lives
  <2>3. Ids'
    BY <1>2, <1>7, Held DEF Ids
  <2>4. Lives'
    BY <1>2, <1>7, <2>1, <2>2, Held DEF Lives, NoFrameForgotten, Marked
  <2>5. HandedInOrder'
    BY <1>2, <1>7, <2>1, Held DEF Lives, HandedInOrder, Marked
  <2> QED BY <1>1, <2>1, <2>3, <2>4, <2>5 DEF Marked
<1>8. CASE BeginDiscard
  <2>1. mpc = "discard" /\ serverUp /\ frame_started
    BY <1>8 DEF BeginDiscard, FrameInv, InsideCalls, BeginPlaces
  <2>2. begun > 0
    BY <2>1 DEF Lives
  <2> QED BY <1>7, <1>8, <2>1, <2>2 DEF BeginDiscard
<1>9. CASE EndFrameEmpty \/ EndFrameLayers
  <2>1. /\ mpc = "idle" /\ frame_started
        /\ UNCHANGED <<mpc, waited>>
    BY <1>9 DEF EndFrameEmpty, EndFrameLayers, EndFrameUnchanged
  <2>2. ~Headless
    BY <2>1 DEF Ids
  <2>3. serverUp
    BY <1>9, <2>2 DEF EndFrameEmpty, EndFrameLayers
  <2>4. begun > 0
    BY <2>1, <2>3 DEF Lives
  <2> QED BY <1>7, <1>9, <2>1, <2>2, <2>3, <2>4
          DEF EndFrameEmpty, EndFrameLayers
<1>10. CASE EndDiscardBegun
  <2>1. /\ mpc = "endBegun" /\ mpc' = "endComp"
        /\ UNCHANGED waited /\ frame_started' = FALSE
    BY <1>10 DEF EndDiscardBegun
  <2>2. CASE begun > 0 /\ serverUp
    BY <1>7, <1>10, <2>1, <2>2 DEF EndDiscardBegun
  <2>3. CASE begun <= 0 \/ ~serverUp
    <3>1. /\ UNCHANGED <<life, aborted>>
          /\ begun' \in {begun, -1} /\ begun' <= 0
          /\ serverUp => begun' = begun
      BY <1>10, <2>3, Held DEF EndDiscardBegun
    <3>2. Ids'
      BY <1>2, <2>1, <3>1, Held DEF Ids
    <3>3. Lives'
      BY <1>2, <2>1, <3>1, Held DEF Lives, NoFrameForgotten
    <3>4. HandedInOrder'
      BY <1>2, <3>1 DEF HandedInOrder
    <3> QED BY <1>1, <3>1, <3>2, <3>3, <3>4
  <2> QED BY <2>2, <2>3, Held
<1> QED BY <1>3, <1>4, <1>5, <1>6, <1>8, <1>9, <1>10

\* Off Android every step keeps LifeInv, and only the release after a failed
\* call of the compositor can break an assertion.
LEMMA LifeInvStep ==
  ASSUME Android = FALSE, TypeOK, FrameInv, LifeInv, [Next]_vars
  PROVE  LifeInv' /\ (~aborted /\ aborted' => wpc = "releaseOnError")
<1> DEFINE G == LifeInv' /\ (~aborted /\ aborted' => wpc = "releaseOnError")
<1>1. ASSUME WaitThreadNext PROVE G
  <2>1. aborted' = aborted \/ wpc = "releaseOnError"
    BY <1>1
    DEF WaitThreadNext, WaitFrame, GateStep, GatePass, GateSleep, GateRefused,
        GateSpuriousWakeup, GateUnchanged, Predict, PredictLost, CallLost,
        ReleaseOnError, Record, Waiting
  <2> QED BY <1>1, <2>1, WaitThreadLife
<1>2. ASSUME ServerGone \/ Finished \/ UNCHANGED vars
      PROVE  LifeInv' /\ UNCHANGED aborted
  <2>1. LifeQuiet /\ TurnQuiet /\ UNCHANGED aborted
    BY <1>2
    DEF ServerGone, Finished, vars, NoStateChange, stateVars, envVars,
        waitVars,
        frameVars, syncVars, compVars, LifeQuiet, TurnQuiet
  <2> QED BY <2>1, LifeQuietKeeps, TurnQuietKeeps DEF LifeInv
<1>3. ~\E a \in {"onPause", "onResume"} : Activity(a)
  BY DEF Activity
<1>4. ASSUME MainThreadNext PROVE G
  <2>1. \/ LifeInv' /\ (aborted' => aborted)
        \/ LifeInv' /\ UNCHANGED aborted
    <3> HIDE DEF G
    <3> QED BY <1>4, SessionLife, PollLife, FrameCallsLife DEF MainThreadNext
  <2> QED BY <2>1
<1> QED BY <1>1, <1>2, <1>3, <1>4 DEF Next

(***************************************************************************)
(* Off Android, for every number of frames and every build: the pacer      *)
(* holds the frames whose ids the session keeps, each in the state the     *)
(* next call on it asserts, and it has handed the ids out in order.        *)
(***************************************************************************)
THEOREM FramesAreKnown ==
  ASSUME Android = FALSE
  PROVE  Spec => []LifeInv
<1>1. TypeOK /\ FrameInv /\ LifeInv /\ [Next]_vars => LifeInv'
  BY LifeInvStep
<1> QED BY <1>1, LifeInvInit, TypeCorrect, FrameLoopInvariant, PTL DEF Spec

(***************************************************************************)
(* A frame the pacer counts as open is never forgotten by the session: one *)
(* of its two ids, or the call that returns it, still names it.            *)
(***************************************************************************)
THEOREM NothingForgotten ==
  ASSUME Android = FALSE
  PROVE  Spec => []NoFrameForgotten
<1>1. LifeInv => NoFrameForgotten
  BY DEF LifeInv, Lives, NoFrameForgotten
<1> QED BY <1>1, FramesAreKnown, PTL

(***************************************************************************)
(* No call of the session breaks an assertion of the compositor or of its  *)
(* pacer; the one assertion that can fail is that of the release xrWait-   *)
(* Frame makes after its compositor call failed.                           *)
(***************************************************************************)
THEOREM AssertionsHold ==
  ASSUME Android = FALSE
  PROVE  Spec => OnlyReleaseAborts
<1>1. TypeOK /\ FrameInv /\ LifeInv /\ [Next]_vars
        => [~aborted /\ aborted' => wpc = "releaseOnError"]_vars
  BY LifeInvStep
<1> QED
  BY <1>1, TypeCorrect, FrameLoopInvariant, FramesAreKnown, PTL
  DEF Spec, OnlyReleaseAborts

-----------------------------------------------------------------------------
(* The session implements the abstract frame loop. *)

\* The largest of the ids up to n.
LEMMA MaxOfIds ==
  ASSUME NEW n \in Nat
  PROVE  Max((1 .. n) \union {0}) = n
<1> DEFINE S == (1 .. n) \union {0}
<1>1. n \in S /\ \A y \in S : n >= y
  OBVIOUS
<1>2. PICK x \in S : x = Max(S) /\ \A y \in S : x >= y
  BY <1>1 DEF Max
<1>3. x >= n /\ n >= x /\ x \in Int
  BY <1>1, <1>2
<1> QED BY <1>2, <1>3

\* The latest id handed out, when they were handed out in order.
Used(L) == {f \in Frames : L[f] # "unused"}

\* The newest id the pacer has handed out.
LEMMA LatestId ==
  ASSUME NEW L, NEW n \in 0 .. MaxFrames,
         \A f \in Frames : L[f] # "unused" <=> f <= n
  PROVE  Max(Used(L) \union {0}) = n
<1>1. Used(L) = 1 .. n
  BY ConstantsAssumption DEF Used, Frames
<1> QED BY <1>1, MaxOfIds, ConstantsAssumption

\* The session begins as the frame loop does.
LEMMA LoopInit == Init => Loop!LoopInit
<1> SUFFICES ASSUME Init PROVE Loop!LoopInit
  OBVIOUS
<1>1. Max(Used(life) \union {0}) = 0
  <2>1. \A f \in Frames : life[f] # "unused" <=> f <= 0
    BY ConstantsAssumption DEF Init, Frames
  <2> QED BY <2>1, LatestId, ConstantsAssumption
<1>2. LastReturned = 0
  BY <1>1 DEF LastReturned, HandedOut, Used, Init
<1> QED BY <1>2 DEF Init, IdOrNone, Loop!LoopInit

\* A pacer call hands out no id.
LEMMA MarkHandsOutNone ==
  ASSUME TypeOK, NEW f, CompBegin(f) \/ CompDiscard(f) \/ CompDeliver(f)
  PROVE  Used(life') = Used(life)
<1>1. PICK next \in {"begun", "discarded", "delivered"} :
        \/ UNCHANGED life
        \/ f \in Used(life) /\ life' = [life EXCEPT ![f] = next]
  BY DEF CompBegin, CompDiscard, CompDeliver, Mark, InState, Used
<1> QED BY <1>1, Held DEF Used

\* Only a prediction does.
LEMMA OnlyPredictHandsOut ==
  ASSUME TypeOK, [Next]_vars, ~Predict
  PROVE  Used(life') = Used(life)
<1>1. UNCHANGED life \/ \E f : CompBegin(f) \/ CompDiscard(f) \/ CompDeliver(f)
  <2>1. CASE WaitThreadNext
    BY <2>1
    DEF WaitThreadNext, WaitFrame, GateStep, GatePass, GateSleep, GateRefused,
        GateSpuriousWakeup, GateUnchanged, PredictLost, CallLost,
        ReleaseOnError, Record, compVars
  <2>2. CASE BeginDiscard \/ BeginCompositor \/ EndFrameEmpty \/ EndFrameLayers
             \/ EndDiscardWaited \/ EndDiscardBegun
    BY <2>2
    DEF BeginDiscard, BeginCompositor, EndFrameEmpty, EndFrameLayers,
        EndDiscardWaited, EndDiscardBegun
  <2>3. CASE \/ BeginSession \/ BeginSessionLost \/ EndSession \/ EndCompositor
             \/ EndCompositorLost \/ EndSync \/ DestroySession \/ BeginFrame
             \/ BeginFrameLost \/ BeginAssign \/ BeginRelease
             \/ EndFrameEmptyLost \/ EndFrameLayersLost \/ RequestExit \/ Poll
             \/ PollLost \/ PollDone \/ \E event \in Events : PollEvent(event)
    BY <2>3
    DEF BeginSession, BeginSessionLost, EndSession, EndCompositor,
        EndCompositorLost, EndSync, DestroySession, BeginFrame, BeginFrameLost,
        BeginAssign, BeginRelease, EndFrameEmptyLost, EndFrameLayersLost,
        RequestExit, Poll, PollLost, PollDone, PollEvent, PollUnchanged,
        CallLost, compVars
  <2>4. CASE ServerGone \/ Finished \/ UNCHANGED vars
             \/ \E a \in {"onPause", "onResume"} : Activity(a)
    BY <2>4 DEF ServerGone, Finished, Activity, vars, compVars
  <2> QED BY <2>1, <2>2, <2>3, <2>4 DEF Next, MainThreadNext
<1> QED BY <1>1, MarkHandsOutNone

\* Every step of the session is a step of the frame loop, or none of it.
LEMMA LoopStep ==
  ASSUME TypeOK, FrameInv, LifeInv, [Next]_vars
  PROVE  [Loop!LoopNext]_(Loop!loopVars)
<1>0. PICK n \in 0 .. MaxFrames :
        /\ \A f \in Frames : life[f] # "unused" <=> f <= n
        /\ wpc = "record" => wframe = n
  BY DEF LifeInv, HandedInOrder
<1> USE DEF LastReturned, Loop!loopVars, Loop!LoopNext, IdOrNone
<1> DEFINE H == Max(HandedOut \union {0})
<1>1. H = n /\ n \in Int
  BY <1>0, LatestId DEF HandedOut, Used
<1> HIDE DEF H
<1>2. CASE Predict
  <2>1. PICK m \in 0 .. MaxFrames :
          /\ \A f \in Frames : life'[f] # "unused" <=> f <= m
          /\ wpc' = "record" => wframe' = m
    BY <1>2, WaitThreadLife DEF WaitThreadNext, LifeInv, HandedInOrder
  <2>2. H' = m
    BY <2>1, LatestId DEF H, HandedOut, Used
  <2>3. m \in Frames /\ life[m] = "unused" /\ wpc' = "record"
          /\ wpc = "predict"
        /\ \A g \in 1 .. m - 1 : life[g] # "unused"
    BY <1>2, <2>1 DEF Predict, Waiting
  <2>4. m = n + 1
    <3>1. m \in 1 .. MaxFrames /\ ~(m <= n)
      BY <1>0, <2>3 DEF Frames
    <3>2. m > 1 => m - 1 \in Frames /\ m - 1 \in 1 .. m - 1
      BY <3>1, ConstantsAssumption DEF Frames
    <3>3. m > 1 => m - 1 <= n
      BY <1>0, <2>3, <3>2
    <3> QED BY <3>1, <3>3, ConstantsAssumption
  <2>5. LastReturned' = LastReturned
    BY <1>1, <2>2, <2>3, <2>4 DEF H
  <2>6. UNCHANGED <<waited, begun>>
    BY <1>2 DEF Predict, frameVars
  <2> QED BY <2>5, <2>6
<1>3. ASSUME ~Predict PROVE H' = H
  BY <1>3, OnlyPredictHandsOut DEF H, HandedOut, Used
<1>4. CASE Record
  <2>1. /\ wpc = "record" /\ wpc' = "idle"
        /\ waited' = wframe
        /\ UNCHANGED begun
        /\ ~Predict
    BY <1>4 DEF Record, Predict, Waiting
  <2>2. wframe = n /\ n > 0 /\ waited <= 0
    BY <1>0, <2>1, Held
    DEF LifeInv, Ids, FrameInv, Throttle, RoomForOneMore, PastGate
  <2>3. LastReturned = n - 1 /\ LastReturned' = n
    BY <1>1, <1>3, <2>1 DEF H
  <2> QED BY <1>1, <2>1, <2>2, <2>3, Held, ConstantsAssumption
          DEF Loop!WaitReturns
<1>5. ASSUME ~Predict, ~Record PROVE LastReturned' = LastReturned
  <2>1. wpc' = "record" <=> wpc = "record"
    BY <1>5
    DEF Next, WaitThreadNext, WaitFrame, GateStep, GatePass, GateSleep,
        GateRefused,
        GateSpuriousWakeup, GateUnchanged, PredictLost, CallLost,
        ReleaseOnError, Waiting, MainThreadNext, BeginSession,
        BeginSessionLost,
        EndSession, EndCompositor, EndDiscardWaited, EndDiscardBegun,
        EndCompositorLost, EndSync, DestroySession, BeginFrame, BeginFrameLost,
        BeginDiscard, BeginCompositor,
        BeginAssign, BeginRelease, EndFrameEmpty, EndFrameLayers,
        EndFrameUnchanged,
        EndFrameEmptyLost, EndFrameLayersLost,
        RequestExit, Poll, PollLost, PollDone, PollEvent, PollUnchanged,
        ServerGone, Activity, Finished, vars, waitVars
  <2> QED BY <1>3, <1>5, <2>1 DEF H
<1>6. CASE BeginAssign
  <2>1. waited > 0 /\ begun <= 0 /\ waited' = -1 /\ begun' = waited
    BY <1>6 DEF BeginAssign, Main, LifeInv, Ids, FrameInv, InsideCalls
  <2>2. ~Predict /\ ~Record
    BY <1>6 DEF BeginAssign, Predict, Record, waitVars, Waiting
  <2> QED BY <1>5, <2>1, <2>2, Held DEF Loop!Begin
<1>7. CASE EndDiscardWaited
  <2>1. waited' \in {waited, -1} /\ begun' = begun
    BY <1>7 DEF EndDiscardWaited
  <2>2. ~Predict /\ ~Record
    BY <1>7 DEF EndDiscardWaited, Predict, Record, waitVars, Waiting
  <2> QED BY <1>5, <2>1, <2>2, Held DEF Loop!DiscardWaited
<1>8. CASE BeginDiscard \/ EndDiscardBegun \/ EndFrameEmpty \/ EndFrameLayers
  <2>1. begun' \in {begun, -1} /\ waited' = waited
    BY <1>8
    DEF BeginDiscard, EndDiscardBegun, EndFrameEmpty, EndFrameLayers,
        EndFrameUnchanged
  <2>2. ~Predict /\ ~Record
    BY <1>8
    DEF BeginDiscard, EndDiscardBegun, EndFrameEmpty, EndFrameLayers,
        EndFrameUnchanged, Predict, Record, waitVars, Waiting
  <2> QED BY <1>5, <2>1, <2>2, Held DEF Loop!EndOrDiscard
<1>9. ASSUME ~Predict, ~Record, ~BeginAssign, ~EndDiscardWaited,
             ~(BeginDiscard \/ EndDiscardBegun \/ EndFrameEmpty
               \/ EndFrameLayers)
      PROVE  UNCHANGED <<waited, begun>>
  BY <1>9
  DEF Next, WaitThreadNext, WaitFrame, GateStep, GatePass, GateSleep,
      GateRefused, GateSpuriousWakeup, GateUnchanged, PredictLost, CallLost,
      ReleaseOnError, MainThreadNext, BeginSession, BeginSessionLost,
      EndSession, EndCompositor, EndCompositorLost, EndSync, DestroySession,
      BeginFrame, BeginFrameLost, BeginCompositor, BeginRelease,
      EndFrameEmptyLost, EndFrameLayersLost, RequestExit, Poll, PollLost,
      PollDone, PollEvent, PollUnchanged, ServerGone, Activity, Finished, vars,
      frameVars
<1> QED BY <1>2, <1>4, <1>5, <1>6, <1>7, <1>8, <1>9

(***************************************************************************)
(* Off Android, the session implements the abstract frame loop: frames are *)
(* returned in order, begun once and only after they were waited for, and  *)
(* none is replaced silently, whatever the two threads of the application, *)
(* the events and the server do.                                           *)
(***************************************************************************)
THEOREM RefinesFrameLoop ==
  ASSUME Android = FALSE
  PROVE  Spec => ImplementsFrameLoop
<1>1. TypeOK /\ FrameInv /\ LifeInv /\ [Next]_vars
        => [Loop!LoopNext]_(Loop!loopVars)
  BY LoopStep
<1> QED
  BY <1>1, LoopInit, TypeCorrect, FrameLoopInvariant, FramesAreKnown, PTL
  DEF Spec, ImplementsFrameLoop, Loop!LoopSpec

-----------------------------------------------------------------------------
(* The order of the session states the application is told of, in a session *)
(* with graphics that is sent the events the repository sends.              *)

\* The first frame or a faked synchronization happened before any of these.
Entered == {"SYNCHRONIZED", "VISIBLE", "FOCUSED", "STOPPING"}

OrderInv ==
  /\ state # "LOSS_PENDING"
  /\ mpc # "endSync" => (has_ended_once <=> state \in Entered)
  /\ mpc = "endSync" => state \notin Entered
  /\ mpc \in {"endWaited", "endBegun", "endComp"} => state = "STOPPING"
  /\ running /\ mpc # "endSync" => state \notin {"IDLE", "EXITING"}

\* Paths of at most three states.
LEMMA PathSteps ==
  ASSUME NEW s
  PROVE  /\ StepsAllowed(s, <<>>)
         /\ \A a : a \in Successors(s) => StepsAllowed(s, <<a>>)
         /\ \A a, b : a \in Successors(s) /\ b \in Successors(a)
                        => StepsAllowed(s, <<a, b>>)
         /\ \A a, b, c : a \in Successors(s) /\ b \in Successors(a)
                           /\ c \in Successors(b)
                        => StepsAllowed(s, <<a, b, c>>)
BY DEF StepsAllowed

\* A step that tells the application nothing.
Silent ==
  /\ events' = <<>>
  /\ UNCHANGED <<state, has_ended_once>>
  /\ running' => running
  /\ mpc' = "endSync" <=> mpc = "endSync"
  /\ mpc' \in {"endWaited", "endBegun", "endComp"} =>
       state = "STOPPING" \/ mpc \in {"endWaited", "endBegun", "endComp"}

\* A step that announces no state keeps the order.
LEMMA SilentKeeps ==
  ASSUME OrderInv, Silent
  PROVE  OrderInv' /\ StepsAllowed(state, events')
BY PathSteps DEF OrderInv, Silent

\* The steps that announce none.
LEMMA SilentSteps ==
  ASSUME \/ WaitThreadNext \/ ServerGone
         \/ \E a \in {"onPause", "onResume"} : Activity(a)
         \/ BeginSessionLost \/ EndSession \/ EndDiscardWaited
         \/ EndDiscardBegun \/ EndCompositorLost \/ BeginFrame \/ BeginDiscard
         \/ BeginCompositor \/ BeginFrameLost \/ BeginAssign \/ BeginRelease
         \/ EndFrameEmptyLost \/ PollLost \/ DestroySession
  PROVE  Silent
<1> USE DEF Silent, NoStateChange, stateVars, syncVars, Main
<1>1. CASE WaitThreadNext
  BY <1>1
  DEF WaitThreadNext, WaitFrame, GateStep, GatePass, GateSleep, GateRefused,
      GateSpuriousWakeup, GateUnchanged, Predict, PredictLost, CallLost,
      ReleaseOnError, Record, FS!WaitCall, FS!WaitPass, FS!WaitSleep,
      FS!WaitRefused, FS!SpuriousWakeup, FS!Release
<1>2. CASE ServerGone \/ \E a \in {"onPause", "onResume"} : Activity(a)
  BY <1>2 DEF ServerGone, Activity
<1>3. CASE \/ BeginSessionLost \/ EndSession \/ EndDiscardWaited
           \/ EndDiscardBegun \/ EndCompositorLost \/ BeginFrame
           \/ BeginDiscard \/ BeginCompositor \/ BeginFrameLost \/ BeginAssign
           \/ BeginRelease \/ EndFrameEmptyLost \/ PollLost \/ DestroySession
  BY <1>3
  DEF BeginSessionLost, EndSession, EndDiscardWaited, EndDiscardBegun,
      EndCompositorLost, BeginFrame, BeginDiscard, BeginCompositor,
      BeginFrameLost, BeginAssign, BeginRelease, EndFrameEmptyLost, PollLost,
      DestroySession, FS!Release, FS!Fini
<1> QED BY <1>1, <1>2, <1>3

\* The first xrEndFrame announces SYNCHRONIZED once.
LEMMA SynchronizeOrder ==
  ASSUME has_ended_once \in BOOLEAN, OrderInv, running, mpc = "idle",
         DoSynchronize, UNCHANGED mpc
  PROVE  OrderInv' /\ StepsAllowed(state, events')
<1>1. CASE ~has_ended_once /\ state \in {"IDLE", "READY", "SYNCHRONIZED"}
  <2>1. state = "READY"
    BY <1>1 DEF OrderInv, Entered
  <2>2. /\ events' = <<"SYNCHRONIZED">>
        /\ state' = "SYNCHRONIZED"
        /\ has_ended_once'
    BY <1>1, <2>1, LastOfPath DEF DoSynchronize, ChangeStates
  <2>3. "SYNCHRONIZED" \in Successors(state)
    BY <2>1 DEF Successors
  <2>4. OrderInv'
    BY <2>2 DEF OrderInv, Entered
  <2> QED BY <2>2, <2>3, <2>4, PathSteps
<1>2. CASE ~(~has_ended_once /\ state \in {"IDLE", "READY", "SYNCHRONIZED"})
  <2>1. events' = <<>> /\ UNCHANGED state /\ has_ended_once' = has_ended_once
    BY <1>2 DEF DoSynchronize, ChangeStates
  <2> QED BY <2>1, PathSteps DEF OrderInv
<1> QED BY <1>1, <1>2

\* xrRequestExitSession announces what leads to STOPPING.
LEMMA RequestExitOrder ==
  ASSUME has_ended_once \in BOOLEAN, OrderInv, state \in SessionStates,
         running, mpc = "idle",
         DoRequestExit, UNCHANGED mpc
  PROVE  OrderInv' /\ StepsAllowed(state, events')
<1>1. state \in {"READY", "SYNCHRONIZED", "VISIBLE", "FOCUSED", "STOPPING"}
  BY DEF OrderInv, SessionStates
<1>2. has_ended_once <=> state # "READY"
  BY <1>1 DEF OrderInv, Entered
<1>3. events' = ExitPath /\ state' = "STOPPING"
  BY RequestExitStops DEF DoRequestExit, ChangeStates
<1>4. has_ended_once'
  BY <1>2 DEF DoRequestExit
<1>5. OrderInv'
  BY <1>3, <1>4 DEF OrderInv, Entered
<1>6. StepsAllowed(state, ExitPath)
  BY <1>1, <1>2, PathSteps DEF ExitPath, Successors
<1> QED BY <1>3, <1>5, <1>6

\* xrPollEvent announces what the visibility of the session asks for.
LEMMA PollOrder ==
  ASSUME has_ended_once \in BOOLEAN, OrderInv, mpc # "endSync",
         mpc' \in {"idle", "poll"},
         running' = running, has_ended_once' = has_ended_once,
         NEW path \in {PausePath, VisibilityPath, <<>>}, ChangeStates(path)
  PROVE  OrderInv' /\ StepsAllowed(state, events')
<1>1. StepsAllowed(state, path)
  BY PathSteps DEF PausePath, VisibilityPath, Successors
<1>2. UNCHANGED state \/ {state, state'} \subseteq Entered
  <2>1. path \in {<<>>, <<"STOPPING">>, <<"FOCUSED">>, <<"SYNCHRONIZED">>,
                  <<"SYNCHRONIZED", "STOPPING">>, <<"VISIBLE", "FOCUSED">>,
                  <<"VISIBLE", "SYNCHRONIZED">>,
                  <<"VISIBLE", "SYNCHRONIZED", "STOPPING">>}
    BY DEF PausePath, VisibilityPath
  <2>2. path # <<>> => state \in Entered
    BY DEF PausePath, VisibilityPath, Entered
  <2> QED BY <2>1, <2>2, LastOfPath DEF ChangeStates, Entered
<1>3. OrderInv'
  BY <1>2 DEF OrderInv, Entered
<1> QED BY <1>1, <1>3 DEF ChangeStates

\* Every step announces states in an order that is allowed.
LEMMA StateOrderStep ==
  ASSUME ~Headless, Events \subseteq {"show", "hide"},
         TypeOK, OrderInv, Next
  PROVE  OrderInv' /\ (StepsAllowed(state, events') \/ UNCHANGED vars)
<1> DEFINE G == OrderInv' /\ (StepsAllowed(state, events') \/ UNCHANGED vars)
<1>0. has_ended_once \in BOOLEAN /\ state \in SessionStates
  BY DEF TypeOK
<1> USE DEF Main
<1>1. CASE BeginSession
  <2>1. /\ events' = <<>> /\ UNCHANGED <<state, has_ended_once, mpc>>
        /\ state = "READY" /\ mpc = "idle"
    BY <1>1 DEF BeginSession
  <2> QED BY <2>1, PathSteps DEF OrderInv
<1>2. CASE EndCompositor
  <2>1. /\ state = "STOPPING" /\ mpc' = "endSync"
        /\ ChangeStates(IF exiting THEN <<"IDLE", "EXITING">>
                        ELSE IF Android THEN <<"IDLE">>
                          ELSE <<"IDLE", "READY">>)
    BY <1>2 DEF EndCompositor, OrderInv
  <2>2. state' \in {"IDLE", "READY", "EXITING"}
    BY <2>1, LastOfPath DEF ChangeStates
  <2>3. OrderInv'
    BY <2>1, <2>2 DEF OrderInv, Entered
  <2>4. StepsAllowed(state, events')
    BY <2>1, PathSteps DEF ChangeStates, Successors
  <2> QED BY <2>3, <2>4
<1>3. CASE EndSync
  <2>1. /\ events' = <<>> /\ UNCHANGED state /\ ~running'
        /\ mpc = "endSync" /\ mpc' = "idle" /\ ~has_ended_once'
    BY <1>3 DEF EndSync, FS!EndSession
  <2> QED BY <2>1, PathSteps DEF OrderInv
<1>4. CASE EndFrameEmpty \/ EndFrameLayers \/ EndFrameLayersLost
  BY <1>0, <1>4, SynchronizeOrder
  DEF EndFrameEmpty, EndFrameLayers, EndFrameUnchanged, EndFrameLayersLost,
      ApiAllowed
<1>5. CASE RequestExit
  BY <1>0, <1>5, RequestExitOrder DEF RequestExit, ApiAllowed
<1>6. CASE Poll
  <2>1. /\ mpc = "idle" /\ mpc' = "poll"
        /\ UNCHANGED <<running, has_ended_once>>
    BY <1>6 DEF Poll, PollUnchanged, syncVars
  <2>2. CASE state = "IDLE" /\ ChangeStates(<<"READY">>)
    <3>1. events' = <<"READY">> /\ state' = "READY"
      BY <2>2, LastOfPath DEF ChangeStates
    <3>2. OrderInv'
      BY <2>1, <2>2, <3>1 DEF OrderInv, Entered
    <3>3. "READY" \in Successors(state)
      BY <2>2 DEF Successors
    <3> QED BY <3>1, <3>2, <3>3, PathSteps
  <2>3. CASE ChangeStates(PausePath) \/ ChangeStates(<<>>)
    BY <1>0, <2>1, <2>3, PollOrder
  <2> QED BY <1>6, <2>2, <2>3 DEF Poll
<1>7. CASE PollDone
  <2>1. /\ mpc = "poll" /\ mpc' = "idle"
        /\ UNCHANGED <<running, has_ended_once>>
        /\ ChangeStates(VisibilityPath)
    BY <1>7 DEF PollDone, PollUnchanged, syncVars
  <2> QED BY <1>0, <2>1, PollOrder
<1>8. ASSUME NEW event \in Events, PollEvent(event) PROVE G
  <2>1. Silent
    BY <1>8 DEF PollEvent, PollUnchanged, syncVars, Silent
  <2> QED BY <2>1, SilentKeeps
<1>9. CASE Finished
  BY <1>9 DEF Finished, vars, stateVars, syncVars, OrderInv
<1>10. ASSUME MainThreadNext PROVE G
  BY <1>1, <1>2, <1>3, <1>4, <1>5, <1>6, <1>7, <1>8, <1>10, SilentSteps,
     SilentKeeps
  DEF MainThreadNext
<1> QED BY <1>9, <1>10, SilentSteps, SilentKeeps DEF Next

(***************************************************************************)
(* On Android and off it, in a session with graphics that is sent the      *)
(* events of the multi compositor, every state the application is told of  *)
(* is one OpenXR allows after the state before it.  (A headless session    *)
(* asked to exit twice is told SYNCHRONIZED after STOPPING: request_exit   *)
(* takes its has_ended_once for "no frame yet".)                           *)
(***************************************************************************)
THEOREM StatesInOrder ==
  ASSUME ~Headless, Events \subseteq {"show", "hide"}
  PROVE  Spec => StateOrder
<1>1. Init => OrderInv
  BY DEF Init, OrderInv, Entered, FS!FSInit
<1>2. TypeOK /\ OrderInv /\ [Next]_vars => OrderInv'
  <2>1. OrderInv /\ UNCHANGED vars => OrderInv'
    BY DEF OrderInv, vars, stateVars, syncVars
  <2> QED BY <2>1, StateOrderStep
<1>3. TypeOK /\ OrderInv /\ [Next]_vars
        => [events' # <<>> => StepsAllowed(state, events')]_vars
  BY StateOrderStep
<1> QED BY <1>1, <1>2, <1>3, TypeCorrect, PTL DEF Spec, StateOrder

=============================================================================
