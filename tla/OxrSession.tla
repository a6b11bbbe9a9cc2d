----------------------------- MODULE OxrSession -----------------------------
(***************************************************************************)
(* One OpenXR session of the Monado state tracker                          *)
(* (src/monado/src/xrt/state_trackers/oxr): its XrSessionState machine and *)
(* its frame loop.                                                         *)
(*                                                                         *)
(* Two application threads run concurrently: the wait thread calls         *)
(* xrWaitFrame, the main thread makes every other call.  A call is split   *)
(* where the other thread can observe or disturb it, so `mpc' and `wpc'    *)
(* say how far each thread is inside its call.  The compositor below the   *)
(* session is represented by `life', the state its pacer keeps of every    *)
(* frame, and by `session_active'.  It may live in another process that    *)
(* goes away (`serverUp').                                                 *)
(***************************************************************************)
EXTENDS Integers, Sequences, FiniteSetsExt, SequencesExt

CONSTANTS
  Headless,      \* sess->compositor == NULL
  Android,       \* built with XRT_OS_ANDROID
  OutOfProcess,  \* the compositor is reached over IPC and may go away
  Events,        \* kinds of xrt_session_event that may be queued
  MaxFrames      \* bound: frame ids the compositor hands out

ASSUME ConstantsAssumption ==
  /\ Headless \in BOOLEAN
  /\ Android \in BOOLEAN
  /\ OutOfProcess \in BOOLEAN
  /\ Events \subseteq {"show", "hide", "requestExit", "lossPending", "lost"}
  /\ MaxFrames \in Nat

VARIABLES
  \* oxr_frame_sync
  running, canWaitFrameReturn, waiter,
  \* oxr_session
  state,               \* XrSessionState the application was told last
  exiting,
  has_ended_once,
  has_lost,
  visible,             \* compositor_visible and compositor_focused
  frame_started,
  active_wait_frames,
  waited,              \* frame_id.waited
  begun,               \* frame_id.begun
  events,              \* the state changes the last step queued for the app
  \* threads
  mpc,                 \* main thread: "idle" or the next step of its call
  wpc,                 \* wait thread: "idle" or the next step of xrWaitFrame
  wframe,              \* local variable frame_id of oxr_session_frame_wait
  \* compositor and environment
  life,                \* life[f]: what the pacer knows of frame f
  session_active,      \* multi_compositor::state.session_active
  serverUp,
  aborted,             \* an assert() of the runtime failed
  activity             \* last Android activity lifecycle event

syncVars == <<running, canWaitFrameReturn, waiter>>
stateVars == <<state, exiting, has_ended_once, visible>>
frameVars == <<frame_started, active_wait_frames, waited, begun>>
waitVars == <<wpc, wframe>>
compVars == <<life, session_active>>
envVars == <<serverUp, activity>>
vars == <<syncVars, stateVars, has_lost, frameVars, events, mpc, waitVars,
          compVars, envVars, aborted>>

WaitThread == "waitThread"
FS == INSTANCE FrameSync WITH Waiters <- {WaitThread}

Frames == 1 .. MaxFrames

SessionStates ==
  {"IDLE", "READY", "SYNCHRONIZED", "VISIBLE", "FOCUSED", "STOPPING",
   "LOSS_PENDING", "EXITING"}

LifeStates == {"unused", "woken", "begun", "delivered", "discarded"}

MainPlaces ==
  {"idle", "poll", "discard", "begin", "assign", "release",
   "endWaited", "endBegun", "endComp", "endSync", "destroyed"}

WaitPlaces == {"idle", "gate", "predict", "record", "releaseOnError"}

TypeOK ==
  /\ FS!FSTypeOK
  /\ state \in SessionStates
  /\ {exiting, has_ended_once, has_lost, visible, frame_started} \subseteq BOOLEAN
  /\ active_wait_frames \in Int
  /\ waited \in Frames \union {-1, 0}
  /\ begun \in Frames \union {-1, 0}
  /\ events \in Seq(SessionStates)
  /\ mpc \in MainPlaces
  /\ wpc \in WaitPlaces
  /\ wframe \in Frames \union {-1}
  /\ life \in [Frames -> LifeStates]
  /\ {session_active, serverUp, aborted} \subseteq BOOLEAN
  /\ activity \in {"none", "onPause", "onResume"}

\* oxr_session_create: the state goes UNKNOWN, IDLE, READY.
Init ==
  /\ FS!FSInit
  /\ state = "READY"
  /\ exiting = FALSE
  /\ has_ended_once = FALSE
  /\ has_lost = FALSE
  /\ visible = FALSE
  /\ frame_started = FALSE
  /\ active_wait_frames = 0
  /\ waited = 0
  /\ begun = 0
  /\ events = <<"IDLE", "READY">>
  /\ mpc = "idle"
  /\ wpc = "idle"
  /\ wframe = -1
  /\ life = [f \in Frames |-> "unused"]
  /\ session_active = FALSE
  /\ serverUp = TRUE
  /\ aborted = FALSE
  /\ activity = "none"

-----------------------------------------------------------------------------
(* State changes and the events they queue. *)

\* oxr_session_change_state for each element of path, none equal to the
\* state before it.
ChangeStates(path) ==
  /\ events' = path
  /\ state' = IF path = <<>> THEN state ELSE Last(path)

NoStateChange == events' = <<>> /\ UNCHANGED stateVars

\* oxr_session_request_exit
ExitPath ==
  CASE state = "FOCUSED" -> <<"VISIBLE", "SYNCHRONIZED", "STOPPING">>
    [] state = "VISIBLE" -> <<"SYNCHRONIZED", "STOPPING">>
    [] state = "SYNCHRONIZED" -> <<"STOPPING">>
    [] OTHER ->
         IF ~has_ended_once THEN <<"SYNCHRONIZED", "STOPPING">>
         ELSE IF state = "STOPPING" THEN <<>>
         ELSE <<"STOPPING">>

DoRequestExit ==
  /\ ChangeStates(ExitPath)
  /\ has_ended_once' =
       (has_ended_once \/ state \notin {"FOCUSED", "VISIBLE", "SYNCHRONIZED"})
  /\ exiting' = TRUE
  /\ UNCHANGED visible

\* do_synchronize_state_change: the first xrEndFrame.
DoSynchronize ==
  LET first == ~has_ended_once /\ state \in {"IDLE", "READY", "SYNCHRONIZED"}
  IN /\ ChangeStates(IF first /\ state # "SYNCHRONIZED"
                     THEN <<"SYNCHRONIZED">> ELSE <<>>)
     /\ has_ended_once' = (has_ended_once \/ first)
     /\ UNCHANGED <<exiting, visible>>

-----------------------------------------------------------------------------
(* The compositor's side of a frame: comp_multi_compositor.c forwards every *)
(* call to the application pacer, u_pacing_app.c, whose assertions on the   *)
(* state of the frame abort the process that runs the compositor.           *)

InState(f, S) == f \in Frames /\ life[f] \in S

Mark(f, S, next) ==
  IF InState(f, S)
  THEN life' = [life EXCEPT ![f] = next] /\ UNCHANGED aborted
  ELSE aborted' = TRUE /\ UNCHANGED life

CompBegin(f) == Mark(f, {"woken"}, "begun")
CompDiscard(f) == Mark(f, {"woken", "begun"}, "discarded")
CompDeliver(f) == Mark(f, {"begun"}, "delivered")

\* A call that fails because the server is gone: OXR_CHECK_XRET.
CallLost ==
  /\ ~serverUp
  /\ has_lost' = TRUE
  /\ UNCHANGED <<compVars, aborted>>

Main(place) == ~aborted /\ mpc = place
Waiting(place) == ~aborted /\ wpc = place

\* Mutant of ApiAllowed: OXR_VERIFY_SESSION_RUNNING is forgotten.
ApiAllowedNotRunning == ~has_lost

\* OXR_VERIFY_SESSION_NOT_LOST and OXR_VERIFY_SESSION_RUNNING
ApiAllowed == ~has_lost /\ running

-----------------------------------------------------------------------------
(* xrBeginSession *)

BeginSession ==
  /\ Main("idle")
  /\ ~has_lost
  /\ state = "READY"
  /\ \/ Headless \/ serverUp
  /\ FS!BeginSession
  /\ IF Headless
     THEN /\ visible' = TRUE
          /\ ChangeStates(<<"SYNCHRONIZED", "VISIBLE", "FOCUSED">>)
          /\ UNCHANGED <<session_active, aborted>>
     ELSE /\ session_active' = TRUE
          /\ aborted' = session_active
          /\ events' = <<>>
          /\ UNCHANGED <<state, visible>>
  /\ UNCHANGED <<exiting, has_ended_once, has_lost, frameVars, mpc, waitVars,
                 life, envVars>>

BeginSessionLost ==
  /\ Main("idle")
  /\ ~has_lost
  /\ ~running
  /\ state = "READY"
  /\ ~Headless
  /\ CallLost
  /\ NoStateChange
  /\ UNCHANGED <<syncVars, frameVars, mpc, waitVars, envVars>>

-----------------------------------------------------------------------------
(* xrEndSession: the frames the session still holds are discarded, the      *)
(* compositor session is ended, and last the frame throttle.                *)

EndSession ==
  /\ Main("idle")
  /\ ApiAllowed
  /\ state = "STOPPING"
  /\ mpc' = IF Headless THEN "endComp" ELSE "endWaited"
  /\ NoStateChange
  /\ UNCHANGED <<syncVars, has_lost, frameVars, waitVars, compVars, envVars,
                 aborted>>

\* The results of both xrt_comp_discard_frame calls are ignored.
EndDiscardWaited ==
  /\ Main("endWaited")
  /\ mpc' = "endBegun"
  /\ IF waited > 0
     THEN /\ waited' = -1
          /\ IF serverUp THEN CompDiscard(waited)
                         ELSE UNCHANGED <<life, aborted>>
     ELSE UNCHANGED <<waited, life, aborted>>
  /\ NoStateChange
  /\ UNCHANGED <<syncVars, has_lost, frame_started, active_wait_frames, begun,
                 waitVars, session_active, envVars>>

\* Mutant of EndDiscardBegun: the begun frame is dropped, not discarded.
EndDropBegun ==
  /\ Main("endBegun")
  /\ mpc' = "endComp"
  /\ frame_started' = FALSE
  /\ begun' = -1
  /\ NoStateChange
  /\ UNCHANGED <<syncVars, has_lost, active_wait_frames, waited, waitVars,
                 compVars, envVars, aborted>>

EndDiscardBegun ==
  /\ Main("endBegun")
  /\ mpc' = "endComp"
  /\ frame_started' = FALSE
  /\ IF begun > 0
     THEN /\ begun' = -1
          /\ IF serverUp THEN CompDiscard(begun)
                         ELSE UNCHANGED <<life, aborted>>
     ELSE UNCHANGED <<begun, life, aborted>>
  /\ NoStateChange
  /\ UNCHANGED <<syncVars, has_lost, active_wait_frames, waited, waitVars,
                 session_active, envVars>>

EndCompositor ==
  /\ Main("endComp")
  /\ \/ Headless \/ serverUp
  /\ mpc' = "endSync"
  /\ ChangeStates(IF exiting THEN <<"IDLE", "EXITING">>
                  ELSE IF Android THEN <<"IDLE">> ELSE <<"IDLE", "READY">>)
  /\ IF Headless
     THEN visible' = FALSE /\ UNCHANGED <<session_active, aborted>>
     ELSE /\ session_active' = FALSE
          /\ aborted' = ~session_active
          /\ UNCHANGED visible
  /\ UNCHANGED <<syncVars, exiting, has_ended_once, has_lost, frameVars,
                 waitVars, life, envVars>>

EndCompositorLost ==
  /\ Main("endComp")
  /\ ~Headless
  /\ CallLost
  /\ mpc' = "idle"
  /\ NoStateChange
  /\ UNCHANGED <<syncVars, frameVars, waitVars, envVars>>

EndSync ==
  /\ Main("endSync")
  /\ FS!EndSession
  /\ mpc' = "idle"
  /\ has_ended_once' = FALSE
  /\ events' = <<>>
  /\ UNCHANGED <<state, exiting, visible, has_lost, frameVars, waitVars,
                 compVars, envVars, aborted>>

-----------------------------------------------------------------------------
(* xrWaitFrame, on the wait thread.  In a headless session the call returns *)
(* at once and changes nothing.                                             *)

WaitFrame ==
  /\ Waiting("idle")
  /\ mpc # "destroyed"
  /\ ApiAllowed
  /\ ~Headless
  /\ wpc' = "gate"
  /\ FS!WaitCall(WaitThread)
  /\ NoStateChange
  /\ UNCHANGED <<has_lost, frameVars, mpc, wframe, compVars, envVars, aborted>>

GateUnchanged ==
  /\ NoStateChange
  /\ UNCHANGED <<has_lost, frameVars, mpc, wframe, compVars, envVars, aborted>>

GatePass ==
  /\ Waiting("gate")
  /\ FS!WaitPass(WaitThread)
  /\ wpc' = "predict"
  /\ GateUnchanged

GateSleep ==
  /\ Waiting("gate")
  /\ FS!WaitSleep(WaitThread)
  /\ GateUnchanged
  /\ UNCHANGED wpc

GateRefused ==
  /\ Waiting("gate")
  /\ FS!WaitRefused(WaitThread)
  /\ wpc' = "idle"
  /\ GateUnchanged

GateSpuriousWakeup ==
  /\ Waiting("gate")
  /\ FS!SpuriousWakeup(WaitThread)
  /\ GateUnchanged
  /\ UNCHANGED wpc

\* do_wait_frame_and_checks: the compositor predicts the next frame, sleeps
\* until its wake up time and returns its id; ids are handed out in order.
Predict ==
  /\ Waiting("predict")
  /\ serverUp
  /\ \E f \in Frames :
       /\ life[f] = "unused"
       /\ \A g \in 1 .. f - 1 : life[g] # "unused"
       /\ life' = [life EXCEPT ![f] = "woken"]
       /\ wframe' = f
  /\ wpc' = "record"
  /\ NoStateChange
  /\ UNCHANGED <<syncVars, has_lost, frameVars, mpc, session_active, envVars,
                 aborted>>

PredictLost ==
  /\ Waiting("predict")
  /\ CallLost
  /\ wpc' = "releaseOnError"
  /\ NoStateChange
  /\ UNCHANGED <<syncVars, frameVars, mpc, wframe, envVars>>

\* assert(release_ret == XR_SUCCESS)
ReleaseOnError ==
  /\ Waiting("releaseOnError")
  /\ wpc' = "idle"
  /\ \/ FS!Release /\ UNCHANGED aborted
     \/ FS!ReleaseRefused /\ aborted' = TRUE /\ UNCHANGED syncVars
  /\ NoStateChange
  /\ UNCHANGED <<has_lost, frameVars, mpc, wframe, compVars, envVars>>

\* Under active_wait_frames_lock.
Record ==
  /\ Waiting("record")
  /\ active_wait_frames' = active_wait_frames + 1
  /\ waited' = wframe
  /\ wframe' = -1
  /\ wpc' = "idle"
  /\ NoStateChange
  /\ UNCHANGED <<syncVars, has_lost, frame_started, begun, mpc, compVars,
                 envVars, aborted>>

-----------------------------------------------------------------------------
(* xrBeginFrame *)

\* A second xrBeginFrame needs a second xrWaitFrame in flight.
BeginFrame ==
  /\ Main("idle")
  /\ ApiAllowed
  /\ active_wait_frames # 0
  /\ frame_started => active_wait_frames = 2
  /\ frame_started' = TRUE
  /\ mpc' = IF Headless THEN "release"
            ELSE IF frame_started THEN "discard" ELSE "begin"
  /\ NoStateChange
  /\ UNCHANGED <<syncVars, has_lost, active_wait_frames, waited, begun,
                 waitVars, compVars, envVars, aborted>>

\* Mutant of BeginDiscard: the discarded frame stays in the count.
BeginDiscardUncounted ==
  /\ Main("discard")
  /\ serverUp
  /\ CompDiscard(begun)
  /\ begun' = -1
  /\ mpc' = "begin"
  /\ NoStateChange
  /\ UNCHANGED <<syncVars, has_lost, frame_started, active_wait_frames, waited,
                 waitVars, session_active, envVars>>

BeginDiscard ==
  /\ Main("discard")
  /\ serverUp
  /\ CompDiscard(begun)
  /\ begun' = -1
  /\ active_wait_frames' = active_wait_frames - 1
  /\ mpc' = "begin"
  /\ NoStateChange
  /\ UNCHANGED <<syncVars, has_lost, frame_started, waited, waitVars,
                 session_active, envVars>>

\* Mutant of BeginCompositor: the ids are not moved on.
BeginCompositorOnly ==
  /\ Main("begin")
  /\ serverUp
  /\ CompBegin(waited)
  /\ mpc' = "release"
  /\ NoStateChange
  /\ UNCHANGED <<syncVars, has_lost, frameVars, waitVars, session_active,
                 envVars>>

BeginCompositor ==
  /\ Main("begin")
  /\ serverUp
  /\ CompBegin(waited)
  /\ mpc' = "assign"
  /\ NoStateChange
  /\ UNCHANGED <<syncVars, has_lost, frameVars, waitVars, session_active,
                 envVars>>

\* Either compositor call of xrBeginFrame fails: the call returns at once.
BeginFrameLost ==
  /\ Main("discard") \/ Main("begin")
  /\ CallLost
  /\ mpc' = "idle"
  /\ NoStateChange
  /\ UNCHANGED <<syncVars, frameVars, waitVars, envVars>>

\* Mutant of BeginAssign: frame_id.waited keeps the frame that was begun.
BeginAssignKeepsWaited ==
  /\ Main("assign")
  /\ begun' = waited
  /\ mpc' = "release"
  /\ NoStateChange
  /\ UNCHANGED <<syncVars, has_lost, frame_started, active_wait_frames, waited,
                 waitVars, compVars, envVars, aborted>>

\* Not under active_wait_frames_lock.
BeginAssign ==
  /\ Main("assign")
  /\ begun' = waited
  /\ waited' = -1
  /\ mpc' = "release"
  /\ NoStateChange
  /\ UNCHANGED <<syncVars, has_lost, frame_started, active_wait_frames,
                 waitVars, compVars, envVars, aborted>>

\* A refused release only makes xrBeginFrame return an error.
BeginRelease ==
  /\ Main("release")
  /\ mpc' = "idle"
  /\ \/ FS!Release
     \/ FS!ReleaseRefused /\ UNCHANGED syncVars
  /\ NoStateChange
  /\ UNCHANGED <<has_lost, frameVars, waitVars, compVars, envVars, aborted>>

-----------------------------------------------------------------------------
(* xrEndFrame.  Errors found while the arguments are verified return before *)
(* anything changes, except that an xrEndFrame without layers gives up its  *)
(* place in active_wait_frames before it calls the compositor.              *)

EndFrameUnchanged ==
  UNCHANGED <<syncVars, waited, mpc, waitVars, session_active, envVars>>

EndFrameEmpty ==
  /\ Main("idle")
  /\ ApiAllowed
  /\ frame_started
  /\ active_wait_frames' = active_wait_frames - 1
  /\ frame_started' = FALSE
  /\ DoSynchronize
  /\ IF Headless
     THEN UNCHANGED <<begun, life, aborted>>
     ELSE serverUp /\ begun' = -1 /\ CompDiscard(begun)
  /\ UNCHANGED has_lost
  /\ EndFrameUnchanged

EndFrameEmptyLost ==
  /\ Main("idle")
  /\ ApiAllowed
  /\ frame_started
  /\ ~Headless
  /\ active_wait_frames' = active_wait_frames - 1
  /\ CallLost
  /\ NoStateChange
  /\ UNCHANGED <<syncVars, frame_started, waited, begun, mpc, waitVars,
                 envVars>>

\* layer_begin marks the frame delivered, layer_commit hands it over.
EndFrameLayers ==
  /\ Main("idle")
  /\ ApiAllowed
  /\ frame_started
  /\ ~Headless
  /\ serverUp
  /\ DoSynchronize
  /\ CompDeliver(begun)
  /\ begun' = -1
  /\ frame_started' = FALSE
  /\ active_wait_frames' = active_wait_frames - 1
  /\ UNCHANGED has_lost
  /\ EndFrameUnchanged

EndFrameLayersLost ==
  /\ Main("idle")
  /\ ApiAllowed
  /\ frame_started
  /\ ~Headless
  /\ CallLost
  /\ DoSynchronize
  /\ UNCHANGED <<syncVars, frameVars, mpc, waitVars, envVars>>

-----------------------------------------------------------------------------
(* xrRequestExitSession, xrPollEvent and xrDestroySession *)

RequestExit ==
  /\ Main("idle")
  /\ ApiAllowed
  /\ DoRequestExit
  /\ UNCHANGED <<syncVars, has_lost, frameVars, mpc, waitVars, compVars,
                 envVars, aborted>>

PollUnchanged ==
  UNCHANGED <<syncVars, frameVars, waitVars, compVars, envVars, aborted>>

PausePath ==
  CASE state = "FOCUSED" -> <<"VISIBLE", "SYNCHRONIZED", "STOPPING">>
    [] state = "VISIBLE" -> <<"SYNCHRONIZED", "STOPPING">>
    [] state = "SYNCHRONIZED" -> <<"STOPPING">>
    [] OTHER -> <<>>

\* oxr_session_poll begins with the Android activity lifecycle.
Poll ==
  /\ Main("idle")
  /\ mpc' = "poll"
  /\ ChangeStates(CASE activity = "onPause" -> PausePath
                    [] activity = "onResume" /\ state = "IDLE" -> <<"READY">>
                    [] OTHER -> <<>>)
  /\ UNCHANGED <<exiting, has_ended_once, visible, has_lost>>
  /\ PollUnchanged

\* One turn of the loop over the queued session events.
PollEvent(event) ==
  /\ Main("poll")
  /\ serverUp
  /\ \/ /\ event \in {"show", "hide"}
        /\ visible' = (event = "show")
        /\ events' = <<>>
        /\ UNCHANGED <<state, exiting, has_ended_once, has_lost>>
     \/ /\ event = "requestExit"
        /\ DoRequestExit
        /\ UNCHANGED has_lost
     \/ /\ event = "lossPending"
        /\ ChangeStates(IF state = "LOSS_PENDING" THEN <<>>
                                                  ELSE <<"LOSS_PENDING">>)
        /\ UNCHANGED <<exiting, has_ended_once, visible, has_lost>>
     \/ /\ event = "lost"
        /\ has_lost' = TRUE
        /\ NoStateChange
  /\ UNCHANGED mpc
  /\ PollUnchanged

PollLost ==
  /\ Main("poll")
  /\ CallLost
  /\ mpc' = "idle"
  /\ NoStateChange
  /\ UNCHANGED <<syncVars, frameVars, waitVars, envVars>>

\* The four conditions after the loop, in their order.
VisibilityPath ==
  CASE state = "SYNCHRONIZED" /\ visible -> <<"VISIBLE", "FOCUSED">>
    [] state = "VISIBLE" /\ visible -> <<"FOCUSED">>
    [] state = "FOCUSED" /\ ~visible -> <<"VISIBLE", "SYNCHRONIZED">>
    [] state = "VISIBLE" /\ ~visible -> <<"SYNCHRONIZED">>
    [] OTHER -> <<>>

PollDone ==
  /\ Main("poll")
  /\ serverUp
  /\ mpc' = "idle"
  /\ ChangeStates(VisibilityPath)
  /\ UNCHANGED <<exiting, has_ended_once, visible, has_lost>>
  /\ PollUnchanged

\* The application synchronises xrDestroySession with its other calls.
DestroySession ==
  /\ Main("idle")
  /\ Waiting("idle")
  /\ mpc' = "destroyed"
  /\ FS!Fini
  /\ session_active' = FALSE
  /\ NoStateChange
  /\ UNCHANGED <<has_lost, frameVars, waitVars, life, envVars,
                 aborted>>

-----------------------------------------------------------------------------
(* The environment. *)

ServerGone ==
  /\ OutOfProcess
  /\ ~aborted
  /\ serverUp
  /\ serverUp' = FALSE
  /\ NoStateChange
  /\ UNCHANGED <<syncVars, has_lost, frameVars, mpc, waitVars, compVars,
                 activity, aborted>>

Activity(a) ==
  /\ Android
  /\ ~aborted
  /\ activity # a
  /\ activity' = a
  /\ NoStateChange
  /\ UNCHANGED <<syncVars, has_lost, frameVars, mpc, waitVars, compVars,
                 serverUp, aborted>>

\* Nothing runs any more.
Finished == (aborted \/ mpc = "destroyed") /\ UNCHANGED vars

-----------------------------------------------------------------------------
GateStep ==
  \/ GatePass
  \/ GateSleep
  \/ GateRefused

WaitThreadNext ==
  \/ WaitFrame
  \/ GateStep
  \/ GateSpuriousWakeup
  \/ Predict
  \/ PredictLost
  \/ ReleaseOnError
  \/ Record

MainThreadNext ==
  \/ BeginSession
  \/ BeginSessionLost
  \/ EndSession
  \/ EndDiscardWaited
  \/ EndDiscardBegun
  \/ EndCompositor
  \/ EndCompositorLost
  \/ EndSync
  \/ BeginFrame
  \/ BeginDiscard
  \/ BeginCompositor
  \/ BeginFrameLost
  \/ BeginAssign
  \/ BeginRelease
  \/ EndFrameEmpty
  \/ EndFrameEmptyLost
  \/ EndFrameLayers
  \/ EndFrameLayersLost
  \/ RequestExit
  \/ Poll
  \/ \E event \in Events : PollEvent(event)
  \/ PollLost
  \/ PollDone
  \/ DestroySession

Next ==
  \/ WaitThreadNext
  \/ MainThreadNext
  \/ ServerGone
  \/ \E a \in {"onPause", "onResume"} : Activity(a)
  \/ Finished

\* The operating system keeps scheduling a wait thread that can run, and a
\* main thread that is inside a call returns from it.  Nothing makes the
\* application start a call.
MainCallStep == mpc # "idle" /\ MainThreadNext

Fairness ==
  /\ WF_vars(GateStep)
  /\ WF_vars(MainCallStep)

Spec == Init /\ [][Next]_vars

FairSpec == Spec /\ Fairness

-----------------------------------------------------------------------------
(***************************************************************************)
(* No assertion of the runtime fails: the pacer only sees xrt_comp_begin_  *)
(* frame for a frame it woke the application for, a discard for a frame    *)
(* that is still open, a layer_begin for a begun frame; compositor         *)
(* sessions begin and end in turn.                                         *)
(***************************************************************************)
NoAbort == ~aborted

(***************************************************************************)
(* Where the process of the compositor may be gone only one of them can    *)
(* fail: that of the release after a failed call.                          *)
(***************************************************************************)
OnlyReleaseAborts ==
  [][~aborted /\ aborted' => wpc = "releaseOnError"]_vars

(***************************************************************************)
(* "max 2 xrWaitFrame can be in flight" (oxr_session.c, xrBeginFrame).     *)
(***************************************************************************)
AtMostTwoInFlight == active_wait_frames \in 0 .. 2

(***************************************************************************)
(* "The function xrBeginFrame will only allow xrWaitFrame to continue from *)
(* the semaphore above once it has cleared the sess->frame_id.waited"      *)
(* (oxr_session.c, xrWaitFrame).                                           *)
(***************************************************************************)
GateOpensOnClearedId ==
  wpc \in {"predict", "record"} => waited <= 0

(***************************************************************************)
(* While the compositor can be reached, a frame that the pacer has woken   *)
(* the application for or that was begun is one whose id the session or    *)
(* its wait thread has, so that it can still be begun, submitted or        *)
(* discarded.  A frame that nobody knows would keep its slot in the        *)
(* pacer's ring for ever.                                                  *)
(***************************************************************************)
NoFrameForgotten ==
  \A f \in Frames : life[f] \in {"woken", "begun"} /\ serverUp
                      => f \in {waited, begun, wframe}

(***************************************************************************)
(* A blocked xrWaitFrame is never a deadlock: whenever the wait thread     *)
(* sleeps and the main thread is between two calls, the call that releases *)
(* it, xrBeginFrame, is accepted.                                          *)
(***************************************************************************)
SleeperCanBeReleased ==
  (FS!Asleep # {} /\ mpc = "idle" /\ ~has_lost /\ ~aborted)
     => ENABLED BeginFrame

(***************************************************************************)
(* The throttle of oxr_frame_sync.c wakes the wait thread whenever it can  *)
(* go on: see FrameSync.                                                   *)
(***************************************************************************)
NoWakeupLost == FS!NoLostWakeup

(***************************************************************************)
(* The application can always leave STOPPING: xrEndSession is refused      *)
(* while the session is not running.                                       *)
(***************************************************************************)
StoppingIsRunning ==
  (state = "STOPPING" /\ mpc # "destroyed") => running

(***************************************************************************)
(* The application is told of session states in an order OpenXR allows,    *)
(* whatever calls and compositor events came in between.                   *)
(***************************************************************************)
Successors(s) ==
  CASE s = "IDLE" -> {"READY", "EXITING"}
    [] s = "READY" -> {"SYNCHRONIZED"}
    [] s = "SYNCHRONIZED" -> {"VISIBLE", "STOPPING"}
    [] s = "VISIBLE" -> {"FOCUSED", "SYNCHRONIZED"}
    [] s = "FOCUSED" -> {"VISIBLE"}
    [] s = "STOPPING" -> {"IDLE"}
    [] OTHER -> {}

StepsAllowed(s, path) ==
  \A i \in 1 .. Len(path) :
    path[i] \in Successors(IF i = 1 THEN s ELSE path[i - 1])
                  \union {"LOSS_PENDING"}

StateOrder == [][events' # <<>> => StepsAllowed(state, events')]_vars

(***************************************************************************)
(* An xrWaitFrame that could go on, because the previous frame was begun   *)
(* or the session ended, does go on: neither signal is lost.               *)
(***************************************************************************)
WaitFrameReturns ==
  (wpc = "gate" /\ (canWaitFrameReturn \/ ~running))
     ~> (wpc # "gate" \/ aborted)

(***************************************************************************)
(* The session implements the abstract frame loop: the counter, the two    *)
(* ids and the throttle together keep the promise of FrameLoop.            *)
(***************************************************************************)
IdOrNone(id) == IF id > 0 THEN id ELSE 0

HandedOut == {f \in Frames : life[f] # "unused"}

LastReturned == Max(HandedOut \union {0}) - (IF wpc = "record" THEN 1 ELSE 0)

Loop == INSTANCE FrameLoop WITH
          lastFrame <- LastReturned,
          waitedFrame <- IdOrNone(waited),
          begunFrame <- IdOrNone(begun)

ImplementsFrameLoop == Loop!LoopSpec

-----------------------------------------------------------------------------
(* Why the count and the gate are right, where a session that ended cannot  *)
(* begin again (Android = FALSE): an inductive invariant.                   *)

EndPlaces == {"endWaited", "endBegun", "endComp", "endSync"}
BeginPlaces == {"discard", "begin", "assign", "release"}
PastGate == {"predict", "record", "releaseOnError"}

Started == IF frame_started THEN 1 ELSE 0
NotBegun == IF waited > 0 THEN 1 ELSE 0

\* A wait thread past the gate, or a gate that would let it pass, leaves room
\* for one more frame and finds frame_id.waited cleared.
RoomForOneMore ==
  active_wait_frames <= 1 /\ waited <= 0 /\ mpc \notin BeginPlaces

Throttle ==
  /\ wpc \in PastGate => RoomForOneMore
  /\ running /\ canWaitFrameReturn => RoomForOneMore /\ wpc \notin PastGate
  /\ wpc = "record" => wframe \in Frames
  /\ wpc = "releaseOnError" => has_lost
  /\ Headless => active_wait_frames = 0 /\ waited <= 0 /\ wpc = "idle"

\* The count is the number of frames the session holds.
Counted ==
  ~has_lost /\ running /\ mpc \notin EndPlaces
    => active_wait_frames = IF mpc \in {"begin", "assign"} THEN 1
                            ELSE Started + NotBegun

InsideCalls ==
  /\ mpc \in BeginPlaces => running /\ frame_started /\ ~has_lost
  /\ mpc \in {"discard", "begin", "assign"} => waited > 0
  /\ mpc = "release" => waited <= 0
  /\ mpc = "discard" => active_wait_frames = 2
  /\ mpc \in EndPlaces => running

\* A session that may begin has never run.
NeverRan ==
  state = "READY" /\ ~running /\ mpc # "destroyed"
    => /\ active_wait_frames = 0
       /\ waited <= 0
       /\ ~frame_started
       /\ wpc = "idle"

StoppingExits ==
  /\ activity = "none"
  /\ state = "STOPPING" => exiting
  /\ mpc \in {"endWaited", "endBegun", "endComp"} => state = "STOPPING"
  /\ mpc = "endSync" => state # "READY"

(***************************************************************************)
(* The strengthening of AtMostTwoInFlight and GateOpensOnClearedId that is *)
(* inductive: OxrSession_proofs proves it of every step of the session.    *)
(***************************************************************************)
FrameInv ==
  /\ AtMostTwoInFlight
  /\ Throttle
  /\ Counted
  /\ InsideCalls
  /\ NeverRan
  /\ StoppingExits

=============================================================================
