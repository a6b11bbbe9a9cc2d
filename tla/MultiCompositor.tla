-------------------------- MODULE MultiCompositor --------------------------
(***************************************************************************)
(* One client of the multi compositor                                      *)
(* (src/monado/src/xrt/compositor/multi/comp_multi_compositor.c) and the   *)
(* part of the render loop of comp_multi_system.c that picks its frames    *)
(* up.  A frame the client commits waits in the `progress' slot until its  *)
(* GPU work is done, in `scheduled' until its display time, and is shown   *)
(* from `delivered'.                                                       *)
(*                                                                         *)
(* Four threads: the client's, the wait thread (run_func) the client hands *)
(* its fences to, the render loop, and the control thread that shows and   *)
(* hides the client.  A critical section that takes one lock and nothing   *)
(* else is one step; `listLock' and `slotLock' say who holds a lock over   *)
(* several steps.                                                          *)
(***************************************************************************)
EXTENDS Integers, FiniteSetsExt

CONSTANTS
  MaxFrames,    \* bound: frames the pacer hands out
  MaxTime,      \* bound: the clock, in display periods
  DisplayTimes, \* the display times an application may give its frames
  SyncMayFail   \* a fence may fail to be imported or waited for

ASSUME ConstantsAssumption ==
  /\ MaxFrames \in Nat
  /\ MaxTime \in Nat \ {0}
  /\ DisplayTimes \subseteq 1 .. MaxTime
  /\ SyncMayFail \in BOOLEAN

VARIABLES
  \* the slots and the flags of multi_compositor
  progress, scheduled, delivered,
  slot_next_frame_display,
  session_active, visible, focused,
  listed,          \* whether msc->clients[] holds this compositor
  \* multi_compositor::wait_thread
  xcf,             \* frame whose fence or semaphore was pushed, or None
  waiting, blocked, running,
  job,             \* local variable frame_id of run_func
  condWaiters,     \* the threads asleep in pthread_cond_wait
  \* locks
  listLock, slotLock,
  \* where each thread is
  cpc, tpc, rpc, kpc,
  \* the environment
  life,            \* life[f]: what the application pacer knows of frame f
  displayTime,     \* displayTime[f]: xrt_layer_frame_data::display_time_ns
  gpuDone,         \* frames whose GPU work is complete
  syncFailed,      \* unfinished frames whose fence failed
  now,             \* the monotonic clock
  nativeDisplay,   \* display time of the native frame being composed
  latched,         \* last frame handed to the native compositor, or None
  aborted          \* an assert() failed

slots == <<progress, scheduled, delivered>>
flags == <<session_active, visible, focused>>
waitVars == <<xcf, waiting, blocked, running, job, condWaiters>>
lockVars == <<listLock, slotLock>>
gpuVars == <<gpuDone, syncFailed>>
envVars == <<displayTime, gpuVars, now>>
renderVars == <<nativeDisplay, slot_next_frame_display, latched>>
vars == <<slots, flags, listed, waitVars, lockVars, cpc, tpc, rpc, kpc, life,
          envVars, renderVars, aborted>>

None == 0
Frames == 1 .. MaxFrames
Slot == Frames \union {None}

LifeStates ==
  {"unused", "woken", "begun", "delivered", "gpuDone", "discarded"}

ClientPlaces ==
  {"idle", "layerBegin", "blocked", "fill", "layers", "markDone", "lockSlot",
   "checkFree", "takeList", "takeSlot", "move", "unlist", "stop", "join",
   "destroyed"}

WaitPlaces ==
  {"asleep", "sync", "markDone", "lockSlot", "checkFree", "takeList",
   "takeSlot", "move", "finish", "exited"}

RenderPlaces ==
  {"predict", "takeList", "takeSlot", "deliver", "select", "blend", "commit"}

Threads == {"client", "waiter", "render"}

TypeOK ==
  /\ {progress, scheduled, delivered, xcf, job, latched} \subseteq Slot
  /\ {session_active, visible, focused, listed, waiting, blocked, running,
      aborted} \subseteq BOOLEAN
  /\ condWaiters \subseteq {"client", "waiter"}
  /\ {listLock, slotLock} \subseteq Threads \union {"free"}
  /\ cpc \in ClientPlaces
  /\ tpc \in WaitPlaces
  /\ rpc \in RenderPlaces
  /\ kpc \in {"idle", "show", "hide"}
  /\ life \in [Frames -> LifeStates]
  /\ displayTime \in [Frames -> 0 .. MaxTime]
  /\ gpuDone \subseteq Frames /\ syncFailed \subseteq Frames
  /\ {now, nativeDisplay, slot_next_frame_display} \subseteq 0 .. MaxTime

\* multi_compositor_create, which returns once the wait thread sleeps.
Init ==
  /\ progress = None /\ scheduled = None /\ delivered = None
  /\ slot_next_frame_display = 0
  /\ session_active = FALSE /\ visible = FALSE /\ focused = FALSE
  /\ listed = TRUE
  /\ xcf = None /\ job = None
  /\ waiting = FALSE /\ blocked = FALSE /\ running = TRUE
  /\ condWaiters = {"waiter"}
  /\ listLock = "free" /\ slotLock = "free"
  /\ cpc = "idle" /\ tpc = "asleep" /\ rpc = "predict" /\ kpc = "idle"
  /\ life = [f \in Frames |-> "unused"]
  /\ displayTime = [f \in Frames |-> 0]
  /\ gpuDone = {} /\ syncFailed = {}
  /\ now = 0 /\ nativeDisplay = 0
  /\ latched = None
  /\ aborted = FALSE

-----------------------------------------------------------------------------
(* Helpers. *)

Client(place) == ~aborted /\ cpc = place
WaitThread(place) == ~aborted /\ tpc = place
Render(place) == ~aborted /\ rpc = place

\* os_thread_helper_signal_locked: wakes one thread, whichever.
AfterSignal ==
  IF condWaiters = {} THEN {condWaiters}
  ELSE {condWaiters \ {t} : t \in condWaiters}

Signal == condWaiters' \in AfterSignal

\* The pacer asserts the state of the frame; see AppPacer.
Mark(f, S, next) ==
  IF f \in Frames /\ life[f] \in S
  THEN life' = [life EXCEPT ![f] = next] /\ UNCHANGED aborted
  ELSE aborted' = TRUE /\ UNCHANGED life

ListLockFree == listLock = "free"

InState(S) == {f \in Frames : life[f] \in S}

-----------------------------------------------------------------------------
(* The client's calls. *)

ClientUnchanged ==
  UNCHANGED <<listed, running, job, lockVars, tpc, rpc, kpc, now, renderVars>>

BeginSession ==
  /\ Client("idle")
  /\ ~session_active
  /\ session_active' = TRUE
  /\ UNCHANGED <<slots, visible, focused, xcf, waiting, blocked, condWaiters,
                 cpc, life, displayTime, gpuVars, aborted>>
  /\ ClientUnchanged

EndSession ==
  /\ Client("idle")
  /\ session_active
  /\ session_active' = FALSE
  /\ UNCHANGED <<slots, visible, focused, xcf, waiting, blocked, condWaiters,
                 cpc, life, displayTime, gpuVars, aborted>>
  /\ ClientUnchanged

\* multi_compositor_wait_frame, on the application's wait thread: the frame
\* is predicted and woken for.  The session lets one such frame be in flight.
WaitFrame ==
  /\ ~aborted
  /\ cpc \notin {"unlist", "stop", "join", "destroyed"}
  /\ session_active
  /\ ListLockFree
  /\ InState({"woken"}) = {}
  /\ InState({"unused"}) # {}
  /\ life' = [life EXCEPT ![Min(InState({"unused"}))] = "woken"]
  /\ UNCHANGED <<slots, flags, xcf, waiting, blocked, condWaiters, cpc,
                 displayTime, gpuVars, aborted>>
  /\ ClientUnchanged

BeginFrame ==
  /\ Client("idle")
  /\ ListLockFree
  /\ InState({"begun"}) = {}
  /\ \E f \in InState({"woken"}) : Mark(f, {"woken"}, "begun")
  /\ UNCHANGED <<slots, flags, xcf, waiting, blocked, condWaiters, cpc,
                 displayTime, gpuVars>>
  /\ ClientUnchanged

\* Also retires the delivered frame.
DiscardFrame ==
  /\ Client("idle")
  /\ ListLockFree
  /\ \E f \in InState({"woken", "begun"}) :
       Mark(f, {"woken", "begun"}, "discarded")
  /\ delivered' = None
  /\ UNCHANGED <<progress, scheduled, flags, xcf, waiting, blocked,
                 condWaiters, cpc, displayTime, gpuVars>>
  /\ ClientUnchanged

\* multi_compositor_layer_begin, first part: the frame is marked delivered.
LayerBegin ==
  /\ Client("idle")
  /\ ListLockFree
  /\ session_active
  /\ \E f \in InState({"begun"}), t \in DisplayTimes :
       /\ Mark(f, {"begun"}, "delivered")
       /\ displayTime' = [displayTime EXCEPT ![f] = t]
  /\ cpc' = "layerBegin"
  /\ UNCHANGED <<slots, flags, xcf, waiting, blocked, condWaiters, gpuVars>>
  /\ ClientUnchanged

IsPushedOrWaiting == waiting \/ xcf # None

\* Mutant of WaitForWaitThread: a pushed fence is not counted.
WaitForWaitingThread ==
  /\ Client("layerBegin")
  /\ IF waiting
     THEN /\ aborted' = blocked
          /\ blocked' = TRUE
          /\ condWaiters' = condWaiters \union {"client"}
          /\ cpc' = "blocked"
     ELSE cpc' = "fill" /\ UNCHANGED <<aborted, blocked, condWaiters>>
  /\ UNCHANGED <<slots, flags, xcf, waiting, life, displayTime, gpuVars>>
  /\ ClientUnchanged

\* multi_compositor_layer_begin waits for the frame before.
WaitForWaitThread ==
  /\ Client("layerBegin")
  /\ IF IsPushedOrWaiting
     THEN /\ aborted' = blocked
          /\ blocked' = TRUE
          /\ condWaiters' = condWaiters \union {"client"}
          /\ cpc' = "blocked"
     ELSE cpc' = "fill" /\ UNCHANGED <<aborted, blocked, condWaiters>>
  /\ UNCHANGED <<slots, flags, xcf, waiting, life, displayTime, gpuVars>>
  /\ ClientUnchanged

\* Awake again: sleeps on while `blocked' is set.
BlockedWakes ==
  /\ Client("blocked")
  /\ "client" \notin condWaiters
  /\ IF blocked
     THEN condWaiters' = condWaiters \union {"client"} /\ UNCHANGED cpc
     ELSE cpc' = "fill" /\ UNCHANGED condWaiters
  /\ UNCHANGED <<slots, flags, xcf, waiting, blocked, life, displayTime,
                 gpuVars, aborted>>
  /\ ClientUnchanged

\* assert(progress.layer_count == 0); the layers follow.  No lock is held.
FillProgress ==
  /\ Client("fill")
  /\ aborted' = (progress # None)
  /\ progress' = Max({f \in Frames : life[f] = "delivered"})
  /\ cpc' = "layers"
  /\ UNCHANGED <<scheduled, delivered, flags, xcf, waiting, blocked,
                 condWaiters, life, displayTime, gpuVars>>
  /\ ClientUnchanged

\* multi_compositor_layer_commit with a fence, or _with_semaphore: the frame
\* is handed to the wait thread, which layer_begin has waited for.
CommitWithSync ==
  /\ Client("layers")
  /\ aborted' = IsPushedOrWaiting
  /\ xcf' = progress
  /\ Signal
  /\ cpc' = "idle"
  /\ UNCHANGED <<slots, flags, waiting, blocked, life, displayTime, gpuVars>>
  /\ ClientUnchanged

\* multi_compositor_layer_commit without one.  "Assume that the app side
\* compositor waited"; where the import of its fence failed it did not.
CommitWithoutSync ==
  /\ Client("layers")
  /\ \/ gpuDone' = gpuDone \union {progress} /\ UNCHANGED syncFailed
     \/ /\ SyncMayFail
        /\ syncFailed' = syncFailed \union {progress}
        /\ UNCHANGED gpuDone
  /\ cpc' = "markDone"
  /\ UNCHANGED <<slots, flags, xcf, waiting, blocked, condWaiters, life,
                 displayTime, aborted>>
  /\ ClientUnchanged

-----------------------------------------------------------------------------
(* wait_for_scheduled_free, run by the wait thread or, for a frame without  *)
(* a fence, by the client.                                                  *)

At(t, place) ==
  ~aborted /\ (IF t = "client" THEN cpc = place ELSE tpc = place)

Goto(t, place) ==
  IF t = "client" THEN cpc' = place /\ UNCHANGED tpc
                  ELSE tpc' = place /\ UNCHANGED cpc

FreeUnchanged ==
  UNCHANGED <<flags, listed, waitVars, rpc, kpc, life, envVars, renderVars,
              aborted>>

\* multi_compositor_layer_commit and run_func call u_pa_mark_gpu_done.
MarkGpuDone(t) ==
  /\ At(t, "markDone")
  /\ ListLockFree
  /\ Mark(IF t = "client" THEN progress ELSE job, {"delivered"}, "gpuDone")
  /\ Goto(t, "lockSlot")
  /\ UNCHANGED <<slots, flags, listed, waitVars, lockVars, rpc, kpc, envVars,
                 renderVars>>

LockSlot(t) ==
  /\ At(t, "lockSlot")
  /\ slotLock = "free"
  /\ slotLock' = t
  /\ Goto(t, "checkFree")
  /\ UNCHANGED <<slots, listLock>>
  /\ FreeUnchanged

\* The frame in progress is for the next native frame, or the scheduled one
\* is in the past.
ScheduledMayBeReplaced ==
  \/ scheduled = None
  \/ displayTime[progress] = slot_next_frame_display
  \/ displayTime[scheduled] < now

\* Mutant of CheckFree: slot_lock is not released before the next lock.
CheckFreeKeepsLock(t) ==
  /\ At(t, "checkFree")
  /\ IF ScheduledMayBeReplaced
     THEN Goto(t, "takeList") /\ UNCHANGED slotLock
     ELSE Goto(t, "lockSlot") /\ slotLock' = "free"
  /\ UNCHANGED <<slots, listLock>>
  /\ FreeUnchanged

\* Releases slot_lock, and looks again a millisecond later if it must.
CheckFree(t) ==
  /\ At(t, "checkFree")
  /\ Goto(t, IF ScheduledMayBeReplaced THEN "takeList" ELSE "lockSlot")
  /\ slotLock' = "free"
  /\ UNCHANGED <<slots, listLock>>
  /\ FreeUnchanged

\* "Need to take list_and_timing_lock before slot_lock."
TakeList(t) ==
  /\ At(t, "takeList")
  /\ ListLockFree
  /\ listLock' = t
  /\ Goto(t, "takeSlot")
  /\ UNCHANGED <<slots, slotLock>>
  /\ FreeUnchanged

TakeSlot(t) ==
  /\ At(t, "takeSlot")
  /\ slotLock = "free"
  /\ slotLock' = t
  /\ Goto(t, "move")
  /\ UNCHANGED <<slots, listLock>>
  /\ FreeUnchanged

\* Mutant of MoveToScheduled: progress is not cleared.
CopyToScheduled(t) ==
  /\ At(t, "move")
  /\ scheduled' = progress
  /\ listLock' = "free"
  /\ slotLock' = "free"
  /\ Goto(t, IF t = "client" THEN "idle" ELSE "finish")
  /\ UNCHANGED <<progress, delivered>>
  /\ FreeUnchanged

\* Mutant of MoveToScheduled: a frame for the next display overtakes the
\* scheduled one.
MovePastScheduled(t) ==
  /\ At(t, "move")
  /\ IF scheduled = None
     THEN scheduled' = progress /\ UNCHANGED delivered
     ELSE delivered' = progress /\ UNCHANGED scheduled
  /\ progress' = None
  /\ listLock' = "free"
  /\ slotLock' = "free"
  /\ Goto(t, IF t = "client" THEN "idle" ELSE "finish")
  /\ FreeUnchanged

\* slot_move_and_clear_locked: what was scheduled is retired.
MoveToScheduled(t) ==
  /\ At(t, "move")
  /\ scheduled' = progress
  /\ progress' = None
  /\ listLock' = "free"
  /\ slotLock' = "free"
  /\ Goto(t, IF t = "client" THEN "idle" ELSE "finish")
  /\ UNCHANGED delivered
  /\ FreeUnchanged

-----------------------------------------------------------------------------
(* run_func: the wait thread. *)

RunUnchanged ==
  UNCHANGED <<slots, flags, listed, running, lockVars, cpc, rpc, kpc, life,
              envVars, renderVars, aborted>>

\* The head of the loop, with the other sleepers given: it ends, or
\* sleeps unless there is something to take.
LoopHead(sleepers) ==
  IF running
  THEN /\ tpc' = "asleep"
       /\ condWaiters' = sleepers \union (IF xcf = None THEN {"waiter"} ELSE {})
  ELSE /\ tpc' = "exited"
       /\ condWaiters' = sleepers

\* Awake: takes what was pushed, also when it is to stop.
TakeJob ==
  /\ WaitThread("asleep")
  /\ "waiter" \notin condWaiters
  /\ job' = xcf
  /\ xcf' = None
  /\ waiting' = (xcf # None)
  /\ UNCHANGED blocked
  /\ IF xcf = None THEN LoopHead(condWaiters)
                   ELSE tpc' = "sync" /\ UNCHANGED condWaiters
  /\ RunUnchanged

\* Mutant of WaitSync: gives up after the first timeout.
WaitSyncOnce ==
  /\ WaitThread("sync")
  /\ tpc' = "markDone"
  /\ UNCHANGED <<xcf, waiting, blocked, job, condWaiters>>
  /\ RunUnchanged

\* wait_fence, wait_semaphore: until the GPU is done, the wait fails, or the
\* thread is told to stop.
WaitSync ==
  /\ WaitThread("sync")
  /\ \/ job \in gpuDone
     \/ SyncMayFail
     \/ ~running
  /\ syncFailed' = IF running THEN syncFailed \union ({job} \ gpuDone)
                              ELSE syncFailed
  /\ tpc' = "markDone"
  /\ UNCHANGED <<slots, flags, listed, waitVars, lockVars, cpc, rpc, kpc, life,
                 displayTime, gpuDone, now, renderVars, aborted>>

\* Mutant of Finish: the blocked client is not released.
FinishSilently ==
  /\ WaitThread("finish")
  /\ waiting' = FALSE
  /\ LoopHead(condWaiters)
  /\ UNCHANGED <<xcf, job, blocked>>
  /\ RunUnchanged

Finish ==
  /\ WaitThread("finish")
  /\ waiting' = FALSE
  /\ blocked' = FALSE
  /\ \E sleepers \in IF blocked THEN AfterSignal ELSE {condWaiters} :
       LoopHead(sleepers)
  /\ UNCHANGED <<xcf, job>>
  /\ RunUnchanged

\* POSIX allows pthread_cond_wait to return without a signal.
SpuriousWakeup(t) ==
  /\ ~aborted
  /\ t \in condWaiters
  /\ condWaiters' = condWaiters \ {t}
  /\ UNCHANGED <<xcf, waiting, blocked, job, tpc>>
  /\ RunUnchanged

-----------------------------------------------------------------------------
(* multi_compositor_destroy, called by the client. *)

DestroyUnchanged ==
  UNCHANGED <<visible, focused, xcf, waiting, blocked, job, lockVars, tpc, rpc,
              kpc, life, envVars, renderVars, aborted>>

\* xrDestroySession: no other call of the session is in progress.
Destroy ==
  /\ Client("idle")
  /\ session_active' = FALSE
  /\ cpc' = "unlist"
  /\ UNCHANGED <<slots, listed, running, condWaiters>>
  /\ DestroyUnchanged

Unlist ==
  /\ Client("unlist")
  /\ ListLockFree
  /\ listed' = FALSE
  /\ cpc' = "stop"
  /\ UNCHANGED <<slots, session_active, running, condWaiters>>
  /\ DestroyUnchanged

\* Mutant of Stop: the sleeping wait thread is not signalled.
StopSilently ==
  /\ Client("stop")
  /\ running' = FALSE
  /\ cpc' = "join"
  /\ UNCHANGED <<slots, session_active, listed, condWaiters>>
  /\ DestroyUnchanged

\* os_thread_helper_stop_and_wait
Stop ==
  /\ Client("stop")
  /\ running' = FALSE
  /\ Signal
  /\ cpc' = "join"
  /\ UNCHANGED <<slots, session_active, listed>>
  /\ DestroyUnchanged

\* The thread is joined, the slots are cleared, the compositor is freed.
Join ==
  /\ Client("join")
  /\ tpc = "exited"
  /\ ListLockFree
  /\ progress' = None /\ scheduled' = None /\ delivered' = None
  /\ cpc' = "destroyed"
  /\ UNCHANGED <<session_active, listed, running, condWaiters>>
  /\ DestroyUnchanged

-----------------------------------------------------------------------------
(* The render loop of the system compositor, as this client meets it. *)

RenderUnchanged ==
  UNCHANGED <<progress, flags, listed, waitVars, cpc, tpc, kpc, life, envVars,
              aborted>>

\* multi_main_loop predicts its next frame and tells the client when that
\* will be displayed (broadcast_timings_to_clients).
PredictNative ==
  /\ Render("predict")
  /\ ListLockFree /\ slotLock = "free"
  /\ Max({nativeDisplay, now}) < MaxTime
  /\ nativeDisplay' = Max({nativeDisplay, now}) + 1
  /\ slot_next_frame_display' =
       IF listed THEN nativeDisplay' ELSE slot_next_frame_display
  /\ rpc' = "takeList"
  /\ UNCHANGED <<scheduled, delivered, lockVars, latched>>
  /\ RenderUnchanged

RenderTakeList ==
  /\ Render("takeList")
  /\ ListLockFree
  /\ IF listed THEN listLock' = "render" /\ rpc' = "takeSlot"
               ELSE rpc' = "predict" /\ UNCHANGED listLock
  /\ UNCHANGED <<scheduled, delivered, slotLock, renderVars>>
  /\ RenderUnchanged

RenderTakeSlot ==
  /\ Render("takeSlot")
  /\ slotLock = "free"
  /\ slotLock' = "render"
  /\ rpc' = "deliver"
  /\ UNCHANGED <<scheduled, delivered, listLock, renderVars>>
  /\ RenderUnchanged

\* Mutant of Deliver: the scheduled slot is not cleared.
DeliverCopies ==
  /\ Render("deliver")
  /\ IF scheduled # None /\ displayTime[scheduled] <= nativeDisplay
     THEN delivered' = scheduled
     ELSE UNCHANGED delivered
  /\ slotLock' = "free"
  /\ rpc' = "select"
  /\ UNCHANGED <<scheduled, listLock, renderVars>>
  /\ RenderUnchanged

\* multi_compositor_deliver_any_frames
Deliver ==
  /\ Render("deliver")
  /\ IF scheduled # None /\ displayTime[scheduled] <= nativeDisplay
     THEN delivered' = scheduled /\ scheduled' = None
     ELSE UNCHANGED <<scheduled, delivered>>
  /\ slotLock' = "free"
  /\ rpc' = "select"
  /\ UNCHANGED <<listLock, renderVars>>
  /\ RenderUnchanged

\* transfer_layers_locked: what is not shown is retired, the rest latched.
Select ==
  /\ Render("select")
  /\ IF delivered # None /\ visible /\ session_active
     THEN latched' = delivered /\ rpc' = "blend" /\ UNCHANGED delivered
     ELSE delivered' = None /\ rpc' = "commit" /\ UNCHANGED latched
  /\ UNCHANGED <<scheduled, lockVars, nativeDisplay, slot_next_frame_display>>
  /\ RenderUnchanged

\* find_active_blend_mode, then the layers of `delivered' are submitted.
Blend ==
  /\ Render("blend")
  /\ rpc' = "commit"
  /\ UNCHANGED <<scheduled, delivered, lockVars, renderVars>>
  /\ RenderUnchanged

CommitNative ==
  /\ Render("commit")
  /\ listLock' = "free"
  /\ rpc' = "predict"
  /\ UNCHANGED <<scheduled, delivered, slotLock, renderVars>>
  /\ RenderUnchanged

-----------------------------------------------------------------------------
(* system_compositor_set_state, which takes no lock: first one flag, then   *)
(* the other.                                                               *)

SetVisible(v) ==
  /\ ~aborted
  /\ kpc = "idle"
  /\ cpc # "destroyed"
  /\ visible # v
  /\ visible' = v
  /\ kpc' = IF v THEN "show" ELSE "hide"
  /\ UNCHANGED <<slots, session_active, focused, listed, waitVars, lockVars,
                 cpc, tpc, rpc, life, envVars, renderVars, aborted>>

SetFocused ==
  /\ ~aborted
  /\ kpc # "idle"
  /\ focused' = (kpc = "show")
  /\ kpc' = "idle"
  /\ UNCHANGED <<slots, session_active, visible, listed, waitVars, lockVars,
                 cpc, tpc, rpc, life, envVars, renderVars, aborted>>

-----------------------------------------------------------------------------
(* The environment. *)

\* The application has submitted the work when it begins the layers.
GpuDone(f) ==
  /\ ~aborted
  /\ life[f] \in {"delivered", "gpuDone"}
  /\ f \notin gpuDone
  /\ gpuDone' = gpuDone \union {f}
  /\ syncFailed' = syncFailed \ {f}
  /\ UNCHANGED <<slots, flags, listed, waitVars, lockVars, cpc, tpc, rpc, kpc,
                 life, displayTime, now, renderVars, aborted>>

Tick ==
  /\ ~aborted
  /\ now < MaxTime
  /\ now' = now + 1
  /\ UNCHANGED <<slots, flags, listed, waitVars, lockVars, cpc, tpc, rpc, kpc,
                 life, displayTime, gpuVars, renderVars, aborted>>

Finished == (aborted \/ cpc = "destroyed") /\ UNCHANGED vars

-----------------------------------------------------------------------------
FreeStep(t) ==
  \/ MarkGpuDone(t)
  \/ LockSlot(t)
  \/ CheckFree(t)
  \/ TakeList(t)
  \/ TakeSlot(t)
  \/ MoveToScheduled(t)

\* Calls the application makes when it likes.
ClientCall ==
  \/ BeginSession
  \/ EndSession
  \/ WaitFrame
  \/ BeginFrame
  \/ DiscardFrame
  \/ LayerBegin
  \/ Destroy

\* Steps inside a call.
ClientStep ==
  \/ WaitForWaitThread
  \/ BlockedWakes
  \/ FillProgress
  \/ CommitWithSync
  \/ CommitWithoutSync
  \/ FreeStep("client")
  \/ Unlist
  \/ Stop
  \/ Join

WaitThreadStep ==
  \/ TakeJob
  \/ WaitSync
  \/ FreeStep("waiter")
  \/ Finish

RenderStep ==
  \/ RenderTakeList
  \/ RenderTakeSlot
  \/ Deliver
  \/ Select
  \/ Blend
  \/ CommitNative

Next ==
  \/ ClientCall
  \/ ClientStep
  \/ WaitThreadStep
  \/ \E t \in {"client", "waiter"} : SpuriousWakeup(t)
  \/ PredictNative
  \/ RenderStep
  \/ \E v \in BOOLEAN : SetVisible(v)
  \/ SetFocused
  \/ \E f \in Frames : GpuDone(f)
  \/ Tick
  \/ Finished

Spec == Init /\ [][Next]_vars

\* Threads inside a call are scheduled, a lock that is free is eventually
\* taken by whoever waits for it, GPU work completes, time passes.  Nothing
\* makes the application start a call or the render loop its next frame.
Fairness ==
  /\ SF_vars(ClientStep)
  /\ SF_vars(WaitThreadStep)
  /\ WF_vars(RenderStep)
  /\ WF_vars(\E f \in Frames : GpuDone(f))
  /\ WF_vars(Tick)

FairSpec == Spec /\ Fairness

-----------------------------------------------------------------------------
(***************************************************************************)
(* No assertion fails: layer_begin finds the progress slot empty, a fence  *)
(* is pushed only to an idle wait thread, one thread at a time is blocked  *)
(* on it, and the pacer hears of every frame in the order it expects.      *)
(***************************************************************************)
NoAbort == ~aborted

(***************************************************************************)
(* What is handed to the native compositor was drawn: unless its fence     *)
(* failed, the GPU work of a latched frame is complete, although a wait is *)
(* given up when the client is destroyed.                                  *)
(***************************************************************************)
OnlyFinishedFramesLatched ==
  latched # None => latched \in gpuDone \union syncFailed

(***************************************************************************)
(* Frames reach the display in the order the application committed them.   *)
(***************************************************************************)
FramesInOrder == [][latched' >= latched]_vars

(***************************************************************************)
(* No frame is in two slots, and none is in a slot while the pacer does    *)
(* not count it as submitted.                                              *)
(***************************************************************************)
OneSlotEach ==
  /\ \A s \in {scheduled, delivered} : s # None => life[s] = "gpuDone"
  /\ progress # None => progress \notin {scheduled, delivered}
  /\ scheduled # None => scheduled # delivered

(***************************************************************************)
(* The client fills the progress slot only while the wait thread does not  *)
(* use it: comp_multi_private.h leaves it without a lock.                  *)
(***************************************************************************)
ProgressHandedOver ==
  cpc \in {"fill", "layers"} => ~IsPushedOrWaiting

(***************************************************************************)
(* No two threads hold one of the two locks and wait for the other.        *)
(***************************************************************************)
WantsList(t) == IF t = "render" THEN FALSE ELSE At(t, "takeList")
WantsSlot(t) == IF t = "render" THEN rpc = "takeSlot" ELSE At(t, "takeSlot")

NoLockCycle ==
  ~\E a, b \in Threads :
     listLock = a /\ WantsSlot(a) /\ slotLock = b /\ WantsList(b)

(***************************************************************************)
(* The client and the wait thread sleep on one condition variable, and a   *)
(* signal wakes either of them: none is lost on the wrong one.  The client *)
(* sleeps only while the wait thread has, or was just given, its last      *)
(* frame and is awake; the wait thread only while it is to run and has     *)
(* nothing.                                                                *)
(***************************************************************************)
NobodySleepsInVain ==
  /\ "client" \in condWaiters => cpc = "blocked" /\ blocked /\ IsPushedOrWaiting
  /\ "waiter" \in condWaiters => tpc = "asleep" /\ running /\ ~IsPushedOrWaiting

(***************************************************************************)
(* The three slots, filled and emptied by three threads, hand a frame on   *)
(* without an assertion failing, without losing track of it, without two   *)
(* threads at the slot that has no lock, without a deadlock and without a  *)
(* thread that nobody wakes.                                               *)
(***************************************************************************)
SlotsAreSafe ==
  /\ TypeOK /\ NoAbort /\ OneSlotEach /\ ProgressHandedOver /\ NoLockCycle
  /\ NobodySleepsInVain

(***************************************************************************)
(* A client blocked in layer_begin goes on once the frame before it is     *)
(* done, whichever thread the shared condition variable wakes.             *)
(***************************************************************************)
BlockedIsReleased == cpc = "blocked" ~> (cpc # "blocked" \/ aborted)

(***************************************************************************)
(* multi_compositor_destroy returns: the wait thread is woken to stop, and *)
(* the frame it holds, which nobody will deliver any more, does not keep   *)
(* it.                                                                     *)
(***************************************************************************)
DestroyReturns == cpc = "unlist" ~> (cpc = "destroyed" \/ aborted)

(***************************************************************************)
(* A committed frame leaves the progress slot: it is shown, or replaced by *)
(* a newer one, or cleared with the compositor.                            *)
(***************************************************************************)
CommittedMovesOn ==
  (progress # None /\ cpc # "layers") ~> (progress = None \/ aborted)

(***************************************************************************)
(* find_active_blend_mode: assert(mc->state.visible) for a focused client. *)
(***************************************************************************)
FocusedIsVisible == rpc = "blend" /\ focused => visible

=============================================================================
