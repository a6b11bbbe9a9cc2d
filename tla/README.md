# Verification of the frame path of a delay-aware XR runtime

TLA+ models, model-checked properties and machine-checked proofs about the
program in `src/`: the Monado OpenXR runtime with the instrumentation of the
thesis "Delay-Aware Pose Prediction for XR". The models follow one thing
through the runtime: a frame, from `xrWaitFrame` in the application to the
native compositor that shows it and to the line in `display.csv` that records
its delay. All paths below are relative to `src/monado/src/xrt/` unless they
begin with `src/`.

## 1. Inventory

### The path of a frame

```
 application            OpenXR session          multi compositor             native compositor
 -----------            --------------          ----------------             -----------------
 wait thread  --------> xrWaitFrame  ---------> predict_frame (pacer), sleep
                        frame throttle
 main thread  --------> xrBeginFrame ---------> begin_frame
              --------> xrLocateViews --------> (device, SLAM tracker)
              --------> xrEndFrame   ---------> layer_begin .. layer_commit
                                                progress slot
                                                   | wait thread: fence
                                                scheduled slot
                                                   | render loop: display time
                                                delivered slot  -----------> layers, commit
                     timing pipeline: one row of display.csv per frame
```

### Around it

```
 other processes --> IPC server: a thread and a slot per connection ----> multi compositor clients
                     primary application, what each one is told            (made, told, destroyed)
 application ------> swapchain images: acquire, wait, release ----------> slots, render loop, collection
 camera driver ----> SLAM adapter --> external system --> pose history --> xrLocateViews
 camera threads ---> genlock, combiner, queue ----------> consumer (calibration, recording)
 trackers ---------> worker pool, futures
 objects ----------> counts of the users of a device feature, by process and by service
```

### Components

| component | state | operations | interacts through |
|---|---|---|---|
| Frame throttle, `state_trackers/oxr/oxr_frame_sync.c` | `running`, `canWaitFrameReturn`, one condition variable | wait, release, begin, end, fini | called by the session from two application threads |
| Session, `state_trackers/oxr/oxr_session.c` | `state`, `frame_started`, `frame_id.{waited,begun}`, `active_wait_frames`, `exiting`, `has_lost`, visibility | begin, end, wait/begin/end frame, request exit, poll, destroy | calls the compositor; events come back through a sink |
| Multi compositor, client side, `compositor/multi/comp_multi_compositor.c` | slots `progress`, `scheduled`, `delivered`; `wait_thread.{waiting,blocked,xcf,xcsem}` | the compositor interface, wait thread, destroy | `list_and_timing_lock`, `slot_lock`, the lock of the wait thread |
| Multi compositor, system side, `compositor/multi/comp_multi_system.c` | `sessions.{state,active_count}`, list of clients, timings | render loop, set_state, create, destroy | drives the native compositor, reads every client |
| Application pacer, `auxiliary/util/u_pacing_app.c` | ring of frames, frame counter, estimates, last timings | predict, mark, discard, deliver, gpu_done, info | under `list_and_timing_lock` |
| Timing pipeline, `auxiliary/util/u_timing_pipeline.c` | a global table of 256 rows, two writers | mark wait/begin/locate/predict/present, emit | own mutex; marks come from four other components |
| Native compositor and its pacer, `compositor/main/*`, `auxiliary/util/u_pacing_compositor.c` | `frame.{waited,rendering}`, ring of predicted frames, compositor time | predict, mark, draw, submit, present, info | called by the render loop; the presentation engine answers late |
| Swapchains, `state_trackers/oxr/oxr_swapchain.c`, `compositor/util/comp_swapchain.c`, `auxiliary/util/u_index_fifo.c` | two FIFOs of images, image states, references | acquire, wait, release, use in a frame, destroy, collect | references held by the slots; collection by the render loop |
| SLAM adapter, `auxiliary/tracking/t_tracker_slam.cpp` | pose history, `last_ts`/`last_rel`, camera timing map | push images, flush poses, get_tracked_pose | external VIT system, timing pipeline |
| Frame queue, `auxiliary/util/u_sink_queue.c` | bounded list of frames | push, thread, break apart, destroy | a producer and a consumer |
| Stereo sinks, `u_sink_force_genlock.c`, `u_sink_combiner.c`, `u_sink_simple_queue.c`, `xrt_frame.h` | a frame for each side, a pair, a sequence number | push, pair, consume, break apart, destroy | two camera threads, two threads of their own, the frame context |
| Worker pool, `auxiliary/util/u_worker.c` | array of tasks, counts for each group, limit of workers | push, wait (donates the thread), finish, destroy | one mutex, a condition variable for each group and one for workers |
| Futures, `auxiliary/util/u_future.cpp` | state, result | complete, cancel, wait, get | mutex, condition variable, atomics |
| IPC server, `ipc/server/*` | slots, threads, primary application, connection count | main loop, a thread per client, idle exit | `global_state.lock`; owns multi compositor clients |
| Use of device features, `auxiliary/util/u_system_helpers.c`, `ipc/client/ipc_client_system_devices.c`, `ipc/server/ipc_server_handler.c` | atomic counts in the process and in the service, a flag per client | begin, end, disconnect | IPC calls; the device driver |
| Spaces, events, input, `auxiliary/util/u_space_overseer.c`, `state_trackers/oxr/*` | space graph, action sets | calls of the API | device queries |
| WMR driver, EuRoC player, other drivers, GUI | | | USB, files |
| Offline harness, `src/xrtslam-metrics/` | recorded tables | align, replay, predict, filter, score | CSV files |

`PROJECT.json` lists them with their status, those not modelled with the reason.

### What is hard, and what makes a component correct

* **Session.** Two application threads share the frame ids and the count of
  frames in flight, with a lock around the count only. The exit path, loss of
  the compositor and visibility events change the state between any two steps
  of a call. Correct: at most two frames in flight, no frame id overwritten, no
  frame forgotten by `xrEndSession`, a blocked `xrWaitFrame` always released,
  states announced in the order OpenXR allows.
* **Multi compositor.** Three threads and an IPC thread per client, three
  locks, and a slot with none. Correct: frames are shown finished and in order,
  nothing is freed while it is transferred, a client blocked behind its own
  frame goes on, destruction returns, the native session is begun exactly while
  it is needed and ends on a frame that was begun when nobody needed it.
* **Pacer.** Times from several threads and a ring that is reused. Correct:
  display times in order, on the grid of the display and as soon as the work
  allows; a slot is never taken from a frame that needs it.
* **Timing pipeline.** One table joined by two keys, for all sessions, without
  an end of a row's life. Correct: each presented frame has one line, with its
  own marks.
* **IPC server.** The main loop and a thread per client change one table under
  one lock, but clear up in several critical sections, and one of them waits
  inside the lock for a thread. Correct: a slot has one thread, the primary
  application is one that can be, every compositor was told what the table
  says, the count is that of the connections, an idle server stops.
* **Feature counts.** Three counts in two processes, each atomic, and what
  follows from a count is done after it. Correct: a feature nobody uses ends.
* **Swapchains.** An image passes through four owners on three threads, and the
  swapchain dies later than its handle. Correct: every image is in one place,
  nothing that is used or referenced is freed.
* **Native frame.** The same frame has an id in the compositor, in the target
  and in the pacer's ring, and its timing comes frames later, or never.
  Correct: each point of a frame finds the one before it.
* **SLAM adapter.** A driver thread and any number of pose queries flush the
  same external queue. Correct: the history is in order and ends with the
  latest pose. Little else is, see the disagreements below.
* **Sinks, pool, futures.** Condition variables with several kinds of sleepers,
  and objects torn down while threads are in them. Correct: frames in order and
  in pairs, a wait is a barrier, one outcome for everybody, every wait and every
  teardown returns.

The hazards, each at its line and with the properties that would catch it, are
in `PROJECT.json`.

## 2. Modules

| module | models | depends on |
|---|---|---|
| `FrameSync` | `oxr_frame_sync.c`, for any set of waiting threads | |
| `FrameLoop` | abstract: what a running session promises about its frames | |
| `OxrSession` | `oxr_session.c`, the frame calls of `oxr_session_frame_end.c` and the guards of `oxr_api_session.c` | `FrameSync` by INSTANCE; implements `FrameLoop` |
| `MultiCompositor` | `comp_multi_compositor.c` with the part of the render loop that touches a client | |
| `NativeSession` | abstract: the order of calls a native compositor relies on | |
| `MultiSystem` | `comp_multi_system.c`: render loop, session count, client list | implements `NativeSession` |
| `AppPacer` | `u_pacing_app.c` | |
| `TimingPipeline` | `u_timing_pipeline.c` with its callers | |
| `IpcServer` | `ipc_server_process.c`, `ipc_server_per_client_thread.c` and the calls of `ipc_server_handler.c` that change what the server knows of a session | |
| `NativeCompositor` | a frame through `comp_compositor.c`, `comp_renderer.c`, `comp_target_swapchain.c` and `u_pacing_compositor.c` | |
| `Swapchain` | images of one swapchain: `oxr_swapchain.c`, `comp_swapchain.c`, `u_index_fifo.c`, the references of the multi compositor | |
| `SlamTracker` | threads and queues of `t_tracker_slam.cpp`, camera lines | |
| `UsageCounts` | the counts of feature users, in process and over IPC | |
| `LossyFifo` | abstract: what a bounded queue promises | |
| `SinkQueue` | `u_sink_queue.c` | implements `LossyFifo` |
| `StereoSinks` | `u_sink_force_genlock.c`, `u_sink_combiner.c`, `u_sink_simple_queue.c` under a frame context | |
| `WorkerPool` | `u_worker.c` | |
| `Future` | `u_future.cpp` | |
| `Threads` | the units that block threads, composed: a behaviour is one of them at work while the others stay as they are | `Future`; `WorkerPool`, `SinkQueue`, `StereoSinks` by INSTANCE |
| `Auxiliary` | the units whose state changes call by call, composed in the same way | `AppPacer`; `TimingPipeline`, `UsageCounts`, `Swapchain`, `SlamTracker`, `NativeCompositor` by INSTANCE |
| `OxrSession_proofs`, `MultiCompositor_proofs`, `MultiSystem_proofs`, `AppPacer_proofs`, `IpcServer_proofs` | theorems | the module they are named after (`MCMultiSystem` for the third), TLAPS |
| `Threads_proofs` | theorems about `Future`, `SinkQueue`, `StereoSinks`, `WorkerPool` | `Threads`, TLAPS |
| `Tracking_proofs`, `Compositor_proofs` | theorems about `UsageCounts`, `SlamTracker` and `TimingPipeline`, and about `Swapchain` and `NativeCompositor` | `Auxiliary`, TLAPS |

For TLC: `MCOxrSession` (sets of events), `MCMultiCompositor` (the module and an
instance whose fences may fail, chosen by the first state), `MCMultiSystem`
(with and without a warm start, likewise),
`MCAppPacer` (periods and leads; the loops of the pacer beside their closed
form), `MCAuxiliary` and `MCThreads` (values for the constants of `Auxiliary`
and `Threads`; `MCSpec` of `MCAuxiliary` begins the units that are not at work
in one state only, so its behaviours are some of `UnitsSpec`'s).

Operators used by no action (`BeginDiscardUncounted` and the like) are the
mutants: each stands before the definition it replaces and shows
that the property it is paired with in `PROJECT.json` can fail.

### How state and actions correspond to the code

**FrameSync.** A critical section is one action. A thread is `out` of
`oxr_frame_sync_wait_frame`, `testing` its loop, or `asleep` in
`pthread_cond_wait`; `pthread_cond_signal` moves one sleeper to `testing`, and a
sleeper may also wake spuriously.

**OxrSession.** `mpc` is the place of the application's main thread and `wpc`
that of its wait thread inside the calls; a step lies between two accesses to
shared state. `xrEndSession` is `EndSession`, `EndDiscardWaited`,
`EndDiscardBegun`, `EndCompositor`, `EndSync`; `xrBeginFrame` is `BeginFrame`,
`BeginDiscard`, `BeginCompositor`, `BeginAssign`, `BeginRelease`; `xrWaitFrame`
is `WaitFrame`, the gate, `Predict`, `Record` or `ReleaseOnError`. `state`,
`exiting`, `has_lost`, `frame_started`, `active_wait_frames`, `running` and the
frame ids have the names of the source. `events` holds the state changes the last
step pushed, `life` what the compositor was told of each frame. Builds and
environments are constants: `Headless`, `Android`, `OutOfProcess` (calls may
fail because the server is gone) and `Events`, the compositor events that occur.

**MultiCompositor.** One client. A slot holds the number of its frame, the
layers are abstracted to it. `listLock` and `slotLock` are held across steps by
the threads; the lock of the wait thread is a step. `condWaiters` is the set of
threads asleep on the one condition variable of the wait thread.
`slot_next_frame_display`, `waiting`, `blocked` and `xcf` are the source's;
fences and semaphores are the same job, and with `SyncMayFail` their import or
wait may fail; `syncFailed` remembers the unfinished frames that happened to.
The render loop is `PredictNative`, `RenderTakeList`,
`RenderTakeSlot`, `Deliver`, `Select`, `Blend`, `CommitNative`. The clock `now`
is shared by display times and waits.

**MultiSystem.** `sessionState`, `active_count` and `running` are under the
lock of the render thread (`oth`), which a step of the loop at its head takes.
A client is in `cpc[c]` of its calls; the two halves of `end_session` and
`destroy`, which are under no common lock, are two steps. The transfer of the
layers takes one client a step under `list_and_timing_lock`. `native` is the
state of the native compositor as seen by the calls made to it. Two history
variables, `lastFrame` and `lingering`, keep what the loop found when it began
its last frame and whose session was or became active since:
`ClearFrameBeforeEnd` is about that frame, and not about any frame since the
session state changed, because clients may come and go while it is drawn.

**AppPacer.** All calls are under one lock, so each is one action; the sampling
of the clock is a step of its own because it comes before the lock. Times are
integers in ticks. The filter, a weighted mean in floating point, may return
anything between the old and the new value. The callers' part is in the
guards: which frames a session has predicted, begun and delivered.

**TimingPipeline.** A mark is one action under the pipeline's mutex. In place
of host times a row records whose mark it holds, which is what the lines are
joined for. `initialized = "opening"` is the time in which the flag is set but
no writer exists. A pose query is two steps, before and after the prediction;
`xrLocateViews` makes one (`AppQuery`), and `OtherQuery` is that of anyone else,
also of the location in a base space of poses, such as VIEW.

**IpcServer.** A critical section of `global_state.lock` is one step; `joining`
is the slot whose old thread the main loop joins inside it, during which no
other step that needs the lock is enabled (`Unlocked`). `state`,
`server_thread_index` and `client_state` are the fields of a slot, `pc` where
its thread is, between two critical sections of a call or of
`common_shutdown`. `told` is the last `set_state` each compositor got, which is
what `update_server_state_locked` decides from the table. `NextPrimary`,
`MainAppVisible` and `TellLast` stand for the two loops of that function.
Deactivation and `set_active_client` may come from any client, as in
`libmonado`. `timers` are the delayed-exit tasks.

**NativeCompositor.** The render loop is `PredictFrame`, `WokeUp`, `BeginDraw`,
`Submit` or `SubmitFails`, `Present`, `EndDraw`; before each prediction
`UpdateTimings` may deliver the timing of any presented frame, also of none.
Ids follow the code: the pacer's frame counter, the target's
`current_frame_id`, and the two compositor frames `waited` and `rendering`.
Times are integers on the scale of the configuration; `walk_forward` is the
loop over periods, `AdjustedCompTime` the adaptation.

**Swapchain.** `fifo` is the index FIFO of the native swapchain, `acquired` that
of the OpenXR handle, `state` of an image what the handle keeps, `slot` the
image the frame in each slot of the multi compositor refers to. `Move` and
`Clear` are `slot_move_and_clear_locked` and `slot_clear_locked`, at any time,
because when they happen is `MultiCompositor`'s. `Collect` is the garbage
collection at the end of a draw.

**SlamTracker.** A set of images is the number of its timestamp. `vit_queue` is
the external system's queue, out of which `PopPose` takes; what follows (the
camera rows, the push into the history) are steps of their own, because the
history's lock is held for one call. `CacheRelation` and `CacheTime` are two
unlocked writes. `predict_pose` is modelled by which pose it starts from.

**UsageCounts.** `counted` of an object, `client_use` of its process,
`device_feature_used` of its client in the service and `feature_use` of the
service are changed in a step each; the call that follows a count of one or
zero is a later step. `Disconnect` is the clearing up in `common_shutdown`.

**SinkQueue, StereoSinks, WorkerPool, Future.** One mutex each: a critical
section is a step, a sleeper has the place `asleep`, a signal makes it `woken`,
and it may wake spuriously. `StereoSinks` has the list of nodes in the order
`xrt_frame_context_add` builds it, and tears it down node by node in two
rounds. In `WorkerPool` a task is its group; `worker_limit` and `released_count`
are the donation of waiting threads. In `Future` a waiter reads the atomics
after it unlocked (`ReadResult`); a result of `Failures` comes without a value.
`CallsReturn` asks of a future that every thread inside `u_future_wait` when it
is decided returns, wherever it is in there.

## 3. Runs

Violation runs check one property that a comment, an assertion or a document
states; the finding in `PROJECT.json` quotes it.

| run | shows | bounds |
|---|---|---|
| `session_ipc` | the frame loop with a compositor process that may disappear between any two steps and every event `oxr_session_poll` handles implements `FrameLoop`; a blocked `xrWaitFrame` can be released and goes on | 4 frames, fair |
| `session_android` | the order of the session states and the wakeups of the throttle where the activity stops sessions and begins them again; exit requests and visibility changes as in every build | 3 frames |
| `multi` | slots, locks, destruction; with fences that work, and with fences that fail | 3 frames (2 with failing fences), 2 display times, 2 native frames |
| `multi_live` | progress of client, wait thread and destruction | 2 frames, 2 native frames, fair |
| `multi_focus` | violation | 2 frames |
| `system` | native session, count, list of clients; sessions are served and the display stops | 2 clients, with and without a warm start, no bound on time, fair |
| `auxiliary` | pacer, timing table, feature counts, swapchain, SLAM adapter, native frame, one at a time | see below |
| `threads` | worker pool, sink queue, stereo sinks, future, one at a time: what they hand on, that no sleeping thread is forgotten, that calls return | see below, fair |
| `ipc` | slots, threads, primary application, what compositors are told, connection count, idle exit | 2 slots, 3 connections, fair |
| `ipc_reconnect` | violation | 2 slots, 3 connections, fair |
| `timing_locate` | violation | table of 2 rows, 3 frames, 4 display times, one query of others |
| `native_submit_failure` | violation | ring of 2 frames, 4 frames |

Why the bounds are enough to be interesting:

* Session: the throttle lets two frames be in flight, so a third meets both
  (discard by `xrBeginFrame`) and a fourth comes after that. The events and
  calls are not bounded.
* Multi compositor: each slot holds one frame; two frames collide in the
  scheduled slot, three fill all the slots. Failing fences and liveness are
  checked with two. The native frames bound the
  clock; the display times of the client are those of
  `DisplayTimes`; for liveness it leaves out the last native frame, behind which
  the bounded clock could not move on.
* System: with two clients the count passes 0, 1 and 2 while one comes and
  one goes; clients come and go without bound.
* Pacer (`auxiliary`): six frames go twice round a ring of three; with a period
  of 2 and 4 the application's period is extended by one and two display
  periods; a lead of -1 is a compositor that wakes after its display time.
* Timing: three frames go round a table of two rows, with two queries of
  others; the real table of 256 behaves alike, because only equality modulo the
  size matters.
* Feature counts: two clients with two objects each, the least with which both
  the first and the last of a process and those of the service differ.
* Swapchain: three images, one more than can be in use by display and
  application at a time, and the static swapchain of one.
* SLAM: three sets of two cameras, one pose query beside the camera thread; two
  threads are enough for every race of the flush, a third set for one that
  overtakes.
* Native frame: four frames in a ring of two, the thread and the present late by
  0 or 40 of a period of 50, so that a frame misses and the adaptation reaches
  its bound.
* `threads`: two workers, two users with a group each, two tasks each in an array of
  two, so that pushing meets a full array; a queue of two with four frames, so
  that frames are dropped; three exposures, so that a camera can miss one
  between two; two producers, a canceller and two waiters.
* IPC: two slots and three connections: one is refused when both are taken, or
  reuses a slot while the other client is served.

`CHECK_DEADLOCK` stays on in every run but the two of `IpcServer`, whose server
may stop for good when it is idle: elsewhere a system that has ended (session
destroyed, compositor destroyed, clock at its bound) has an explicit `Finished`
step, so every other state without a successor would be reported.

### Fairness

* `session_ipc`: weak fairness of the gate (a thread that can take the mutex of
  the throttle does) and of the main thread inside a call. No fairness of the
  application's calls: it need never begin a frame.
* `multi_live`: strong fairness of the client inside a call and of the wait
  thread, because they compete for locks with the render loop, which releases
  and retakes them for ever; the operating system's mutexes do not starve a
  waiter. Weak fairness of the render loop, the GPU and the clock.
* `system`: weak fairness of the render loop and the join, strong fairness
  of a client inside a call.
* `threads`: weak fairness of threads that can run: workers, users inside a
  call, the threads of the sinks, the thread that tears the context down, the
  second and later steps of the teardown, waiters inside a wait. Not of
  producers, cameras, spurious wakeups, or completion.
* `ipc`, `ipc_reconnect`: weak fairness of the main loop, of the thread of a
  slot inside a call or its shutdown, and of the delayed exit. Clients need
  neither call nor hang up.

### Findings

Each is the last state of a counterexample TLC prints for the run named.

* `multi_focus`: `set_state` clears `visible` and then `focused` without a lock,
  and between the two the render loop's assertion on the blend mode fails.
* `timing_locate`: `xrLocateViews` asks the tracker once. When it was answered,
  any other query for the display time of the frame, of `xrLocateSpace`, of the
  native compositor or of a device, is marked as `locate_views`, too, and moves
  it behind `predict_filter`. It is in every recording: in
  `src/runs/01_wmr_battery/display.csv` and the other tables of `src/runs` and
  `src/timing` every line has the two in that order. They do not say whose query
  it was.
* `ipc_reconnect`: `ipc_server_handle_client_connected` joins the old thread of
  a slot while it holds the global lock, which that thread needs to end. From
  then on the server accepts nobody and every other client's thread waits.
* `native_submit_failure`: after a submission that failed `frame.rendering`
  keeps its frame, and the assertions at the head of the next draw fail.

The models show further disagreements, which have no run of their own. Each
appears when the named property is checked with the named constants:

* `OxrSession`, `Android = TRUE`: `xrEndSession` does not reset
  `active_wait_frames`, so a session that begins again violates
  `AtMostTwoInFlight`; and a wait thread that was inside `xrt_comp_wait_frame`
  when the session ended leaves its frame in `frame_id.waited`, so that
  `GateOpensOnClearedId` fails in the next one.
* `OxrSession`, `OutOfProcess = TRUE`: `NoAbort` fails in `ReleaseOnError`. The
  release after a failed call "should not get an error", but does when the
  session ended meanwhile.
* `MultiSystem`, `WarmStart = TRUE`: `NativeContract` fails. A system compositor
  that is destroyed before its render thread ran ends a native session which was
  not begun.
* `MultiSystem`: `end_session` and `destroy` lower `active_count` before they
  clear `session_active` (`LeaveSession`, `ClearActive`), and a client may begin
  a session while the frame is drawn. So `StoppingIsClear` fails: the frame of
  `STOPPING`, which `comp_multi_private.h` calls a clear one, can have the layers
  of either. `ClearFrameBeforeEnd` says which clients it cannot have.
* `AppPacer`: `aborted` is reachable. A frame keeps its slot until the GPU is
  done with it, and frames that are begun and discarded meanwhile bring the
  counter round the ring; `AbortsOnlyWhenLapped` says that nothing else does. The
  larger ring of the code makes the assertion rarer, not impossible.
* `TimingPipeline` with two sessions, one after the other (`Concurrent = 1`):
  `PresentedIsWritten` fails, because the ids begin at 1 again and find rows that
  are written out already; with `Concurrent = 2` `JoinKeyIsAFrame` fails, because
  a row mixes two frames with one id. With `Ahead = TRUE` (a query for a time
  that is only later given to a frame) `WaitBridgesTheTwo` fails. Recordings of a
  single application are not affected by these.
* `SlamTracker`: `EveryPoseIsUsed` fails: `flush_poses` says "Dequeue all
  tracked poses from the SLAM system and update prediction data with them", but
  of two poses that two threads popped the older may come second, and the
  history refuses it;
  `AnswerIsForItsTime` fails, because the cached relation and its time are
  written one after the other; `TimingBeforePose` fails: the timing of a camera
  is recorded when its image has been pushed already, so the pose may be flushed
  first and the row is lost; and the map it is recorded in is
  shared without a lock. Besides, the first flush reads a latest timestamp
  nothing has written, and the cached answer is returned without
  `override_tracking`.
* `NativeCompositor`: `LatestIsMostRecent` fails. `get_latest_frame_with_state_at_least`,
  which "gets the most recent frame data", begins at `next_frame_id - 1`, but
  `next_frame_id` is the newest frame. `comp_time_max` bounds the growth of `comp_time` in one of the two
  branches that grow it.
* `IpcServer`: `NoFreedCompositorUsed` fails, because a client's compositor is
  destroyed outside the lock while another thread tells it its new state. With
  `Recreate = TRUE` `ToldIsState` fails: a second session of a client that is
  already primary is told nothing. `IdleAlwaysStops` fails: `connected_client_count`
  counts connections that are refused and those whose shared memory could not be
  had, and these are never taken off, so a server that had one never counts itself
  idle, although `IPC_EXIT_WHEN_IDLE` is "to stop the runtime when no clients are
  connected" (`doc/CHANGELOG.md`); `IdleServerStops` is about the others. A slot
  whose shared memory could not be had stays in `STARTING`. A delayed exit that was started before a client came and went
  may stop the server earlier than its delay.
* `UsageCounts`: `UsedIsBegun` fails. A first use that begins while the last
  one ends may reach the device before it, and the feature stays ended while a
  client uses it; `xrt_system.h` describes a feature that is used as begun.
* `Swapchain`: `WaitedIsExclusive` fails: nothing makes `xrWaitSwapchainImage`
  wait for the render loop, which may still draw the image.
* `WorkerPool`: with two users on one group `ReleasedIsDone` and `CallsReturn`
  fail: a donated thread may take away the release of another.
* Comments: `u_sink_queue.c` says that a full queue drops the new frame, and it
  drops the oldest; `u_sink_force_genlock.c` "shouldn't ever drop frames", but
  does when one camera misses an exposure, and compares with a last timestamp
  that is never assigned; `comp_compositor.c` asserts
  `view_count == 1 && view_count == 2`; `u_space_overseer.c` tests
  `can_do_local_spaces_recenter` the wrong way round twice; the branch for
  `NOT_READY` in `oxr_future.c` cannot be reached.
* Comments: the slot comment says that only the render loop touches `delivered`,
  but `discard_frame` retires it on the client's thread (`DiscardFrame`), and
  that only the client touches `progress`, but the wait thread moves it;
  `multi_compositor_deliver_any_frames` says "at or after" where it compares for
  at or before; `MULTI_SYSTEM_STATE_STOPPING` is described with "has not yet
  called `xrt_comp_begin_session`".

## 4. Proofs

Checked by TLAPS for all values of the constants; the assumptions on constants
(`ConstantsAssumption` in each module) are evaluated by TLC in the runs.

* **`OxrSession_proofs`.** `TypeCorrect`; `UsesFrameSync`, that every step of the
  session is a step of `FrameSync` or leaves it unchanged, and from an
  invariant of `FrameSync` alone `NeverLostWakeup`. For builds other than
  Android (`ASSUME Android = FALSE`) `FrameLoopInvariant`: `FrameInv` is
  inductive. It strengthens `AtMostTwoInFlight` by an equation between the count
  and the places of both threads (`Counted`), what the gate implies about
  `frame_id.waited` (`Throttle`), what holds inside each call (`InsideCalls`),
  and that a session that stopped is exiting, so it never begins again
  (`StoppingExits`). `TwoInFlight` and `GateIsSafe` follow. On Android both are
  false.

  `FramesAreKnown` adds `LifeInv`, which relates the session's ids to what the
  compositor knows of the frames: each id names a frame in the state its next
  call asserts, and no open frame is without a name (`Lives`); compositor
  sessions begin and end in turn (`InTurn`); ids are handed out in order
  (`HandedInOrder`). It needs `FrameInv`: that a second frame is not predicted
  while the first one's id would be overwritten is the gate's doing. From it
  `NothingForgotten`, `AssertionsHold` (`OnlyReleaseAborts`: the one assertion of
  the code that can fail is that of `ReleaseOnError`, see the disagreements
  above) and `RefinesFrameLoop`: the session implements `FrameLoop`, each step a
  step of it or a stutter, with the ids read off `life`.

  `StatesInOrder` holds for every build. Its invariant `OrderInv` ties
  `has_ended_once` to the states after the first frame. It assumes the events
  the multi compositor sends, and `~Headless`: a headless session that is asked
  to exit twice is told `SYNCHRONIZED` after `STOPPING`, because
  `oxr_session_request_exit` takes `!has_ended_once` for "no frame yet"
  (`oxr_session.c:480`), and a headless session ends no frame.
* **`MultiCompositor_proofs`.** `SlotsInvariant`, for any number of frames,
  display times and ticks, with fences that work and fences that fail. The
  types and the asserts are not inductive; what they need is who holds a lock
  at which place (`LocksHeld`), that the client leaves the list before its wait
  thread is stopped and joined (`Teardown`), what the two threads tell each
  other (`HandOver`) and that the frame in progress has one user
  (`ProgressUse`). `LifeInv` ties the pacer's belief about each frame to the
  slot it is in. `IdsInOrder` says that an older frame is never behind a
  younger one in the pacer; without it `SlotsInOrder` (latched, delivered,
  scheduled, progress) is not kept when progress is filled. `WaitedFor` needs
  the order of the teardown: a wait thread that is being stopped does hand over
  frames it did not wait for, but by then the render loop cannot reach them.
  `NobodySleepsInVain` is about the one condition variable of the client and the
  wait thread, which are woken by a signal to whichever sleeps: the two never
  sleep at once, so that the signal cannot go to the wrong one. From all this
  follow `SlotsSafe`, the whole of what the run checks of the slots,
  `LatchedWereFinished` and `ShownInOrder`.
* **`MultiSystem_proofs`.** `SystemInvariant`: the count equals the sessions
  between their two calls, the loop sleeps only when it is zero, the native
  session follows the loop's state and place (`NativeFollowsState`), in
  `STOPPING` the last frame was begun without sessions and shows nobody whose
  session was over by then (`LastFrameKnown`), and the clients being transferred
  are in the list. From it `NeverSleepsThroughASession`,
  `CountIsExact`, `TransferIsSafe`, `ClearFrameFirst`, and
  `DrivesNativeSession`: without a warm start the module implements
  `NativeSession`, step by step. `DrivesFromColdStart` says it of the system of
  the run `system`, whose first state chooses between a warm start and a cold
  one: the contract is kept whenever the start was cold.
* **`AppPacer_proofs`.** `AdvanceCorrect` says what the loops of the pacer
  compute, for every start, bound and step. `PacerInvariant` adds to the types
  that stamps are in order (so the times fed into the filters are not
  negative), that every frame in the ring was predicted and not after the last
  one, and that the slot of the sleeping frame is its own. From it `TypeCorrect`,
  `DisplaysInOrder` and `WakesForItsFrame`.

  `SoonestIsPredicted`: what `pa_predict` returns is a time of the display,
  leaves room for the work, and is the first such time after the frame before.
  The argument is about steps: the application's period is a whole multiple of
  the display's, the loops add whole application periods to a time that is on
  the grid of the native compositor, and they stop at the first that fits, so
  that no time of the grid is jumped over but by the period itself.

  `OnlyALapAborts`: the assertion of `pa_predict` that its slot is free fails
  only when the frames went round the ring. `RingInv` is what it needs: until an
  assertion fails a frame is in the slot of its id and less than a round old,
  the latest waits or is begun, and the one before is begun until then. It
  assumes `FrameCount > 1` (the code has 128): in a ring of one the next
  frame would meet one that is only begun.

  `PredictsByItsLoops` ties the closed forms of the module to the loops of
  `u_pacing_app.c`, whose iterates `MCAppPacer` writes out (`LoopResult`): a loop
  of the form `while (val <= bound) val += step` stops at `Advance` and nowhere
  else (`LoopIsAdvance`), and the three loops of `calc_app_period` one after the
  other end where a single one to the longest of the three parts does
  (`LoopAfterLoop`).
* **`IpcServer_proofs`.** `ServerInvariant`, for any number of slots and
  connections, is the conjunction of five parts, each kept by every action on
  the strength of the others: `SlotInv` (a slot's state, its thread, the place
  of the thread and the compositor go together), `CompositorInv`, `CountInv`
  (the counter is the connections that hold a slot, wait for one or were
  turned away), `PrimaryInv` and `TypeOK`. From it `CountIsRight`,
  `PrimaryIsRight` and `SlotsAreExclusive`. `ToldIsRight` adds `ToldInv`, what
  a compositor was told while its session is between two calls, and assumes
  `~Recreate`, without which it is false.
* **`Threads_proofs`.**
  * Future: `FutureInvariant`: before the decision nobody was told anything, and
    what any thread was told afterwards is that decision; `OneOutcomeForAll`.
  * Sink queue: `QueueInvariant`, and `QueueIsFifo`: every step of the queue is a
    step of `LossyFifo` with `held`, `offered`, `out` and `stopped` read off the
    queue.
  * Stereo sinks: `PairsStayTogether`. `TeardownInv` says how far
    `xrt_frame_context_destroy_nodes` is and which threads are gone by then;
    `PairInv` follows one exposure through genlock, combiner and queue: between
    the two pushes of a pair the left half waits in the combiner, and nothing
    later in the chain is younger. `ConsumedInOrder` is what the run checks.
  * Worker pool: `TasksCounted`, for any number of threads that share a group:
    the two counters of a group are the cardinalities of its tasks in the array
    and in the hands of workers. From it `Barrier` and `WaitingIsABarrier`.
    `PoolSafe` also has the limit of workers equal to the initial one plus the
    donors (`LimitInv`) and the count of working threads within it (`BusyInv`),
    and no assertion failing. It assumes that each group has one thread
    (`OneUserEach`), as every caller of the repository has it; with two it is
    false, see the disagreements above.
  * Nobody sleeps in vain: `NobodySleepsInVain` says of the four units what
    `NoSleeperForgotten` checks, the part of "every call returns" that the code
    and not the scheduler is responsible for. In the future and the sinks a
    thread sleeps only while what it waits for is missing. In the pool that is
    not enough, because a worker is signalled one at a time and only within the
    limit. `PoolForgetsNobody` rests on `WorkersServed` (while the pool runs a
    task the limit allows has a worker on its way, or none sleeps; after that
    each worker that ends wakes another) and `UsersServed` (who waits has tasks
    left or was released). A thread asleep in `wait_all` has therefore a worker
    awake: its own place raises the limit above zero, so either some worker is
    busy or the limit allows one. It assumes `Workers # {}`, since
    `u_worker_thread_pool_create` does not refuse a pool of no threads and
    nobody would run its tasks.
* **`Tracking_proofs`.**
  * Feature counts: `UsageInvariant`. An atomic count is not the number of users:
    between the count and the call that follows it a client is in the one and
    not in the other. The invariant says exactly which clients `feature_use`
    counts (`InUse`) and gives a lower bound for each `client_use` (`Using`); from
    it `UnusedStaysEnded` and `FeatureEnds`.
  * SLAM adapter: `SlamInvariant`. Every pose the system computed and nobody has
    thrown away waits in its queue, is in the hands of a thread that flushes, or
    is no younger than the last one of the history (`Accounted`), which is in
    order; `HistoryStaysCurrent` and `HistoryEndsWithLatest` follow.
  * Timing pipeline: `TimingLines`: every frame that was presented has one line in
    `display.csv`, with the marks of that frame and no others, whatever the
    length of the session, the display times and the queries of others. None of
    this is inductive, because a line is written from a row that two calls
    found by different keys, the id and the display time. `TimingInv` says what
    of the table is needed. `TurnInv`: at most two frames are in flight, with
    successive ids and increasing times, and a call inside a frame asks for the
    time of the frame it renders. `BoundsInv`: no row, mark or query is ahead of
    the last frame. `RowInv`: the row of a frame in flight holds the marks made
    for it and no others, no other row has its display time, and its pose was
    computed unless the question is still open. `CsvInv` is the property for
    the lines written so far. Two frames in flight are in different rows because
    `RowCount > 1`.
* **`Compositor_proofs`.**
  * Swapchain: `SwapchainInvariant`. `ImagesInv`: the state of an image says in
    which of the FIFO, the acquired ones and the hand of the application it is,
    none is twice in a FIFO, and the lengths add up to the number of images.
    `ReferencesInv`: garbage is what neither handle nor slot refers to, and only
    garbage that is not drawn is freed. `ImagesAccounted` and `NoImageIsLost`.
  * Native frame: `FrameInvariant`, with any ring, period, delays and times: the
    frame being made is the newest one, has its own slot of the pacer's ring in
    the state the next call asserts, and every presented frame the ring still
    has waits for its timing (`StageInv`). After a submission that failed only
    `PlaceInv` and the types are left. `FramesPass` and `NoAssertionFails`.

The modules of the last three are made of instances, and the theorems are first
stated of one unit (`Pool!Spec`, `Usage!Spec`) and then carried over: while another
unit is at work a unit stutters (`EachAtWork`), so what `UnitsSpec` allows is a
behaviour of each. An instance has operators of its own for those of
`FiniteSets`; `SameSets`, `UsageSets`, `ImagesSets` and `TimingSets` say that they are the
same.

Beyond the ranges of the constants the assumptions are these:
`"camera" \notin Locators`, because the thread of the camera driver is one more thread beside
those that ask for poses; `"native" \notin Sessions`, for the same reason (the
native compositor asks for poses on a thread of its own); `FrameCount > 1` and
`RowCount > 1`, where the code has 128 and 256; and the
hypotheses named above (`Android = FALSE`, `~Headless`, `~Recreate`, no warm start,
`OneUserEach`), each with the run or the disagreement that shows why it is
needed; and `Workers # {}`, a pool with at least one thread. `TimingLines` assumes one session and `~Ahead` (nobody asks for a time
that is only later given to a frame): with a second session, or ahead of the
frames, the property is false, see the disagreements above.

Model-checked only, because liveness under fairness is out of the prover's reach:

* `WaitFrameReturns`, `BlockedIsReleased`, `DestroyReturns`, `CommittedMovesOn`,
  `RenderThreadServes`, `CallsReturn`, `PairIsConsumed` and `IdleServerStops`;
* that the queue passes its frames on in the end and can be broken apart:
  `ImplementsLossyFifo` has the fairness of `LossyFifo` and `BreakApartReturns`
  beside its steps, and `QueueIsFifo` is about the steps.

What is proved of them is that no thread misses its wake-up: `NeverLostWakeup`,
`NeverSleepsThroughASession`, `SlotsSafe` and `NobodySleepsInVain`. Every other
property that a passing run checks is a theorem.

## 5. Not modelled

The models cover the parts of the program whose state several threads,
processes or calls share, on the way of a frame and around it. Most of the
repository by size is something else, and is left out for these reasons:

* device drivers, the prober and the USB and file I/O of the WMR driver and the
  EuRoC player: sequential translation of hardware protocols, whose correctness
  is about bytes, not steps;
* numerical code: layer contents, rendering, poses, filters, the SLAM
  prediction, and the offline harness, whose functions keep no state;
* the marshalling of IPC calls, generated from `proto.json`, and the handlers
  that only pass an argument on;
* the tables of input bindings and the space graph, which are resolved or
  evaluated sequentially under one lock;
* validation of the arguments of the API, and the quirk that makes
  `xrEndSession` a no-op;
* vendored libraries.

Inside the modelled parts: `u_timing_pipeline_shutdown`, which nothing calls;
the destruction order of the IPC server (the models assume that clients are
gone before the system compositor is destroyed, as `xrt_compositor.h` asks,
while `teardown_all` does not wait for the client threads). Memory ordering
is sequential, except that unlocked accesses are separate steps. In a build
where the application runs in a process of its own, `xrLocateViews` marks that
process's table, and only the tracker's marks reach the service's; the module
models the runtime in one process.

## 6. Plan

Done in this order: `FrameSync`, `OxrSession`, `MultiCompositor`, `MultiSystem`,
`AppPacer`, `TimingPipeline`; then the sinks, the pool and the future;
`Swapchain`, `UsageCounts`, `SlamTracker`, `NativeCompositor`, `IpcServer`, each
with its runs before the next.

Next:

1. The composition of the two pacers, whose interface here is any period and
   lead, and of `IpcServer` with the list of clients in `MultiSystem`.
2. The reference counts of swapchains shared between processes, and the event
   queue of a client of the multi compositor.
3. Theorems about these compositions, on the invariants of their parts.
