--------------------------- MODULE NativeCompositor ---------------------------
(***************************************************************************)
(* The native compositor's frame, from prediction to presentation          *)
(* (compositor/main/comp_compositor.c, comp_renderer.c and                 *)
(* comp_target_swapchain.c), with the pacer that is told of every point of *)
(* it (auxiliary/util/u_pacing_compositor.c).  One thread, the render loop *)
(* of the multi compositor, does everything; the presentation engine       *)
(* reports the timing of presented frames late, or never.                  *)
(***************************************************************************)
EXTENDS Integers, FiniteSetsExt

CONSTANTS
  NumFrames,        \* NUM_FRAMES, the frames the pacer remembers
  Period,           \* frame_period_ns, and the times that follow
  PresentToDisplay, Margin,
  CompTime, CompTimeMax, AdjustMissed, AdjustNonMiss,
  Slop,             \* half a millisecond, or U_TIME_HALF_MS_IN_NS
  MaxFrames,        \* bound: frames the pacer hands out
  Late,             \* how late the thread may wake up or a frame be presented
  SubmitMayFail     \* vk_cmd_submit_locked may return an error

ConstantsAssumption ==
  /\ {NumFrames, Period, Slop} \subseteq Nat \ {0}
  /\ {PresentToDisplay, Margin, CompTime, CompTimeMax, AdjustMissed,
      AdjustNonMiss, MaxFrames} \subseteq Nat
  /\ Late \subseteq Nat
  /\ SubmitMayFail \in BOOLEAN

VARIABLES
  frames, next_frame_id, comp_time,   \* struct pacing_compositor
  current_frame_id,                   \* struct comp_target_swapchain
  waited, rendering,                  \* comp_compositor::frame, by id
  place,                              \* of the render loop
  presented,                          \* frames whose timing is yet to come
  now,
  submit_failed,                      \* history: vk_cmd_submit_locked failed
  aborted                             \* an assertion failed

pacerVars == <<frames, next_frame_id, comp_time>>
frameVars == <<waited, rendering>>
vars == <<pacerVars, current_frame_id, frameVars, place, presented, now,
          submit_failed, aborted>>

SKIPPED == -1    CLEARED == 0     PREDICTED == 1   WOKE == 2
BEGAN == 3       SUBMITTED == 4   INFO == 5

Ids == 1 .. MaxFrames
Invalid == -1
Slots == 0 .. NumFrames - 1

Frames == [frame_id : Ids \union {0}, state : CLEARED .. INFO,
           desired : Nat, display : Nat, earliest : Nat]

TypeOK ==
  /\ frames \in [Slots -> Frames]
  /\ next_frame_id \in 0 .. MaxFrames /\ comp_time \in Int
  /\ current_frame_id \in Ids \union {Invalid}
  /\ {waited, rendering} \subseteq Ids \union {Invalid}
  /\ {submit_failed, aborted} \subseteq BOOLEAN
  /\ place \in {"predict", "sleep", "draw", "render", "present", "presented"}
  /\ presented \subseteq Ids
  /\ now \in Nat

\* u_pc_display_timing_create
Init ==
  /\ frames = [s \in Slots |-> [frame_id |-> 0, state |-> CLEARED, desired |-> 0,
                                display |-> 0, earliest |-> 0]]
  /\ next_frame_id = 0 /\ comp_time = CompTime
  /\ current_frame_id = Invalid
  /\ waited = Invalid /\ rendering = Invalid
  /\ place = "predict" /\ presented = {} /\ now = 1
  /\ submit_failed = FALSE /\ aborted = FALSE

-----------------------------------------------------------------------------
(* The pacer: u_pacing_compositor.c. *)

get_frame(id) == frames[id % NumFrames]

\* The ids get_latest_frame_with_state_at_least looks at.
Recent == {id \in Ids : /\ id < next_frame_id
                        /\ id > next_frame_id - NumFrames}

WithStateAtLeast(state) ==
  {id \in Recent : get_frame(id).frame_id = id /\ get_frame(id).state >= state}

get_latest(state) ==
  LET found == WithStateAtLeast(state)
  IN  IF found = {} THEN Invalid ELSE Max(found)

calc_total_comp_time == comp_time + Margin

\* walk_forward_through_frames: the first present time in step with the last
\* one that leaves time to render.
walk_forward(last_present) ==
  LET from == now + calc_total_comp_time
      periods == CHOOSE k \in 1 .. Max({1, from - last_present + 1}) :
                   /\ last_present + k * Period > from
                   /\ k = 1 \/ last_present + (k - 1) * Period <= from
  IN  last_present + periods * Period

\* predict_next_frame, the choice of the present time.
DesiredPresent ==
  LET predicted == get_latest(PREDICTED)
      completed == get_latest(INFO)
  IN  CASE predicted = Invalid -> now + 10 * Period
        [] predicted # Invalid /\ completed = predicted ->
             walk_forward(get_frame(completed).earliest)
        [] completed \notin {Invalid, predicted} ->
             walk_forward(get_frame(completed).earliest
                          + (predicted - completed) * Period)
        [] predicted # Invalid /\ completed = Invalid ->
             walk_forward(get_frame(predicted).display)

\* pc_mark_point, for a frame the pacer still remembers.
Mark(id, from, to) ==
  IF get_frame(id).frame_id # id
  THEN UNCHANGED <<frames, aborted>>
  ELSE /\ frames' = [frames EXCEPT ![id % NumFrames].state = to]
       /\ aborted' = (get_frame(id).state # from)

Within(l, r, range) == -range < l - r /\ l - r < range

\* adjust_comp_time
AdjustedCompTime(desired, actual, margin) ==
  CASE actual > desired /\ ~Within(actual, desired, Slop) ->
         Min({comp_time + AdjustMissed, CompTimeMax})
    [] (actual <= desired \/ Within(actual, desired, Slop))
       /\ Within(margin, Margin, AdjustNonMiss) -> comp_time
    [] OTHER -> IF margin > Margin THEN comp_time - AdjustNonMiss
                                   ELSE comp_time + AdjustNonMiss

\* Mutant of Remembered: any frame in the slot will do.
InSlot(id) == TRUE

Remembered(id) == get_frame(id).frame_id = id

\* pc_info
info(id, actual, margin) ==
  LET f == get_frame(id)
  IN  IF ~Remembered(id)
      THEN UNCHANGED <<frames, comp_time, aborted>>
      ELSE /\ aborted' = (f.state # SUBMITTED)
           /\ frames' = [frames EXCEPT ![id % NumFrames].state = INFO,
                                       ![id % NumFrames].earliest = actual]
           /\ comp_time' = AdjustedCompTime(f.desired, actual, margin)

-----------------------------------------------------------------------------
(* The frame. *)

At(p) == ~aborted /\ place = p

\* comp_target_update_timings: before a frame is predicted, twice while it is
\* drawn, and after it was presented.
UpdateTimings ==
  /\ ~aborted /\ place \in {"predict", "render", "presented"}
  /\ \E id \in presented, late \in Late, margin \in {0, 2 * Margin} :
       /\ info(id, get_frame(id).desired + late, margin)
       /\ presented' = presented \ {id}
  /\ UNCHANGED <<next_frame_id, current_frame_id, frameVars, place, now, submit_failed>>

\* compositor_predict_frame
PredictFrame ==
  LET id == next_frame_id + 1
  IN  /\ At("predict") /\ next_frame_id < MaxFrames
      /\ aborted' = (waited # Invalid)
      /\ next_frame_id' = id /\ current_frame_id' = id /\ waited' = id
      /\ frames' = [frames EXCEPT ![id % NumFrames].frame_id = id,
                                  ![id % NumFrames].state = PREDICTED,
                                  ![id % NumFrames].desired = DesiredPresent,
                                  ![id % NumFrames].display =
                                     DesiredPresent + PresentToDisplay]
      /\ place' = "sleep"
      /\ UNCHANGED <<comp_time, rendering, presented, now, submit_failed>>

\* wait_frame of the multi compositor, and compositor_mark_frame.
WokeUp ==
  /\ At("sleep")
  /\ Mark(waited, PREDICTED, WOKE)
  /\ \E late \in Late :
       now' = Max({now, get_frame(waited).desired - calc_total_comp_time}) + late
  /\ place' = "draw"
  /\ UNCHANGED <<next_frame_id, comp_time, current_frame_id, frameVars,
                 presented, submit_failed>>

\* comp_renderer_draw up to the first use of the target.  Where that is not
\* ready the submission is only marked.
BeginDraw ==
  /\ At("draw")
  /\ LET f == get_frame(waited)
         ok == waited # Invalid /\ rendering = Invalid /\ f.state = WOKE
     IN  /\ aborted' = ~ok
         /\ waited' = Invalid
         /\ \/ /\ rendering' = waited /\ place' = "render"
               /\ frames' = [frames EXCEPT ![waited % NumFrames].state = BEGAN]
            \/ /\ rendering' = Invalid /\ place' = "predict"
               /\ frames' = [frames EXCEPT ![waited % NumFrames].state = SUBMITTED]
  /\ UNCHANGED <<next_frame_id, comp_time, current_frame_id, presented,
                 now, submit_failed>>

\* dispatch_graphics or dispatch_compute: "we have now completed the submit,
\* even if we failed".
Submit ==
  /\ At("render")
  /\ Mark(rendering, BEGAN, SUBMITTED)
  /\ place' = "present"
  /\ UNCHANGED <<next_frame_id, comp_time, current_frame_id, waited, rendering,
                 presented, now, submit_failed>>

\* The error is returned to the render loop, which does not look at it.
SubmitFails ==
  /\ SubmitMayFail /\ At("render")
  /\ \/ Mark(rendering, BEGAN, SUBMITTED)
     \/ UNCHANGED <<frames, aborted>>
  /\ submit_failed' = TRUE
  /\ place' = "predict"
  /\ UNCHANGED <<next_frame_id, comp_time, current_frame_id, waited, rendering,
                 presented, now>>

\* Mutant of Present: the rendered frame is not cleared.
PresentKeepingFrame ==
  /\ At("present")
  /\ \/ presented' = presented \union {current_frame_id}
     \/ UNCHANGED presented
  /\ now' = Max({now, get_frame(rendering).desired})
  /\ place' = "presented"
  /\ UNCHANGED <<pacerVars, current_frame_id, waited, rendering, aborted, submit_failed>>

\* renderer_present_swapchain_image, and the wait for it; what is not
\* presented is not reported.
Present ==
  /\ At("present")
  /\ \/ presented' = presented \union {current_frame_id}
     \/ UNCHANGED presented
  /\ rendering' = Invalid
  /\ now' = Max({now, get_frame(rendering).desired})
  /\ place' = "presented"
  /\ UNCHANGED <<pacerVars, current_frame_id, waited, aborted, submit_failed>>

EndDraw ==
  /\ At("presented")
  /\ place' = "predict"
  /\ UNCHANGED <<pacerVars, current_frame_id, frameVars, presented, now, aborted, submit_failed>>

Finished ==
  /\ aborted \/ (place = "predict" /\ next_frame_id = MaxFrames)
  /\ UNCHANGED vars

Next ==
  \/ UpdateTimings
  \/ PredictFrame \/ WokeUp \/ BeginDraw
  \/ Submit \/ SubmitFails \/ Present \/ EndDraw
  \/ Finished

Spec == Init /\ [][Next]_vars

-----------------------------------------------------------------------------
(* As long as every submission succeeds no assertion fails: a frame passes  *)
(* through its states in order, although the timing of one may come when    *)
(* its slot of the pacer has been reused, and no two are drawn at once.     *)
FramePassesInOrder == aborted => submit_failed

(* comp_renderer.c:1030, "assert(comp_frame_is_invalid_locked(              *)
(* &c->frame.rendering))": no frame is being rendered when one is begun.    *)
NoAbort == ~aborted

(* Does not hold: the search begins at next_frame_id - 1, which skips the   *)
(* newest frame.                                                            *)
(* u_pacing_compositor.c: "Gets the most recent frame data whose state is   *)
(* greater than or equal to @p state, if any".                              *)
LatestIsMostRecent ==
  \A state \in PREDICTED .. INFO :
    \A s \in Slots :
      frames[s].state >= state => get_latest(state) >= frames[s].frame_id
=============================================================================
