----------------------------- MODULE AppPacer -----------------------------
(***************************************************************************)
(* The pacer of one application                                            *)
(* (src/monado/src/xrt/auxiliary/util/u_pacing_app.c): it predicts when a  *)
(* frame will be displayed, tells the application when to wake up for it,  *)
(* follows the frame through a ring of FRAME_COUNT slots and learns from   *)
(* it how long the application takes.                                      *)
(*                                                                         *)
(* Every call is made under list_and_timing_lock and is one step.  The     *)
(* clock is read before the lock is taken, so pa_predict may work with a   *)
(* time that has passed.  Times are in ticks; the debug options have their *)
(* defaults.                                                               *)
(***************************************************************************)
EXTENDS Integers, FiniteSets

CONSTANTS
  FrameCount,   \* FRAME_COUNT, the slots of the ring
  MinAppTime,   \* min_app_time_ms
  Margin,       \* min_margin_ms
  Periods,      \* the periods the native compositor reports
  Leads,        \* how far ahead of its wake up it displays (extra_ns)
  MaxFrames,    \* bound: frames predicted
  MaxNow        \* bound: the clock

ASSUME ConstantsAssumption ==
  /\ FrameCount \in Nat \ {0}
  /\ MinAppTime \in Nat /\ Margin \in Nat
  /\ Periods \subseteq Nat \ {0} /\ Periods # {}
  /\ Leads \subseteq Int
  /\ MaxFrames \in Nat /\ MaxNow \in Nat

VARIABLES
  frames,         \* pacing_app::frames
  frame_counter,
  last_returned,  \* last_returned_ns
  app,            \* the estimated cpu, draw and gpu times
  last_input,     \* what pa_info was last told
  now,            \* os_monotonic_get_ns
  sampled,        \* the time the wait thread read for pa_predict
  wake_up,        \* when u_wait_until of the wait thread returns
  wpc,            \* where the wait thread is
  aborted         \* an assert() failed

vars == <<frames, frame_counter, last_returned, app, last_input, now, sampled,
          wake_up, wpc, aborted>>

Ready == [frame_id |-> -1, state |-> "READY", display |-> 0,
          woke |-> 0, begin |-> 0, delivered |-> 0]

FrameStates == {"READY", "PREDICTED", "WAIT_LEFT", "BEGUN", "DELIVERED"}

FrameRecords ==
  [frame_id: Nat \union {-1}, state: FrameStates, display: Int,
   woke: Nat, begin: Nat, delivered: Nat]

Slots == 0 .. FrameCount - 1

TypeOK ==
  /\ frames \in [Slots -> FrameRecords]
  /\ frame_counter \in Nat
  /\ last_returned \in Int
  /\ app \in [cpu: Nat, draw: Nat, gpu: Nat]
  /\ last_input \in [display: Int, period: Periods, extra: Int]
  /\ now \in Nat /\ sampled \in Nat /\ wake_up \in Int
  /\ wpc \in {"idle", "predict", "sleep"}
  /\ aborted \in BOOLEAN

\* pa_create, and the pa_info that multi_compositor_create adds.
Init ==
  /\ frames = [s \in Slots |-> Ready]
  /\ frame_counter = 0
  /\ last_returned = 0
  /\ app = [cpu |-> 1, draw |-> 1, gpu |-> 0]
  /\ \E p \in Periods, lead \in Leads :
       last_input = [display |-> 0, period |-> p, extra |-> lead]
  /\ now = 0 /\ sampled = 0 /\ wake_up = 0
  /\ wpc = "idle"
  /\ aborted = FALSE

-----------------------------------------------------------------------------
(* Pacing. *)

\* Mutant of Advance: stops at the bound.
AdvanceTo(val, bound, step) ==
  IF val > bound THEN val
  ELSE val + step * ((bound - val + step - 1) \div step)

\* while (val <= bound) val += step;
Advance(val, bound, step) ==
  IF val > bound THEN val
  ELSE val + step * ((bound - val) \div step + 1)

total_app_time ==
  LET total == app.cpu + app.draw + app.gpu
  IN  IF total < MinAppTime THEN MinAppTime ELSE total

total_app_and_compositor_time == total_app_time + Margin + last_input.extra

\* The display period, extended until each part of a frame fits into it.
calc_app_period ==
  LET display_period == last_input.period
      fitting(time, period) == Advance(period, time - 1, display_period)
  IN  fitting(app.gpu, fitting(app.draw, fitting(app.cpu, display_period)))

\* Mutant of predict_display_time: the time for the work comes first.
predict_display_time_swapped(now_ns) ==
  Advance(Advance(last_input.display, now_ns + total_app_and_compositor_time,
                  last_input.period),
          last_returned + calc_app_period \div 2,
          calc_app_period + last_input.period)

\* After the last predicted time, with time left for the work of the frame.
predict_display_time(now_ns) ==
  LET after_last == Advance(last_input.display,
                            last_returned + calc_app_period \div 2,
                            calc_app_period)
  IN  Advance(after_last, now_ns + total_app_and_compositor_time,
              last_input.period)

-----------------------------------------------------------------------------
(* The ring. *)

\* GET_INDEX_FROM_ID
Index(frame_id) == frame_id % FrameCount

InState(S) == {s \in Slots : frames[s].state \in S}

\* The clock is read, then list_and_timing_lock is waited for.  The session
\* has no other frame between xrWaitFrame and xrBeginFrame.
SampleNow ==
  /\ wpc = "idle"
  /\ frame_counter < MaxFrames
  /\ InState({"PREDICTED", "WAIT_LEFT"}) = {}
  /\ sampled' = now
  /\ wpc' = "predict"
  /\ UNCHANGED <<frames, frame_counter, last_returned, app, last_input, now,
                 wake_up, aborted>>

\* Mutant of Predict: the predicted time is not remembered.
PredictForgets ==
  LET frame_id == frame_counter + 1
      slot == Index(frame_id)
      display == predict_display_time(sampled)
  IN  /\ wpc = "predict"
      /\ frame_counter' = frame_id
      /\ wake_up' = display - total_app_and_compositor_time
      /\ IF frames[slot] = Ready
         THEN /\ frames' = [frames EXCEPT ![slot] =
                   [Ready EXCEPT !.frame_id = frame_id, !.state = "PREDICTED",
                                 !.display = display]]
              /\ UNCHANGED aborted
         ELSE aborted' = TRUE /\ UNCHANGED frames
      /\ wpc' = "sleep"
      /\ UNCHANGED <<last_returned, app, last_input, now, sampled>>

\* pa_predict
Predict ==
  LET frame_id == frame_counter + 1
      slot == Index(frame_id)
      display == predict_display_time(sampled)
  IN  /\ wpc = "predict"
      /\ frame_counter' = frame_id
      /\ last_returned' = display
      /\ wake_up' = display - total_app_and_compositor_time
      /\ IF frames[slot] = Ready
         THEN /\ frames' = [frames EXCEPT ![slot] =
                   [Ready EXCEPT !.frame_id = frame_id, !.state = "PREDICTED",
                                 !.display = display]]
              /\ UNCHANGED aborted
         ELSE aborted' = TRUE /\ UNCHANGED frames
      /\ wpc' = "sleep"
      /\ UNCHANGED <<app, last_input, now, sampled>>

\* pa_mark_point(WAKE_UP), once u_wait_until returns.
WakeUp ==
  /\ wpc = "sleep"
  /\ now >= wake_up
  /\ LET slot == Index(frame_counter)
     IN  /\ aborted' = (frames[slot].frame_id # frame_counter
                          \/ frames[slot].state # "PREDICTED")
         /\ frames' = [frames EXCEPT ![slot].state = "WAIT_LEFT",
                                     ![slot].woke = now]
  /\ wpc' = "idle"
  /\ UNCHANGED <<frame_counter, last_returned, app, last_input, now, sampled,
                 wake_up>>

FrameUnchanged ==
  UNCHANGED <<frame_counter, last_returned, last_input, now, sampled, wake_up,
              wpc, aborted>>

\* The client blocks in layer_begin while the frame before is not done.
ClientBlocked == Cardinality(InState({"DELIVERED"})) = 2

\* Mutant of Begin: a frame that is begun already is left as it is.
BeginAnother ==
  /\ ~ClientBlocked
  /\ \E s \in InState({"WAIT_LEFT"}) :
       frames' = [frames EXCEPT ![s].state = "BEGUN", ![s].begin = now]
  /\ UNCHANGED app
  /\ FrameUnchanged

\* pa_mark_point(BEGIN); the session discards a frame that is begun already.
Begin ==
  /\ ~ClientBlocked
  /\ InState({"BEGUN"}) = {}
  /\ \E s \in InState({"WAIT_LEFT"}) :
       frames' = [frames EXCEPT ![s].state = "BEGUN", ![s].begin = now]
  /\ UNCHANGED app
  /\ FrameUnchanged

\* pa_mark_discarded: of a begun frame that will not be submitted, or of all
\* frames the session holds when it ends.
Discard ==
  /\ ~ClientBlocked
  /\ \E S \in {InState({"BEGUN"}), InState({"BEGUN", "WAIT_LEFT"})} :
       /\ S # {}
       /\ frames' = [s \in Slots |-> IF s \in S THEN Ready ELSE frames[s]]
  /\ UNCHANGED app
  /\ FrameUnchanged

\* pa_mark_delivered
Deliver ==
  /\ ~ClientBlocked
  /\ \E s \in InState({"BEGUN"}) :
       frames' = [frames EXCEPT ![s].state = "DELIVERED",
                                ![s].delivered = now]
  /\ UNCHANGED app
  /\ FrameUnchanged

\* do_iir_filter: a weighted mean, some value between the two.
Filtered(old, new) == IF old < new THEN old .. new ELSE new .. old

\* The GPU finishes frames in the order they were delivered in.
NextOfTheGpu ==
  {s \in InState({"DELIVERED"}) : \A t \in InState({"DELIVERED"}) :
     frames[s].frame_id <= frames[t].frame_id}

Learn(f) ==
  \E cpu \in Filtered(app.cpu, f.begin - f.woke),
     draw \in Filtered(app.draw, f.delivered - f.begin),
     gpu \in Filtered(app.gpu, now - f.delivered) :
    app' = [cpu |-> cpu, draw |-> draw, gpu |-> gpu]

\* Mutant of GpuDone: the time of the GPU has the wrong sign.
GpuDoneSwapped ==
  /\ \E s \in NextOfTheGpu :
       /\ app' = [app EXCEPT !.gpu = frames[s].delivered - now]
       /\ frames' = [frames EXCEPT ![s] = Ready]
  /\ FrameUnchanged

\* pa_mark_gpu_done
GpuDone ==
  /\ \E s \in NextOfTheGpu :
       /\ Learn(frames[s])
       /\ frames' = [frames EXCEPT ![s] = Ready]
  /\ FrameUnchanged

\* pa_info, from broadcast_timings_to_pacers: the render loop woke up now for
\* a frame displayed `lead' later.
Info ==
  /\ \E lead \in Leads, p \in Periods :
       /\ now + lead >= last_input.display
       /\ last_input' = [display |-> now + lead, period |-> p, extra |-> lead]
  /\ UNCHANGED <<frames, frame_counter, last_returned, app, now, sampled,
                 wake_up, wpc, aborted>>

Tick ==
  /\ now < MaxNow
  /\ now' = now + 1
  /\ UNCHANGED <<frames, frame_counter, last_returned, app, last_input,
                 sampled, wake_up, wpc, aborted>>

Finished == (now = MaxNow \/ aborted) /\ UNCHANGED vars

Running ==
  \/ SampleNow \/ Predict \/ WakeUp
  \/ Begin \/ Discard \/ Deliver \/ GpuDone
  \/ Info \/ Tick

Next == (~aborted /\ Running) \/ Finished

Spec == Init /\ [][Next]_vars

-----------------------------------------------------------------------------
(***************************************************************************)
(* The only assertion of the pacer that can fail is that the slot of a new *)
(* frame is free, and only while the GPU has not finished a frame that is  *)
(* a whole round of the ring older.                                        *)
(***************************************************************************)
AbortsOnlyWhenLapped ==
  aborted => \E s \in Slots :
               /\ frames[s].state = "DELIVERED"
               /\ frames[s].frame_id = frame_counter - FrameCount

(***************************************************************************)
(* A later frame has a later display time, whatever the native compositor  *)
(* reported between their predictions.  The multi compositor schedules     *)
(* frames, and u_timing_pipeline finds them, by that time alone.           *)
(***************************************************************************)
Outstanding == {s \in Slots : frames[s].state # "READY"}

DisplayTimesOrdered ==
  \A s, t \in Outstanding :
    frames[s].frame_id < frames[t].frame_id =>
      frames[s].display < frames[t].display

(***************************************************************************)
(* The predicted display time is one the display has: a whole number of    *)
(* periods after the last reported one; it leaves time for the work; and   *)
(* it is the first one that does, unless it follows the frame before in    *)
(* steps of the application's own period.                                  *)
(***************************************************************************)
SoonestDisplay ==
  [][frame_counter' # frame_counter =>
       LET display == last_returned'
           earliest == sampled + total_app_and_compositor_time
       IN  /\ display >= last_input.display
           /\ (display - last_input.display) % last_input.period = 0
           /\ display > last_returned + calc_app_period \div 2
           /\ display > earliest
           /\ \/ display = last_input.display
              \/ display - last_input.period <= earliest
              \/ display - calc_app_period
                   <= last_returned + calc_app_period \div 2]_vars

-----------------------------------------------------------------------------
(***************************************************************************)
(* pa_mark_point(WAKE_UP) asserts that the slot it finds is the frame's:   *)
(* nothing the session, the GPU or the native compositor does while the    *)
(* wait thread sleeps gives the slot away.                                 *)
(***************************************************************************)
SleepsForItsFrame ==
  ~aborted /\ wpc = "sleep" =>
    /\ frames[Index(frame_counter)].state = "PREDICTED"
    /\ frames[Index(frame_counter)].frame_id = frame_counter

\* The clock only moves on, so a frame's stamps are in the order they are
\* taken in.
StampsOrdered ==
  \A s \in Slots :
    /\ frames[s].woke <= now /\ frames[s].begin <= now
    /\ frames[s].delivered <= now
    /\ frames[s].state \in {"BEGUN", "DELIVERED"} =>
         frames[s].woke <= frames[s].begin
    /\ frames[s].state = "DELIVERED" => frames[s].begin <= frames[s].delivered

\* Every frame in the ring was predicted, no later than the last one.
OutstandingPredicted ==
  \A s \in Outstanding :
    /\ frames[s].frame_id \in 1 .. frame_counter
    /\ frames[s].display <= last_returned

(***************************************************************************)
(* The strengthening of TypeOK, DisplayTimesOrdered and SleepsForItsFrame  *)
(* that is inductive: AppPacer_proofs proves it of every call.             *)
(***************************************************************************)
PacerInv ==
  /\ TypeOK
  /\ StampsOrdered
  /\ OutstandingPredicted
  /\ DisplayTimesOrdered
  /\ SleepsForItsFrame

=============================================================================
