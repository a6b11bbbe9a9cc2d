----------------------------- MODULE Auxiliary -----------------------------
(***************************************************************************)
(* The units whose state changes call by call: the pacer of an application, *)
(* the timing pipeline, the counts of feature users, a swapchain, the SLAM  *)
(* tracker and the frame of the native compositor.  They do not interact    *)
(* here: a behaviour is one of them at work while the others stay as they   *)
(* began.  AppPacer is taken over as it is, the others as instances.        *)
(***************************************************************************)
EXTENDS AppPacer, Sequences

CONSTANTS
  Sessions, Concurrent, RowCount, SessionFrames, MaxTime, MaxQueries, Ahead,
  Clients, Objects,
  ImageCount,
  Locators, CamCount, MaxSets, WhenTimes, VitMayFail,
  NumFrames, Period, PresentToDisplay, DisplayMargin, CompTime, CompTimeMax,
  AdjustMissed, AdjustNonMiss, Slop, DisplayFrames, Late, SubmitMayFail

VARIABLES
  unit,
  initialized, rows, csv, session, asking, last_ts, queries, marked,
  feature_use, device_feature_used, client_use, counted, pc, closing, begun,
  is_static, fifo, acquired, num, inflight, released, state, handle, slot,
  drawing, garbage, freed, failed,
  set, cam, tracked, computed, vit_queue, unread, camera_timing_by_ts, lines,
  slam_rels, slam_last_ts, last_rel, slam_pc, pose, when, out_relation,
  display_frames, next_frame_id, comp_time, current_frame_id, waited,
  rendering, place, presented, display_now, submit_failed, display_aborted

pacerVars == vars
timingVars == <<initialized, rows, csv, session, asking, last_ts, queries,
                marked>>
usageVars == <<feature_use, device_feature_used, client_use, counted, pc,
               closing, begun>>
swapchainVars == <<is_static, fifo, acquired, num, inflight, released, state,
                   handle, slot, drawing, garbage, freed, failed>>
slamVars == <<set, cam, tracked, computed, vit_queue, unread,
              camera_timing_by_ts, lines, slam_rels, slam_last_ts, last_rel,
              slam_pc, pose, when, out_relation>>
nativeVars == <<display_frames, next_frame_id, comp_time, current_frame_id,
                waited, rendering, place, presented, display_now,
                submit_failed, display_aborted>>
auxiliaryVars == <<unit, pacerVars, timingVars, usageVars, swapchainVars,
                   slamVars, nativeVars>>

Timing == INSTANCE TimingPipeline WITH MaxFrames <- SessionFrames

Usage == INSTANCE UsageCounts

Images == INSTANCE Swapchain

Slam == INSTANCE SlamTracker WITH last_ts <- slam_last_ts, pc <- slam_pc

Native == INSTANCE NativeCompositor WITH
            Margin <- DisplayMargin, MaxFrames <- DisplayFrames,
            frames <- display_frames, now <- display_now,
            aborted <- display_aborted

ASSUME UnitsAssumption ==
  /\ Timing!ConstantsAssumption
  /\ Usage!ConstantsAssumption
  /\ Images!ConstantsAssumption
  /\ Slam!ConstantsAssumption
  /\ Native!ConstantsAssumption

UnitsInit ==
  /\ unit \in {"pacer", "timing", "usage", "swapchain", "slam", "native"}
  /\ Init /\ Timing!Init /\ Usage!Init /\ Images!Init /\ Slam!Init
  /\ Native!Init

UnitsNext ==
  \/ /\ unit = "pacer" /\ Next
     /\ UNCHANGED <<unit, timingVars, usageVars, swapchainVars, slamVars,
                    nativeVars>>
  \/ /\ unit = "timing" /\ Timing!Next
     /\ UNCHANGED <<unit, pacerVars, usageVars, swapchainVars, slamVars,
                    nativeVars>>
  \/ /\ unit = "usage" /\ Usage!Next
     /\ UNCHANGED <<unit, pacerVars, timingVars, swapchainVars, slamVars,
                    nativeVars>>
  \/ /\ unit = "swapchain" /\ Images!Next
     /\ UNCHANGED <<unit, pacerVars, timingVars, usageVars, slamVars,
                    nativeVars>>
  \/ /\ unit = "slam" /\ Slam!Next
     /\ UNCHANGED <<unit, pacerVars, timingVars, usageVars, swapchainVars,
                    nativeVars>>
  \/ /\ unit = "native" /\ Native!Next
     /\ UNCHANGED <<unit, pacerVars, timingVars, usageVars, swapchainVars,
                    slamVars>>

UnitsSpec == UnitsInit /\ [][UnitsNext]_auxiliaryVars

-----------------------------------------------------------------------------
(* TimingPipeline: a presented frame has one line, with its own marks.       *)
LinesAreComplete == Timing!LinesAreComplete

(* UsageCounts: an unused feature is ended.                                  *)
UnusedIsEnded == Usage!TypeOK /\ Usage!UnusedIsEnded

(* Swapchain: every image is in one place, and nothing in use is freed.      *)
ImagesAreAccountedFor == Images!ImagesAreAccountedFor

(* SlamTracker: the history is in order and ends with the latest pose.       *)
HistoryIsCurrent == Slam!TypeOK /\ Slam!HistoryIsCurrent

(* NativeCompositor: no assertion fails unless a submission did.             *)
FramePassesInOrder == Native!TypeOK /\ Native!FramePassesInOrder
=============================================================================
