----------------------------- MODULE SlamTracker -----------------------------
(***************************************************************************)
(* The adapter around the external SLAM system                             *)
(* (src/monado/src/xrt/auxiliary/tracking/t_tracker_slam.cpp).  A thread   *)
(* of the driver pushes the images of each camera; the SLAM system turns   *)
(* a complete set of them into a pose; the poses are flushed into a        *)
(* history by that thread and by every thread that asks for a tracked      *)
(* pose, and the last answer is cached.  Only the history has a lock, for  *)
(* one call at a time.  Times are numbers: the set of images taken at time *)
(* n has the timestamp n, and so has its pose.                             *)
(***************************************************************************)
EXTENDS Naturals, Sequences, SequencesExt

CONSTANTS
  Locators,    \* threads in t_slam_get_tracked_pose
  CamCount,    \* cam_count
  MaxSets,     \* bound: sets of images the driver takes
  WhenTimes,   \* times the locators ask for
  VitMayFail   \* pose_get_data may fail

ConstantsAssumption ==
  /\ CamCount \in Nat \ {0} /\ MaxSets \in Nat
  /\ WhenTimes \subseteq Nat \ {0}
  /\ "camera" \notin Locators
  /\ VitMayFail \in BOOLEAN

VARIABLES
  set, cam,                \* the image the driver pushes next
  tracked, computed,       \* sets the SLAM system has complete, has a pose for
  vit_queue,               \* poses it has computed and nobody has popped
  camera_timing_by_ts,     \* cameras recorded for each timestamp
  lines,                   \* timestamps and cameras handed to the timing table
  unread,                  \* history: poses pose_get_data failed for
  slam_rels,               \* timestamps in the history, front to back
  last_ts, last_rel,       \* the cached answer
  pc, pose, when,          \* of each thread: place, popped pose, time asked for
  out_relation             \* of each locator

vitVars == <<tracked, computed, vit_queue, unread>>
cacheVars == <<last_ts, last_rel>>
vars == <<set, cam, vitVars, camera_timing_by_ts, lines, slam_rels, cacheVars,
          pc, pose, when, out_relation>>

Camera == "camera"
Threads == Locators \union {Camera}
Sets == 1 .. MaxSets
Cams == 0 .. CamCount - 1
None == 0

\* A relation: the time it was predicted for and the pose it was predicted from.
Relations == [for : WhenTimes \union {None}, from : Sets \union {None}]
NoRelation == [for |-> None, from |-> None]

TypeOK ==
  /\ set \in 1 .. MaxSets + 1 /\ cam \in Cams
  /\ {tracked, computed} \subseteq Sets \union {None} /\ vit_queue \in Seq(Sets)
  /\ unread \subseteq Sets
  /\ camera_timing_by_ts \in [Sets -> SUBSET Cams]
  /\ lines \subseteq Sets \X Cams
  /\ slam_rels \in Seq(Sets)
  /\ last_ts \in WhenTimes \union {None} /\ last_rel \in Relations
  /\ pc \in [Threads -> {"idle", "pop", "timing", "push", "flushed", "send",
                         "record", "cacheRelation", "cacheTime", "cached"}]
  /\ pose \in [Threads -> Sets \union {None}]
  /\ when \in [Locators -> WhenTimes \union {None}]
  /\ out_relation \in [Locators -> Relations]

Init ==
  /\ set = 1 /\ cam = 0
  /\ tracked = None /\ computed = None /\ vit_queue = <<>> /\ unread = {}
  /\ camera_timing_by_ts = [s \in Sets |-> {}] /\ lines = {}
  /\ slam_rels = <<>>
  /\ last_ts = None /\ last_rel = NoRelation
  /\ pc = [t \in Threads |-> "idle"]
  /\ pose = [t \in Threads |-> None]
  /\ when = [l \in Locators |-> None]
  /\ out_relation = [l \in Locators |-> NoRelation]

At(t, place) == pc[t] = place
Goto(t, place) == pc' = [pc EXCEPT ![t] = place]

-----------------------------------------------------------------------------
(* flush_poses, by any thread: pop, camera timing, history, and pop again.  *)

FlushUnchanged == UNCHANGED <<set, cam, tracked, computed, cacheVars, when, out_relation>>

PopPose(t) ==
  /\ At(t, "pop")
  /\ \/ /\ vit_queue = <<>>
        /\ Goto(t, "flushed")
        /\ UNCHANGED <<vit_queue, unread, pose>>
     \/ /\ vit_queue # <<>>
        /\ vit_queue' = Tail(vit_queue)
        /\ pose' = [pose EXCEPT ![t] = Head(vit_queue)]
        /\ Goto(t, "timing")
        /\ UNCHANGED unread
     \/ /\ VitMayFail /\ vit_queue # <<>>
        /\ vit_queue' = Tail(vit_queue)
        /\ unread' = unread \union {Head(vit_queue)}
        /\ Goto(t, "flushed")
        /\ UNCHANGED pose
  /\ UNCHANGED <<camera_timing_by_ts, lines, slam_rels>>
  /\ FlushUnchanged

\* Also what stands between it and the push: get_latest, for the velocity.
create_camera_timing(t) ==
  LET ts == pose[t]
  IN  /\ At(t, "timing")
      /\ lines' = lines \union ({ts} \X camera_timing_by_ts[ts])
      /\ camera_timing_by_ts' = [camera_timing_by_ts EXCEPT ![ts] = {}]
      /\ Goto(t, "push")
      /\ UNCHANGED <<vit_queue, unread, slam_rels, pose>>
      /\ FlushUnchanged

\* Mutant of m_relation_history_push: the timestamps are not compared.
push_any(rels, ts) == Append(rels, ts)

\* m_relation_history_push: a relation older than the latest is refused.
m_relation_history_push(rels, ts) ==
  IF rels = <<>> \/ ts > Last(rels) THEN Append(rels, ts) ELSE rels

PushRelation(t) ==
  /\ At(t, "push")
  /\ slam_rels' = m_relation_history_push(slam_rels, pose[t])
  /\ pose' = [pose EXCEPT ![t] = None]
  /\ Goto(t, "pop")
  /\ UNCHANGED <<vit_queue, unread, camera_timing_by_ts, lines>>
  /\ FlushUnchanged

-----------------------------------------------------------------------------
(* receive_frame, by the driver's thread, camera after camera. *)

CameraUnchanged ==
  UNCHANGED <<lines, slam_rels, cacheVars, pose, when, out_relation>>

\* The last camera of a set flushes first.
ReceiveFrame ==
  /\ At(Camera, "idle") /\ set \in Sets
  /\ Goto(Camera, IF cam = CamCount - 1 THEN "pop" ELSE "send")
  /\ UNCHANGED <<set, cam, vitVars, camera_timing_by_ts>>
  /\ CameraUnchanged

\* tracker_push_img_sample
PushImage ==
  /\ pc[Camera] \in {"flushed", "send"}
  /\ tracked' = IF cam = CamCount - 1 THEN set ELSE tracked
  /\ Goto(Camera, "record")
  /\ UNCHANGED <<set, cam, computed, vit_queue, unread, camera_timing_by_ts>>
  /\ CameraUnchanged

\* The camera timing of the image is recorded after it has been pushed.
RecordTiming ==
  /\ At(Camera, "record")
  /\ camera_timing_by_ts' = [camera_timing_by_ts EXCEPT ![set] = @ \union {cam}]
  /\ cam' = (cam + 1) % CamCount
  /\ set' = IF cam = CamCount - 1 THEN set + 1 ELSE set
  /\ Goto(Camera, "idle")
  /\ UNCHANGED vitVars
  /\ CameraUnchanged

-----------------------------------------------------------------------------
(* t_slam_get_tracked_pose *)

LocateUnchanged ==
  UNCHANGED <<set, cam, vitVars, camera_timing_by_ts, lines, slam_rels, pose>>

GetTrackedPose(l) ==
  /\ At(l, "idle")
  /\ \E w \in WhenTimes :
       /\ when' = [when EXCEPT ![l] = w]
       /\ Goto(l, IF w = last_ts THEN "cached" ELSE "pop")
  /\ UNCHANGED <<cacheVars, out_relation>>
  /\ LocateUnchanged

ReturnCached(l) ==
  /\ At(l, "cached")
  /\ out_relation' = [out_relation EXCEPT ![l] = last_rel]
  /\ Goto(l, "idle")
  /\ UNCHANGED <<cacheVars, when>>
  /\ LocateUnchanged

\* predict_pose and filter_pose: from the latest pose, if there is one.
predict_pose(l) ==
  /\ At(l, "flushed")
  /\ out_relation' =
       [out_relation EXCEPT ![l] =
          [for |-> when[l],
           from |-> IF slam_rels = <<>> THEN None ELSE Last(slam_rels)]]
  /\ Goto(l, "cacheRelation")
  /\ UNCHANGED <<cacheVars, when>>
  /\ LocateUnchanged

CacheRelation(l) ==
  /\ At(l, "cacheRelation")
  /\ last_rel' = out_relation[l]
  /\ Goto(l, "cacheTime")
  /\ UNCHANGED <<last_ts, when, out_relation>>
  /\ LocateUnchanged

CacheTime(l) ==
  /\ At(l, "cacheTime")
  /\ last_ts' = when[l]
  /\ Goto(l, "idle")
  /\ UNCHANGED <<last_rel, when, out_relation>>
  /\ LocateUnchanged

-----------------------------------------------------------------------------
(* The SLAM system computes a pose for each complete set, in order.         *)

ComputePose ==
  /\ computed < tracked
  /\ computed' = computed + 1
  /\ vit_queue' = Append(vit_queue, computed')
  /\ UNCHANGED <<set, cam, tracked, unread, camera_timing_by_ts, lines,
                 slam_rels, cacheVars, pc, pose, when, out_relation>>

Flush(t) == PopPose(t) \/ create_camera_timing(t) \/ PushRelation(t)

Locate(l) ==
  \/ GetTrackedPose(l) \/ ReturnCached(l)
  \/ predict_pose(l) \/ CacheRelation(l) \/ CacheTime(l)

Next ==
  \/ \E t \in Threads : Flush(t)
  \/ ReceiveFrame \/ PushImage \/ RecordTiming
  \/ \E l \in Locators : Locate(l)
  \/ ComputePose

Spec == Init /\ [][Next]_vars

-----------------------------------------------------------------------------
(* "Everything explodes if the timestamps in relation_history aren't        *)
(* monotonically increasing": they are, although threads that flush at once *)
(* push what they popped in any order.  And predictions start from the      *)
(* latest pose: when nobody flushes and no pose waits, the history ends     *)
(* with the newest one that could be read.                                  *)
HistoryIsCurrent ==
  /\ \A i, j \in DOMAIN slam_rels : i < j => slam_rels[i] < slam_rels[j]
  /\ vit_queue = <<>> /\ (\A t \in Threads : pose[t] = None) =>
       \A s \in (1 .. computed) \ unread :
         slam_rels # <<>> /\ s <= Last(slam_rels)

(* flush_poses: "Dequeue all tracked poses from the SLAM system and update  *)
(* prediction data with them."  Does not hold: of two poses that two        *)
(* threads popped the older may come second, and is refused.                *)
EveryPoseIsUsed ==
  \A s \in (1 .. computed) \ unread :
    \/ s \in ToSet(vit_queue) \union ToSet(slam_rels)
    \/ \E t \in Threads : pose[t] = s

(* An answer is for the time that was asked for.  Does not hold: last_rel   *)
(* and last_ts are written one after the other.                             *)
AnswerIsForItsTime ==
  \A l \in Locators : At(l, "idle") => out_relation[l].for \in {None, when[l]}

(* A camera timing is recorded before the pose of its images is flushed.    *)
(* Does not hold: it is recorded when the image has been pushed already.    *)
TimingBeforePose ==
  \A s \in Sets, c \in Cams :
    c \in camera_timing_by_ts[s] => s \notin ToSet(slam_rels)
=============================================================================
