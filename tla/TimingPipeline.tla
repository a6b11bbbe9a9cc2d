-------------------------- MODULE TimingPipeline --------------------------
(***************************************************************************)
(* The display timing of the thesis instrumentation                        *)
(* (src/monado/src/xrt/auxiliary/util/u_timing_pipeline.c): one table of   *)
(* DISPLAY_ROW_COUNT rows for the whole process.  The multi compositor     *)
(* marks a frame by its id (wait, begin, present), the session and the     *)
(* SLAM tracker by its display time (locate, predict); present writes the  *)
(* row as a line of display.csv.                                           *)
(*                                                                         *)
(* A mark is one step under the pipeline's mutex.  In place of the host    *)
(* time a row records whose mark it holds: the frame, or the kind of pose  *)
(* query.  The callers are modelled as far as they decide which marks are  *)
(* made: sessions that wait for, begin, discard and present frames, the    *)
(* pose query of each xrLocateViews, and the queries of others: of         *)
(* xrLocateSpace, of the native compositor and of devices.                 *)
(***************************************************************************)
EXTENDS Naturals, Sequences, FiniteSets

CONSTANTS
  Sessions,     \* sessions over the life of the process
  Concurrent,   \* bound: how many of them exist at a time
  RowCount,     \* DISPLAY_ROW_COUNT
  MaxFrames,    \* bound: frames of a session
  MaxTime,      \* bound: display times
  MaxQueries,   \* bound: pose queries from elsewhere
  Ahead         \* pose queries for display times no frame has been given yet

ConstantsAssumption ==
  /\ "native" \notin Sessions
  /\ RowCount \in Nat \ {0}
  /\ Concurrent \in Nat /\ MaxFrames \in Nat /\ MaxTime \in Nat
  /\ MaxQueries \in Nat /\ Ahead \in BOOLEAN

VARIABLES
  initialized,  \* of g_tp: "no", "opening" (set, but no writer yet) or "yes"
  rows,         \* g_tp.display_rows
  csv,          \* the lines of display.csv
  session,      \* each session: its frames and its xrLocateViews
  asking,       \* the time each thread in t_slam_get_tracked_pose asked for
  last_ts,      \* TrackerSlam::last_ts
  queries,      \* pose queries from elsewhere so far
  marked        \* history: the marks that were made, as <<frame, point>>

vars == <<initialized, rows, csv, session, asking, last_ts, queries, marked>>

None == <<>>
Frames == Sessions \X (1 .. MaxFrames)
Times == 1 .. MaxTime
Slots == 0 .. RowCount - 1
Native == "native"
Threads == Sessions \union {Native}

\* U_ZERO; a frame_id of 0 stands for U_FTW_UNSET too, no frame has it.
Unused == [active |-> FALSE, emitted |-> FALSE, frame_id |-> 0, display |-> 0,
           wait |-> None, begin |-> None, locate |-> "unset",
           predict |-> FALSE, present |-> None]

DisplayRow ==
  [active: BOOLEAN, emitted: BOOLEAN, frame_id: 0 .. MaxFrames,
   display: 0 .. MaxTime, wait: Frames \union {None},
   begin: Frames \union {None},
   locate: {"unset", "call", "computed", "cached"}, predict: BOOLEAN,
   present: Frames \union {None}]

NoFrame == [id |-> 0, display |-> 0]
FrameRef == [id: 0 .. MaxFrames, display: 0 .. MaxTime]

TypeOK ==
  /\ initialized \in {"no", "opening", "yes"}
  /\ rows \in [Slots -> DisplayRow]
  /\ \A i \in Slots : rows[i].frame_id # 0 => i = rows[i].frame_id % RowCount
  /\ csv \in Seq(DisplayRow)
  /\ session \in [Sessions -> [state: {"none", "running", "ended"},
                               last: FrameRef, waited: FrameRef,
                               begun: FrameRef, asks: 0 .. 1]]
  /\ asking \in [Threads -> 0 .. MaxTime]
  /\ last_ts \in 0 .. MaxTime
  /\ queries \in 0 .. MaxQueries
  /\ marked \subseteq Frames \X {"wait", "begin", "locate", "present"}

Init ==
  /\ initialized = "no"
  /\ rows = [i \in Slots |-> Unused]
  /\ csv = <<>>
  /\ session = [s \in Sessions |->
       [state |-> "none", last |-> NoFrame, waited |-> NoFrame,
        begun |-> NoFrame, asks |-> 0]]
  /\ asking = [t \in Threads |-> 0]
  /\ last_ts = 0 /\ queries = 0
  /\ marked = {}

-----------------------------------------------------------------------------
(* The table. *)

\* initialize_once: the first mark sets the flag, and then opens the files.
StartInit ==
  /\ initialized = "no"
  /\ initialized' = "opening"
  /\ UNCHANGED <<rows, csv, session, asking, last_ts, queries, marked>>

FinishInit ==
  /\ initialized = "opening"
  /\ initialized' = "yes"
  /\ UNCHANGED <<rows, csv, session, asking, last_ts, queries, marked>>

\* Mutant of by_frame_id: a new row is not zeroed.
by_frame_id_unzeroed(frame_id) ==
  LET index == frame_id % RowCount
  IN  IF rows[index].active /\ rows[index].frame_id = frame_id THEN rows
      ELSE [rows EXCEPT ![index].active = TRUE, ![index].frame_id = frame_id]

\* get_display_row_by_frame_id_locked: the table with a row for the frame.
by_frame_id(frame_id) ==
  LET index == frame_id % RowCount
  IN  IF rows[index].active /\ rows[index].frame_id = frame_id THEN rows
      ELSE [rows EXCEPT ![index] = [Unused EXCEPT !.active = TRUE,
                                                  !.frame_id = frame_id]]

First(S) == CHOOSE i \in S : \A j \in S : i <= j

\* get_display_row_by_display_time_locked: the first row with the time, else
\* the first free one, else none.
by_display_time(time) ==
  LET same == {i \in Slots : rows[i].active /\ rows[i].display = time}
      free == {i \in Slots : ~rows[i].active}
  IN  IF same \union free = {} THEN {}
      ELSE {First(IF same # {} THEN same ELSE free)}

Writing == initialized = "yes"

\* A mark is lost while the files are being opened.
Reached == initialized # "no"

\* A mark by display time: a column of the row gets a value.
MarkTime(time, column, value) ==
  IF ~Writing THEN UNCHANGED rows
  ELSE rows' = [i \in Slots |->
         IF i \notin by_display_time(time) THEN rows[i]
         ELSE [(IF rows[i].active THEN rows[i] ELSE Unused)
               EXCEPT !.active = TRUE, !.display = time, ![column] = value]]

\* The marks of frame f at the points, once they are made.
Remember(f, point) ==
  marked' = IF Writing THEN marked \union {<<f, point>>} ELSE marked

-----------------------------------------------------------------------------
(* The sessions, and multi_compositor. *)

Running(s) == session[s].state = "running"

\* multi_compositor_create with a new pacer, whose ids begin at 1 again.
CreateSession(s) ==
  /\ session[s].state = "none"
  /\ Cardinality({t \in Sessions : Running(t)}) < Concurrent
  /\ session' = [session EXCEPT ![s].state = "running"]
  /\ UNCHANGED <<initialized, rows, csv, asking, last_ts, queries, marked>>

DestroySession(s) ==
  /\ Running(s)
  /\ asking[s] = 0 /\ session[s].asks = 0
  /\ session' = [session EXCEPT ![s].state = "ended", ![s].waited = NoFrame,
                                ![s].begun = NoFrame]
  /\ UNCHANGED <<initialized, rows, csv, asking, last_ts, queries, marked>>

\* Mutant of WaitFrame: the row does not get the display time.
WaitFrameUnlinked(s) ==
  /\ Running(s) /\ Reached
  /\ session[s].waited = NoFrame
  /\ session[s].last.id < MaxFrames
  /\ \E time \in session[s].last.display + 1 .. MaxTime :
       LET id == session[s].last.id + 1
           frame == [id |-> id, display |-> time]
       IN  /\ session' = [session EXCEPT ![s].last = frame,
                                         ![s].waited = frame]
           /\ rows' = IF Writing
                      THEN [by_frame_id(id) EXCEPT
                              ![id % RowCount].wait = <<s, id>>]
                      ELSE rows
           /\ Remember(<<s, id>>, "wait")
  /\ UNCHANGED <<initialized, csv, asking, last_ts, queries>>

\* xrWaitFrame: u_timing_pipeline_mark_wait_frame at the end of
\* multi_compositor_predict_frame.  The display times of a session increase
\* (DisplayTimesOrdered of AppPacer).
WaitFrame(s) ==
  /\ Running(s) /\ Reached
  /\ session[s].waited = NoFrame
  /\ session[s].last.id < MaxFrames
  /\ \E time \in session[s].last.display + 1 .. MaxTime :
       LET id == session[s].last.id + 1
           frame == [id |-> id, display |-> time]
       IN  /\ session' = [session EXCEPT ![s].last = frame,
                                         ![s].waited = frame]
           /\ rows' = IF Writing
                      THEN [by_frame_id(id) EXCEPT
                              ![id % RowCount].display = time,
                              ![id % RowCount].wait = <<s, id>>]
                      ELSE rows
           /\ Remember(<<s, id>>, "wait")
  /\ UNCHANGED <<initialized, csv, asking, last_ts, queries>>

\* The application's thread is in no xrLocateViews.
InNoCall(s) == asking[s] = 0 /\ session[s].asks = 0

\* xrBeginFrame: a frame that is begun already is discarded.
BeginFrame(s) ==
  LET id == session[s].waited.id
  IN  /\ Running(s) /\ Reached /\ InNoCall(s)
      /\ id # 0
      /\ session' = [session EXCEPT ![s].begun = session[s].waited,
                                    ![s].waited = NoFrame]
      /\ rows' = IF Writing
                 THEN [by_frame_id(id) EXCEPT
                         ![id % RowCount].begin = <<s, id>>]
                 ELSE rows
      /\ Remember(<<s, id>>, "begin")
      /\ UNCHANGED <<initialized, csv, asking, last_ts, queries>>

\* xrEndFrame with layers: u_timing_pipeline_mark_present_frame, and
\* emit_display_row_locked.
PresentFrame(s) ==
  LET id == session[s].begun.id
      index == id % RowCount
      presented == [by_frame_id(id) EXCEPT ![index].present = <<s, id>>]
      emits == Writing /\ ~presented[index].emitted
  IN  /\ Running(s) /\ Reached /\ InNoCall(s)
      /\ id # 0
      /\ session' = [session EXCEPT ![s].begun = NoFrame]
      /\ rows' = IF Writing THEN [presented EXCEPT ![index].emitted = TRUE]
                 ELSE rows
      /\ csv' = IF emits THEN Append(csv, presented[index]) ELSE csv
      /\ Remember(<<s, id>>, "present")
      /\ UNCHANGED <<initialized, asking, last_ts, queries>>

\* xrEndFrame without layers: the frame leaves no mark.
DiscardFrame(s) ==
  /\ Running(s) /\ InNoCall(s)
  /\ session[s].begun # NoFrame
  /\ session' = [session EXCEPT ![s].begun = NoFrame]
  /\ UNCHANGED <<initialized, rows, csv, asking, last_ts, queries, marked>>

-----------------------------------------------------------------------------
(* Pose queries. *)

\* The frame an application renders: the one it began, else the one it waits
\* for.
Rendered(s) ==
  IF session[s].begun # NoFrame THEN session[s].begun ELSE session[s].waited

\* oxr_session_locate_views, in front of its query for the views.  It locates
\* the device in the base space, too, which asks a tracker only when that is a
\* space of poses, such as VIEW; such a query is one of OtherQuery.
LocateViews(s) ==
  /\ Running(s) /\ Reached /\ InNoCall(s)
  /\ Rendered(s) # NoFrame
  /\ session' = [session EXCEPT ![s].asks = 1]
  /\ MarkTime(Rendered(s).display, "locate", "call")
  /\ Remember(<<s, Rendered(s).id>>, "locate")
  /\ UNCHANGED <<initialized, csv, asking, last_ts, queries>>

\* t_slam_get_tracked_pose, up to its cache.
AskPose(t, time) ==
  /\ Reached
  /\ asking[t] = 0
  /\ MarkTime(time, "locate", IF time = last_ts THEN "cached" ELSE "computed")
  /\ asking' = IF time = last_ts THEN asking ELSE [asking EXCEPT ![t] = time]

\* The rest of t_slam_get_tracked_pose, after predict and filter.
AnswerPose(t) ==
  /\ asking[t] # 0
  /\ MarkTime(asking[t], "predict", TRUE)
  /\ last_ts' = asking[t]
  /\ asking' = [asking EXCEPT ![t] = 0]
  /\ UNCHANGED <<initialized, csv, session, queries, marked>>

\* u_device_get_view_poses, for xrLocateViews.
AppQuery(s) ==
  /\ session[s].asks > 0
  /\ AskPose(s, Rendered(s).display)
  /\ session' = [session EXCEPT ![s].asks = @ - 1]
  /\ UNCHANGED <<initialized, csv, last_ts, queries, marked>>

\* xrLocateSpace of a space that goes through the device's pose, the native
\* compositor for the frame it draws, or a device.
OtherQuery ==
  /\ queries < MaxQueries
  /\ \E time \in Times :
       /\ Ahead \/ \E s \in Sessions : time <= session[s].last.display
       /\ AskPose(Native, time)
  /\ queries' = queries + 1
  /\ UNCHANGED <<initialized, csv, session, last_ts, marked>>

-----------------------------------------------------------------------------

Finished ==
  /\ \A s \in Sessions : session[s].state = "ended"
  /\ UNCHANGED vars

Next ==
  \/ StartInit \/ FinishInit
  \/ \E s \in Sessions :
       \/ CreateSession(s) \/ DestroySession(s)
       \/ WaitFrame(s) \/ BeginFrame(s) \/ PresentFrame(s) \/ DiscardFrame(s)
       \/ LocateViews(s) \/ AppQuery(s)
  \/ OtherQuery
  \/ \E t \in Threads : AnswerPose(t)
  \/ Finished

Spec == Init /\ [][Next]_vars

-----------------------------------------------------------------------------
Lines == {csv[i] : i \in 1 .. Len(csv)}

(***************************************************************************)
(* "frame_id: compositor frame counter -> join key for wait_frame /        *)
(* begin_frame / present": what a line holds of the three was marked for   *)
(* one frame, and nothing that was marked for it is missing.               *)
(***************************************************************************)
JoinKeyIsAFrame ==
  \A line \in Lines :
    LET frame == line.present
    IN  /\ line.wait = IF <<frame, "wait">> \in marked THEN frame ELSE None
        /\ line.begin = IF <<frame, "begin">> \in marked THEN frame ELSE None

(***************************************************************************)
(* "The row is written out on present": every frame that is presented has  *)
(* its line, and no other line.                                            *)
(***************************************************************************)
PresentedIsWritten ==
  \A frame \in Frames :
    <<frame, "present">> \in marked =>
      Cardinality({i \in 1 .. Len(csv) : csv[i].present = frame}) = 1

(***************************************************************************)
(* "wait_frame carries both so it bridges the two": when xrWaitFrame and   *)
(* xrLocateViews of a frame were marked, its line shows a pose query, and  *)
(* that the pose was computed.                                             *)
(***************************************************************************)
WaitBridgesTheTwo ==
  \A line \in Lines :
    <<line.present, "wait">> \in marked /\ <<line.present, "locate">> \in marked
      => line.locate # "unset" /\ line.predict

(***************************************************************************)
(* One line for each presented frame, with its own marks and its query.    *)
(***************************************************************************)
LinesAreComplete ==
  TypeOK /\ JoinKeyIsAFrame /\ PresentedIsWritten /\ WaitBridgesTheTwo

(***************************************************************************)
(* "locate_views: host time when the app calls xrLocateViews and asks for  *)
(* the pose", predict_filter "after predict + filter computed the pose":   *)
(* the query a line shows is not one made after the pose was computed,     *)
(* whoever else asks for a pose at the time of the frame.                  *)
(***************************************************************************)
LocateIsTheAsking ==
  \A line \in Lines : line.predict => line.locate # "cached"
=============================================================================
