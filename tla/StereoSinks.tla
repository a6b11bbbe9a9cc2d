------------------------------ MODULE StereoSinks ------------------------------
(***************************************************************************)
(* The path of a stereo pair, as gui_scene_calibrate.c builds it: two      *)
(* camera threads push into u_sink_force_genlock, whose thread pairs their *)
(* frames by time and pushes them through u_sink_combiner into the queue   *)
(* of u_sink_simple_queue.c, whose thread calls the consumer; and the      *)
(* frame context that breaks the nodes apart, newest first, and then       *)
(* destroys them (xrt_frame.h).                                            *)
(*                                                                         *)
(* A frame is the number of its exposure.  Frames of one exposure are      *)
(* within U_TIME_1MS_IN_NS of each other and others are not, so times are  *)
(* compared as numbers; either camera may miss any exposure.               *)
(***************************************************************************)
EXTENDS Naturals

CONSTANT MaxExposure  \* bound: exposures of the cameras

Sides == {"left", "right"}
None == 0
Exposures == 1 .. MaxExposure

\* Head of the list first: the order the nodes are broken apart in.
Nodes == <<"combiner", "genlock", "queue", "source">>

VARIABLES
  exposure,   \* last exposure each camera has delivered or missed
  locked,     \* u_sink_force_genlock::frames
  glpc,       \* where force_genlock_mainloop is
  pair,       \* the frames in its hands
  combined,   \* u_sink_combiner::frames
  frame,      \* frame of the simple queue
  seq,        \* its current and last
  qpc,        \* where its queue_mainloop is
  consumed,   \* the last pair of exposures that the consumer got
  running,    \* of each node
  broken,     \* nodes broken apart so far
  joining,    \* the node that is being broken apart waits for its thread
  destroyed,  \* the nodes are freed
  aborted     \* an assertion failed, or a node was used after it was freed

cameraVars == <<exposure, locked>>
genlockVars == <<glpc, pair>>
queueVars == <<frame, seq, qpc, consumed>>
contextVars == <<running, broken, joining, destroyed>>
vars == <<cameraVars, genlockVars, combined, queueVars, contextVars, aborted>>

Empty == [s \in Sides |-> None]
Places == {"start", "asleep", "woken", "left", "right", "exited"}

TypeOK ==
  /\ exposure \in [Sides -> 0 .. MaxExposure]
  /\ locked \in [Sides -> 0 .. MaxExposure]
  /\ glpc \in Places /\ qpc \in Places
  /\ pair \in [Sides -> 0 .. MaxExposure]
  /\ combined \in [Sides -> 0 .. MaxExposure]
  /\ frame \in [Sides -> 0 .. MaxExposure]
  /\ seq.last \in Nat /\ seq.current \in Nat
  /\ consumed \in [Sides -> 0 .. MaxExposure]
  /\ running \in [{"genlock", "combiner", "queue", "source"} -> BOOLEAN]
  /\ broken \in 0 .. 4 /\ joining \in BOOLEAN
  /\ destroyed \in BOOLEAN /\ aborted \in BOOLEAN

Init ==
  /\ exposure = Empty /\ locked = Empty
  /\ glpc = "start" /\ pair = Empty
  /\ combined = Empty
  /\ frame = Empty /\ seq = [current |-> 0, last |-> 0]
  /\ qpc = "start" /\ consumed = Empty
  /\ running = [n \in {"genlock", "combiner", "queue", "source"} |-> TRUE]
  /\ broken = 0 /\ joining = FALSE
  /\ destroyed = FALSE /\ aborted = FALSE

Signalled(pc) == IF pc = "asleep" THEN "woken" ELSE pc

Both(frames) == frames["left"] # None /\ frames["right"] # None

-----------------------------------------------------------------------------
(* The cameras, up to the end of force_genlock_left_frame or _right_frame. *)

\* Mutant of Capture: the thread is woken for a left frame only.
CaptureSignalsLeft(s) ==
  /\ running["source"]
  /\ exposure[s] < MaxExposure
  /\ exposure' = [exposure EXCEPT ![s] = @ + 1]
  /\ locked' = IF running["genlock"]
               THEN [locked EXCEPT ![s] = exposure'[s]] ELSE locked
  /\ glpc' = IF Both(locked') /\ s = "left" THEN Signalled(glpc) ELSE glpc
  /\ UNCHANGED <<pair, combined, queueVars, contextVars, aborted>>

Capture(s) ==
  /\ running["source"]
  /\ exposure[s] < MaxExposure
  /\ exposure' = [exposure EXCEPT ![s] = @ + 1]
  /\ \/ UNCHANGED <<locked, glpc, aborted>>
     \/ /\ locked' = IF running["genlock"]
                     THEN [locked EXCEPT ![s] = exposure'[s]] ELSE locked
        /\ glpc' = IF Both(locked') THEN Signalled(glpc) ELSE glpc
        /\ aborted' = (aborted \/ destroyed)
  /\ UNCHANGED <<pair, combined, queueVars, contextVars>>

-----------------------------------------------------------------------------
(* force_genlock_mainloop *)

\* "Save the most recent frame."
Later(frames) ==
  [s \in Sides |-> IF \A t \in Sides : frames[s] >= frames[t]
                   THEN frames[s] ELSE None]

\* One pass of the loop, entered with the lock.
PairUp ==
  /\ glpc \in {"start", "woken"}
  /\ \/ /\ ~running["genlock"]
        /\ glpc' = "exited"
        /\ UNCHANGED <<locked, pair>>
     \/ /\ running["genlock"] /\ ~Both(locked)
        /\ glpc' = "asleep"
        /\ UNCHANGED <<locked, pair>>
     \/ /\ running["genlock"] /\ Both(locked)
        /\ locked["left"] # locked["right"]
        /\ locked' = Later(locked)
        /\ glpc' = "start"
        /\ UNCHANGED pair
     \/ /\ running["genlock"] /\ Both(locked)
        /\ locked["left"] = locked["right"]
        /\ pair' = locked /\ locked' = Empty
        /\ glpc' = "left"
  /\ UNCHANGED <<exposure, combined, queueVars, contextVars, aborted>>

\* combiner_left_frame; last_ts is never assigned, so its check lets every
\* pair pass.
PushLeft ==
  /\ glpc = "left" /\ glpc' = "right"
  /\ combined' = IF running["combiner"]
                 THEN [left |-> pair["left"], right |-> None]
                 ELSE combined
  /\ aborted' = (aborted \/ destroyed)
  /\ UNCHANGED <<cameraVars, pair, queueVars, contextVars>>

\* combiner_right_frame and, inside it, queue_frame of the simple queue.
PushRight ==
  LET frames == IF running["combiner"]
                THEN [combined EXCEPT !["right"] = pair["right"]]
                ELSE combined
  IN  /\ glpc = "right" /\ glpc' = "start"
      /\ \/ ~Both(frames) /\ combined' = frames
            /\ UNCHANGED <<frame, seq, qpc>>
            /\ aborted' = (aborted \/ destroyed)
         \/ /\ Both(frames) /\ combined' = Empty
            /\ IF running["queue"]
               THEN frame' = frames /\ seq' = [seq EXCEPT !.current = @ + 1]
               ELSE UNCHANGED <<frame, seq>>
            /\ qpc' = Signalled(qpc)
            /\ aborted' = (aborted \/ destroyed
                             \/ frames["left"] # frames["right"])
      /\ UNCHANGED <<cameraVars, pair, consumed, contextVars>>

-----------------------------------------------------------------------------
(* queue_mainloop of u_sink_simple_queue.c *)

Consume ==
  /\ qpc \in {"start", "woken"}
  /\ \/ /\ ~running["queue"]
        /\ qpc' = "exited"
        /\ UNCHANGED <<frame, seq, consumed>>
     \/ /\ running["queue"] /\ seq.last >= seq.current
        /\ qpc' = "asleep"
        /\ UNCHANGED <<frame, seq, consumed>>
     \/ /\ running["queue"] /\ seq.last < seq.current
        /\ seq' = [seq EXCEPT !.last = seq.current]
        /\ consumed' = frame /\ frame' = Empty
        /\ qpc' = "right"
  /\ UNCHANGED <<cameraVars, genlockVars, combined, contextVars, aborted>>

\* The consumer returns; it may have used nodes further down.
ConsumerReturns ==
  /\ qpc = "right" /\ qpc' = "start"
  /\ aborted' = (aborted \/ destroyed)
  /\ UNCHANGED <<cameraVars, genlockVars, combined, frame, seq, consumed,
                 contextVars>>

Spurious ==
  /\ \/ glpc = "asleep" /\ glpc' = "woken" /\ UNCHANGED qpc
     \/ qpc = "asleep" /\ qpc' = "woken" /\ UNCHANGED glpc
  /\ UNCHANGED <<cameraVars, pair, combined, frame, seq, consumed, contextVars,
                 aborted>>

-----------------------------------------------------------------------------
(* xrt_frame_context_destroy_nodes *)

\* break_apart of the next node, up to the join of its thread.  For the
\* source it stops the threads of the cameras.
BreakApart ==
  LET n == Nodes[broken + 1]
  IN  /\ broken < 4 /\ ~joining
      /\ running' = [running EXCEPT ![n] = FALSE]
      /\ locked' = IF n = "genlock" THEN Empty ELSE locked
      /\ glpc' = IF n = "genlock" THEN Signalled(glpc) ELSE glpc
      /\ combined' = IF n = "combiner" THEN Empty ELSE combined
      /\ frame' = IF n = "queue" THEN Empty ELSE frame
      /\ qpc' = IF n = "queue" THEN Signalled(qpc) ELSE qpc
      /\ joining' = TRUE
      /\ UNCHANGED <<exposure, pair, seq, consumed, broken, destroyed, aborted>>

\* Mutant of Joined: nobody waits for the threads.
JoinedAtOnce ==
  /\ joining
  /\ joining' = FALSE /\ broken' = broken + 1
  /\ UNCHANGED <<cameraVars, genlockVars, combined, queueVars, running,
                 destroyed, aborted>>

Joined ==
  LET n == Nodes[broken + 1]
  IN  /\ joining
      /\ n = "genlock" => glpc = "exited"
      /\ n = "queue" => qpc = "exited"
      /\ joining' = FALSE /\ broken' = broken + 1
      /\ UNCHANGED <<cameraVars, genlockVars, combined, queueVars, running,
                     destroyed, aborted>>

Destroy ==
  /\ broken = 4 /\ ~destroyed /\ destroyed' = TRUE
  /\ UNCHANGED <<cameraVars, genlockVars, combined, queueVars, running, broken,
                 joining, aborted>>

Finished == destroyed /\ UNCHANGED vars

-----------------------------------------------------------------------------
Genlock == PairUp \/ PushLeft \/ PushRight
Queue == Consume \/ ConsumerReturns
Context == Joined \/ Destroy

Next ==
  \/ \E s \in Sides : Capture(s)
  \/ Genlock \/ Queue \/ Spurious
  \/ BreakApart \/ Context \/ Finished

(* The operating system runs the threads of the sinks, and the teardown once  *)
(* it has begun; consumers return.                                            *)
Fairness ==
  /\ WF_vars(Genlock) /\ WF_vars(Queue)
  /\ WF_vars(Context) /\ WF_vars(broken > 0 /\ BreakApart)

FairSpec == Init /\ [][Next]_vars /\ Fairness

-----------------------------------------------------------------------------
(* Properties. *)

(* The consumer gets frames of one exposure, both of them, and never one that *)
(* is older than the one before, whichever frames the cameras miss and        *)
(* wherever the teardown finds the threads.  The assertion of the combiner    *)
(* that its frames match never fails, and no node is used after it was freed. *)
PairsInOrder ==
  /\ TypeOK /\ ~aborted
  /\ consumed["left"] = consumed["right"]
  /\ \A f \in {pair["left"], locked["left"], frame["left"]} :
       f # None => consumed["left"] <= f

(* The genlock never sleeps on two frames, whichever of them replaces which   *)
(* while its thread is busy; a pair it has taken is consumed, or one newer    *)
(* than it, unless the teardown begins; and a teardown that has begun ends.   *)
PairIsConsumed ==
  /\ Both(locked) ~> ~Both(locked)
  /\ \A e \in Exposures :
       glpc = "left" /\ pair["left"] = e
         ~> consumed["left"] >= e \/ broken > 0 \/ joining
  /\ joining ~> destroyed

(* The genlock's thread sleeps only when a camera's frame is missing, that of *)
(* the queue only when it has taken the last pair, and neither once its node  *)
(* is broken apart: the thread that waits in the join waits for one awake.    *)
SleepOnlyForFrames ==
  /\ glpc = "asleep" => running["genlock"] /\ ~Both(locked)
  /\ qpc = "asleep" => running["queue"] /\ seq.last >= seq.current
=============================================================================
