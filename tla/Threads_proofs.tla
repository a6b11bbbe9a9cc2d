---------------------------- MODULE Threads_proofs ----------------------------
(***************************************************************************)
(* What is proved of the units of Threads, for any number of threads,      *)
(* frames, exposures and tasks, each from an inductive invariant of its    *)
(* own; the last section carries the results over to the units at work     *)
(* side by side, which is what the runs check.                             *)
(***************************************************************************)
EXTENDS Threads, FiniteSetTheorems, WellFoundedInduction, TLAPS


\* Before the decision nobody has been told anything; after it the result stays,
\* and the value of a success is there.
Undecided ==
  state = "pending" =>
    /\ \A t \in Waiters : answer[t] \in {Nothing, "timeout"}
         /\ got[t] = Nothing
    /\ \A t \in Waiters : wpc[t] # "unlocked"
    /\ \A p \in Producers : completed[p] # "success"

ReadyHasValue == state = "ready" /\ result \notin Failures => value = result

FutureInv == TypeOK /\ OneOutcome /\ Undecided /\ ReadyHasValue

(* Init establishes the invariant. *)
LEMMA InitHolds == Init => FutureInv
BY DEF Init, FutureInv, TypeOK, OneOutcome, Undecided, ReadyHasValue, Nothing,
       Outcomes

\* What a step of u_future_complete or u_future_cancel that decides relies on.
LEMMA DecideKeepsTypes ==
  ASSUME TypeOK, NEW s \in {"ready", "cancelled"}, NEW r \in Outcomes,
         Decide(s, r)
  PROVE  /\ state' = s /\ result' = r
         /\ wpc' \in [Waiters -> {"idle", "asleep", "woken", "unlocked"}]
BY DEF TypeOK, Decide, Broadcast, Sleepers

\* u_future_complete: the first to get the lock decides, the others are told no.
LEMMA CompleteHolds ==
  ASSUME FutureInv, NEW p \in Producers, Complete(p)
  PROVE  FutureInv'
<1>1. CASE state = "pending"
  <2>1. PICK r \in Results : StoreValue(r) /\ Decide("ready", r)
    BY <1>1 DEF Complete
  <2>2. completed' = [completed EXCEPT ![p] = "success"]
    BY <1>1 DEF Complete
  <2>3. UNCHANGED <<answer, got>>
    BY DEF Complete
  <2>4. state' = "ready" /\ result' = r
        /\ wpc' \in [Waiters -> {"idle", "asleep", "woken", "unlocked"}]
    BY <2>1, DecideKeepsTypes DEF Outcomes, FutureInv
  <2>5. TypeOK'
    BY <2>1, <2>2, <2>3, <2>4 DEF FutureInv, TypeOK, Outcomes, StoreValue
  <2>6. OneOutcome'
    <3>1. \A t \in Waiters : answer[t]' \in {Nothing, "timeout"}
            /\ got[t]' = Nothing
      BY <1>1, <2>3 DEF FutureInv, Undecided
    <3>2. \A q \in Producers : completed'[q] = "success" => q = p
      BY <1>1, <2>2 DEF FutureInv, TypeOK, Undecided
    <3>3. QED
      BY <2>4, <3>1, <3>2 DEF OneOutcome
  <2>7. QED
    BY <2>1, <2>4, <2>5, <2>6 DEF FutureInv, Undecided, ReadyHasValue, StoreValue
<1>2. CASE state # "pending"
  <2>1. /\ completed' = [completed EXCEPT ![p] = "refused"]
        /\ UNCHANGED <<state, result, value, wpc, answer, got>>
    BY <1>2 DEF Complete
  <2>2. TypeOK'
    BY <2>1 DEF FutureInv, TypeOK
  <2>3. \A q \in Producers : completed'[q] = "success"
          => completed[q] = "success"
    BY <2>1 DEF FutureInv, TypeOK
  <2>4. OneOutcome'
    BY <2>1, <2>3 DEF FutureInv, OneOutcome
  <2>5. QED
    BY <1>2, <2>1, <2>2, <2>4 DEF FutureInv, Undecided, ReadyHasValue
<1>3. QED
  BY <1>1, <1>2

\* u_future_cancel decides a pending future and leaves a decided one alone.
LEMMA CancelHolds ==
  ASSUME FutureInv, Cancel
  PROVE  FutureInv'
<1>1. state' = "cancelled" /\ result' = "cancelled"
      /\ wpc' \in [Waiters -> {"idle", "asleep", "woken", "unlocked"}]
  BY DecideKeepsTypes DEF Cancel, FutureInv, Outcomes
<1>2. UNCHANGED <<value, answer, got, completed>> /\ state = "pending"
  BY DEF Cancel
<1>3. TypeOK'
  BY <1>1, <1>2 DEF FutureInv, TypeOK, Outcomes
<1>4. QED
  BY <1>1, <1>2, <1>3 DEF FutureInv, OneOutcome, Undecided, ReadyHasValue

\* The steps of a thread that waits or asks.
LEMMA WaiterHolds ==
  ASSUME FutureInv, NEW t \in Waiters,
         \/ Wait(t) \/ TimedOut(t) \/ SpuriousWakeup(t) \/ ReadResult(t)
         \/ GetResult(t)
  PROVE  FutureInv'
<1> USE DEF FutureInv
<1>1. CASE Wait(t)
  BY <1>1 DEF Wait, WaitUnchanged, TypeOK, OneOutcome, Undecided, ReadyHasValue
<1>2. CASE TimedOut(t)
  <2>1. CASE state = "pending"
    BY <1>2, <2>1 DEF TimedOut, WaitUnchanged, TypeOK, OneOutcome, Undecided,
                      ReadyHasValue
  <2>2. CASE state # "pending"
    BY <1>2, <2>2 DEF TimedOut, WaitUnchanged, TypeOK, OneOutcome, Undecided,
                      ReadyHasValue
  <2>3. QED
    BY <2>1, <2>2
<1>3. CASE SpuriousWakeup(t)
  BY <1>3 DEF SpuriousWakeup, WaitUnchanged, TypeOK, OneOutcome, Undecided,
              ReadyHasValue
<1>4. CASE ReadResult(t)
  <2>1. state # "pending"
    BY <1>4 DEF ReadResult, Undecided
  <2>2. QED
    BY <1>4, <2>1 DEF ReadResult, WaitUnchanged, TypeOK, OneOutcome, Undecided,
                      ReadyHasValue
<1>5. CASE GetResult(t)
  <2>1. got' = [got EXCEPT ![t] = result]
    BY <1>5 DEF GetResult, ReadyHasValue, TypeOK
  <2>2. state # "pending"
          /\ UNCHANGED <<state, result, value, wpc, answer, completed>>
    BY <1>5 DEF GetResult
  <2>3. QED
    BY <2>1, <2>2 DEF TypeOK, OneOutcome, Undecided, ReadyHasValue
<1>6. QED
  BY <1>1, <1>2, <1>3, <1>4, <1>5

(* The invariant of the future holds in every reachable state. *)
THEOREM FutureInvariant == Spec => []FutureInv
<1>1. FutureInv /\ [Next]_vars => FutureInv'
  <2> SUFFICES ASSUME FutureInv, [Next]_vars PROVE FutureInv'
    OBVIOUS
  <2>1. ASSUME NEW p \in Producers, Complete(p) PROVE FutureInv'
    BY <2>1, CompleteHolds
  <2>2. CASE Cancel
    BY <2>2, CancelHolds
  <2>3. ASSUME NEW t \in Waiters,
               \/ Wait(t) \/ TimedOut(t) \/ SpuriousWakeup(t) \/ ReadResult(t)
               \/ GetResult(t)
        PROVE  FutureInv'
    BY <2>3, WaiterHolds
  <2>4. CASE UNCHANGED vars
    BY <2>4 DEF vars, FutureInv, TypeOK, OneOutcome, Undecided, ReadyHasValue
  <2>5. QED
    BY <2>1, <2>2, <2>3, <2>4 DEF Next
<1>2. QED
  BY <1>1, InitHolds, PTL DEF Spec

(* Everybody who is told an outcome is told the same one, and one producer   *)
(* at most decided it: the race of u_future_complete with u_future_cancel    *)
(* and with itself, whoever waits.                                           *)
THEOREM OneOutcomeForAll == Spec => []OneOutcome
<1>1. FutureInv => OneOutcome
  BY DEF FutureInv
<1>2. QED
  BY <1>1, FutureInvariant, PTL

-----------------------------------------------------------------------------
(* SinkQueue. *)

QueueInv ==
  /\ Queue!TypeOK
  /\ ~queueRunning => queue = <<>>
  /\ control = "up" <=> queueRunning

(* Init establishes the invariant. *)
LEMMA QueueInitHolds == Queue!ConstantsAssumption /\ Queue!Init => QueueInv
BY DEF Queue!ConstantsAssumption, Queue!Init, QueueInv, Queue!TypeOK,
   Queue!Frames

(* Every step of the producer, the thread and the teardown keeps it.          *)
LEMMA QueueStepHolds ==
  ASSUME Queue!ConstantsAssumption, QueueInv, [Queue!Next]_(Queue!vars)
  PROVE  QueueInv'
<1> USE DEF QueueInv, Queue!TypeOK, Queue!Frames, Queue!ConstantsAssumption
<1>1. CASE Queue!queue_frame
  <2>1. framesPushed' \in Queue!Frames /\ framesPushed' \in 0 .. MaxFrames
    BY <1>1 DEF Queue!queue_frame
  <2>2. queue' \in Seq(Queue!Frames) /\ (MaxSize > 0 => Len(queue') <= MaxSize)
    <3>1. CASE Queue!queue_is_full
      <4>1. queue # <<>> /\ Tail(queue) \in Seq(Queue!Frames)
            /\ Len(Tail(queue)) = Len(queue) - 1
        BY <3>1 DEF Queue!queue_is_full
      <4>2. Append(Tail(queue), framesPushed') \in Seq(Queue!Frames)
            /\ Len(Append(Tail(queue), framesPushed')) = Len(queue)
        BY <2>1, <4>1
      <4>3. queue' = queue \/ queue' = Append(Tail(queue), framesPushed')
        BY <1>1, <3>1 DEF Queue!queue_frame, Queue!queue_try_refpush
      <4>4. QED
        BY <4>2, <4>3
    <3>2. CASE ~Queue!queue_is_full
      <4>1. Append(queue, framesPushed') \in Seq(Queue!Frames)
            /\ Len(Append(queue, framesPushed')) = Len(queue) + 1
        BY <2>1
      <4>2. queue' = queue \/ queue' = Append(queue, framesPushed')
        BY <1>1, <3>2 DEF Queue!queue_frame, Queue!queue_try_refpush
      <4>3. MaxSize > 0 => Len(queue) + 1 <= MaxSize
        BY <3>2 DEF Queue!queue_is_full
      <4>4. QED
        BY <4>1, <4>2, <4>3
    <3>3. QED
      BY <3>1, <3>2
  <2>3. queuePlace' \in {"start", "asleep", "woken", "consuming", "exited"}
    BY <1>1 DEF Queue!queue_frame, Queue!Signal
  <2>4. ~queueRunning' => queue' = <<>>
    BY <1>1 DEF Queue!queue_frame
  <2>5. QED
    BY <1>1, <2>1, <2>2, <2>3, <2>4 DEF Queue!queue_frame
<1>2. CASE Queue!Loop
  <2>1. CASE queue # <<>> /\ queueFrame' = Head(queue) /\ queue' = Tail(queue)
    <3>1. Head(queue) \in Queue!Frames /\ Tail(queue) \in Seq(Queue!Frames)
          /\ Len(Tail(queue)) = Len(queue) - 1 /\ Len(queue) \in Nat
      BY <2>1
    <3>2. queue' \in Seq(Queue!Frames) /\ queueFrame' \in Queue!Frames
          /\ (MaxSize > 0 => Len(queue') <= MaxSize)
      BY <2>1, <3>1
    <3>3. /\ UNCHANGED <<queueRunning, control, framesPushed>> /\ queueRunning
          /\ queuePlace' \in {"start", "asleep", "woken", "consuming", "exited"}
      BY <1>2, <2>1 DEF Queue!Loop
    <3>4. QED
      BY <3>2, <3>3
  <2>2. CASE UNCHANGED <<queue, queueFrame>>
    BY <1>2, <2>2 DEF Queue!Loop
  <2>3. QED
    BY <1>2, <2>1, <2>2 DEF Queue!Loop
<1>3. CASE Queue!Consumed \/ Queue!Spurious \/ Queue!Joined
  BY <1>3 DEF Queue!Consumed, Queue!Spurious, Queue!Joined
<1>4. CASE Queue!queue_break_apart
  <2>1. queue' \in Seq(Queue!Frames) /\ Len(queue') = 0 /\ queue' = <<>>
    BY <1>4 DEF Queue!queue_break_apart
  <2>2. queueRunning' \in BOOLEAN /\ ~queueRunning'
    BY <1>4, Zenon DEF Queue!queue_break_apart
  <2>3. queuePlace' \in {"start", "asleep", "woken", "consuming", "exited"}
        /\ control' = "joining" /\ UNCHANGED <<queueFrame, framesPushed>>
    BY <1>4 DEF Queue!queue_break_apart, Queue!Signal
  <2>4. QED
    BY <2>1, <2>2, <2>3
<1>5. CASE Queue!Finished \/ UNCHANGED Queue!vars
  BY <1>5 DEF Queue!Finished, Queue!vars
<1>6. QED
  BY <1>1, <1>2, <1>3, <1>4, <1>5 DEF Queue!Next

(* Each step is one of the FIFO's, or changes nothing it can see. *)
LEMMA StepIsFifo ==
  ASSUME Queue!ConstantsAssumption, QueueInv, [Queue!Next]_(Queue!vars)
  PROVE  [Queue!Fifo!Next]_(Queue!Fifo!vars)
<1> USE DEF QueueInv, Queue!TypeOK, Queue!ConstantsAssumption, Queue!Fifo!vars
<1>1. CASE Queue!queue_frame
  <2>1. Queue!queue_is_full <=> ~Queue!Fifo!Room
    BY DEF Queue!queue_is_full, Queue!Fifo!Room
  <2>2. Queue!Fifo!Put
    BY <1>1, <2>1
    DEF Queue!queue_frame, Queue!queue_try_refpush, Queue!Fifo!Put
  <2>3. QED
    BY <2>2 DEF Queue!Fifo!Next
<1>2. CASE Queue!Loop
  <2>1. CASE queue # <<>> /\ queueFrame' = Head(queue) /\ queue' = Tail(queue)
    <3>1. Queue!Fifo!Take
      BY <1>2, <2>1 DEF Queue!Loop, Queue!Fifo!Take
    <3>2. QED
      BY <3>1 DEF Queue!Fifo!Next
  <2>2. CASE UNCHANGED <<queue, queueFrame>>
    BY <1>2, <2>2 DEF Queue!Loop
  <2>3. QED
    BY <1>2, <2>1, <2>2 DEF Queue!Loop
<1>3. CASE Queue!queue_break_apart
  <2>1. Queue!Fifo!Stop
    BY <1>3 DEF Queue!queue_break_apart, Queue!Fifo!Stop
  <2>2. QED
    BY <2>1 DEF Queue!Fifo!Next
<1>4. CASE Queue!Consumed \/ Queue!Spurious \/ Queue!Joined \/ Queue!Finished
             \/ UNCHANGED Queue!vars
  BY <1>4
  DEF Queue!Consumed, Queue!Spurious, Queue!Joined, Queue!Finished, Queue!vars
<1>5. QED
  BY <1>1, <1>2, <1>3, <1>4 DEF Queue!Next

(* u_sink_queue.c never holds more than its bound, holds nothing once it has *)
(* been broken apart, and is broken apart once.                              *)
THEOREM QueueInvariant ==
  ASSUME Queue!ConstantsAssumption
  PROVE  Queue!Init /\ [][Queue!Next]_(Queue!vars) => []QueueInv
<1>1. Queue!Init => QueueInv
  BY QueueInitHolds
<1>2. QueueInv /\ [Queue!Next]_(Queue!vars) => QueueInv'
  BY QueueStepHolds
<1>3. QED
  BY <1>1, <1>2, PTL

(* Every behaviour of the queue is one of a lossy FIFO, its fairness aside:  *)
(* frames come out in order, the oldest one is dropped and only when the     *)
(* queue is full, and none comes out after it has been broken apart.         *)
THEOREM QueueIsFifo ==
  ASSUME Queue!ConstantsAssumption
  PROVE  Queue!Init /\ [][Queue!Next]_(Queue!vars)
           => Queue!Fifo!Init /\ [][Queue!Fifo!Next]_(Queue!Fifo!vars)
<1>1. Queue!Init => Queue!Fifo!Init
  BY DEF Queue!Init, Queue!Fifo!Init
<1>2. QueueInv /\ [Queue!Next]_(Queue!vars)
        => [Queue!Fifo!Next]_(Queue!Fifo!vars)
  BY StepIsFifo
<1>3. QED
  BY <1>1, <1>2, QueueInvariant, PTL

-----------------------------------------------------------------------------
(* StereoSinks. *)

StereoSpec == Stereo!Init /\ [][Stereo!Next]_(Stereo!vars)

\* Nodes that have been told to stop, the one that is being joined among them.
Stopped == IF joining THEN broken + 1 ELSE broken

(* The teardown goes through the list in order, and a node it has done with *)
(* has no thread left.                                                      *)
TeardownInv ==
  /\ broken \in 0 .. 4 /\ joining \in BOOLEAN /\ destroyed \in BOOLEAN
  /\ running \in [{"genlock", "combiner", "queue", "source"} -> BOOLEAN]
  /\ glpc \in Stereo!Places /\ qpc \in Stereo!Places
  /\ joining => broken < 4
  /\ running["combiner"] <=> Stopped < 1
  /\ running["genlock"] <=> Stopped < 2
  /\ running["queue"] <=> Stopped < 3
  /\ running["source"] <=> Stopped < 4
  /\ broken >= 2 => glpc = "exited"
  /\ broken >= 3 => qpc = "exited"
  /\ destroyed => broken = 4
  /\ aborted = FALSE

\* What is in the combiner: the left frame of the pair, between two pushes.
InCombiner(s) ==
  IF s = "left" /\ glpc = "right" /\ running["combiner"] THEN pair["left"]
    ELSE Stereo!None

(* A pair goes through the sinks in one piece, and behind older ones. *)
PairInv ==
  /\ exposure \in [Stereo!Sides -> 0 .. MaxExposure]
  /\ locked \in [Stereo!Sides -> 0 .. MaxExposure]
  /\ pair \in [Stereo!Sides -> 0 .. MaxExposure]
  /\ combined \in [Stereo!Sides -> 0 .. MaxExposure]
  /\ frame \in [Stereo!Sides -> 0 .. MaxExposure]
  /\ consumed \in [Stereo!Sides -> 0 .. MaxExposure]
  /\ seq \in [current : Nat, last : Nat]
  /\ pair["left"] = pair["right"]
  /\ frame["left"] = frame["right"]
  /\ consumed["left"] = consumed["right"]
  /\ glpc \in {"left", "right"} => pair["left"] # Stereo!None
  /\ \A s \in Stereo!Sides :
       /\ combined[s] = InCombiner(s)
       /\ pair[s] <= exposure[s]
       /\ locked[s] <= exposure[s]
       /\ locked[s] # Stereo!None => pair[s] <= locked[s]
  /\ consumed["left"] <= pair["left"] /\ frame["left"] <= pair["left"]
  /\ frame["left"] # Stereo!None => consumed["left"] <= frame["left"]

StereoInv == TeardownInv /\ PairInv

(* Signals and spurious wakeups keep the places of the threads, and a thread *)
(* that has ended stays where it is.                                         *)
LEMMA SignalledPlace ==
  ASSUME NEW pc \in Stereo!Places
  PROVE  /\ Stereo!Signalled(pc) \in Stereo!Places
         /\ pc \notin {"asleep"} => Stereo!Signalled(pc) = pc
         /\ pc = "asleep" => Stereo!Signalled(pc) = "woken"
BY DEF Stereo!Signalled, Stereo!Places

\* A step on which no assertion fails.
LEMMA NoFailure ==
  ASSUME aborted = FALSE, NEW failed, ~failed, aborted' = (aborted \/ failed)
  PROVE  UNCHANGED aborted
BY Zenon

\* No node is freed while a thread or a camera may still use it.
LEMMA NotFreed ==
  ASSUME TeardownInv, running["source"] \/ glpc # "exited" \/ qpc # "exited"
  PROVE  ~destroyed
BY DEF TeardownInv, Stopped

(* A step of the threads keeps what the teardown knows, when it aborts       *)
(* nothing and no thread comes back.                                         *)
LEMMA TeardownKept ==
  ASSUME TeardownInv, UNCHANGED Stereo!contextVars, UNCHANGED aborted,
         glpc' \in Stereo!Places, qpc' \in Stereo!Places,
         glpc = "exited" => glpc' = "exited", qpc = "exited" => qpc' = "exited"
  PROVE  TeardownInv'
BY DEF TeardownInv, Stopped, Stereo!contextVars

\* force_genlock_receive_frame: a newer frame takes the place of an older one.
LEMMA CaptureHolds ==
  ASSUME MaxExposure \in Nat, StereoInv, NEW s \in Stereo!Sides,
         Stereo!Capture(s)
  PROVE  StereoInv'
<1> USE DEF StereoInv
<1>1. ~destroyed
  BY NotFreed DEF Stereo!Capture
<1>2. UNCHANGED <<pair, combined, frame, seq, qpc, consumed, running, broken,
                  joining, destroyed>>
  BY DEF Stereo!Capture, Stereo!queueVars, Stereo!contextVars
<1>3. UNCHANGED aborted
  <2>1. CASE UNCHANGED aborted
    BY <2>1
  <2>2. CASE aborted' = (aborted \/ destroyed)
    BY <1>1, <2>2, NoFailure DEF TeardownInv
  <2> QED BY <2>1, <2>2 DEF Stereo!Capture
<1>4. glpc' = glpc \/ glpc' = Stereo!Signalled(glpc)
  BY DEF Stereo!Capture
<1>5. /\ glpc' \in Stereo!Places
      /\ glpc = "exited" => glpc' = "exited"
      /\ glpc' \in {"left", "right"} \/ glpc \in {"left", "right"}
           => glpc' = glpc
  BY <1>4, SignalledPlace DEF TeardownInv, Stereo!Places, Stereo!Signalled
<1>6. TeardownInv'
  BY <1>2, <1>3, <1>5, TeardownKept DEF Stereo!contextVars, TeardownInv
<1>7. /\ exposure' = [exposure EXCEPT ![s] = @ + 1]
      /\ exposure[s] < MaxExposure
      /\ locked' = locked \/ locked' = [locked EXCEPT ![s] = exposure'[s]]
  BY DEF Stereo!Capture
<1>8. \A t \in Stereo!Sides : InCombiner(t)' = InCombiner(t)
  BY <1>2, <1>5 DEF InCombiner
<1>9. PairInv'
  BY <1>2, <1>5, <1>7, <1>8 DEF PairInv, Stereo!Sides, Stereo!None
<1> QED BY <1>6, <1>9

\* force_genlock_mainloop takes two frames of one exposure.
LEMMA PairUpHolds ==
  ASSUME MaxExposure \in Nat, StereoInv, Stereo!PairUp
  PROVE  StereoInv'
<1> USE DEF StereoInv
<1>1. /\ UNCHANGED <<exposure, combined, frame, seq, qpc, consumed, running,
                     broken>>
      /\ UNCHANGED <<joining, destroyed, aborted>>
      /\ glpc \in {"start", "woken"}
      /\ glpc' \in {"exited", "asleep", "start", "left"}
  BY DEF Stereo!PairUp, Stereo!queueVars, Stereo!contextVars
<1>2. TeardownInv'
  BY <1>1, TeardownKept DEF Stereo!contextVars, TeardownInv, Stereo!Places
<1>3. \A t \in Stereo!Sides : InCombiner(t)' = InCombiner(t)
  BY <1>1 DEF InCombiner, Stereo!None
<1>4. CASE UNCHANGED <<locked, pair>> /\ glpc' # "left"
  BY <1>1, <1>2, <1>3, <1>4 DEF PairInv
<1>5. CASE locked' = Stereo!Later(locked) /\ glpc' = "start" /\ UNCHANGED pair
  <2>1. locked' \in [Stereo!Sides -> 0 .. MaxExposure]
    BY <1>5 DEF Stereo!Later, PairInv, Stereo!Sides, Stereo!None
  <2>2. \A t \in Stereo!Sides : locked'[t] = locked[t]
          \/ locked'[t] = Stereo!None
    BY <1>5 DEF Stereo!Later
  <2>3. PairInv'
    BY <1>1, <1>3, <1>5, <2>1, <2>2 DEF PairInv, Stereo!None
  <2> QED BY <1>2, <2>3
<1>6. CASE /\ Stereo!Both(locked) /\ locked["left"] = locked["right"]
           /\ pair' = locked /\ locked' = Stereo!Empty /\ glpc' = "left"
  <2>1. locked' \in [Stereo!Sides -> 0 .. MaxExposure]
          /\ \A t \in Stereo!Sides : locked'[t] = Stereo!None
    BY <1>6 DEF Stereo!Empty, Stereo!None
  <2>2. /\ pair["left"] <= locked["left"]
        /\ locked["left"] # Stereo!None /\ locked["right"] # Stereo!None
    BY <1>6 DEF PairInv, Stereo!Both, Stereo!Sides
  <2>3. PairInv'
    BY <1>1, <1>3, <1>6, <2>1, <2>2 DEF PairInv, Stereo!None, Stereo!Sides
  <2> QED BY <1>2, <2>3
<1> QED BY <1>2, <1>4, <1>5, <1>6 DEF Stereo!PairUp

\* The left frame waits in the combiner.
LEMMA PushLeftHolds ==
  ASSUME MaxExposure \in Nat, StereoInv, Stereo!PushLeft
  PROVE  StereoInv'
<1> USE DEF StereoInv
<1>1. ~destroyed
  BY NotFreed DEF Stereo!PushLeft
<1>2. /\ UNCHANGED <<exposure, locked, pair, frame, seq, qpc, consumed>>
      /\ UNCHANGED <<running, broken, joining, destroyed>>
      /\ glpc = "left" /\ glpc' = "right"
  BY DEF Stereo!PushLeft, Stereo!cameraVars, Stereo!queueVars,
     Stereo!contextVars
<1>3. UNCHANGED aborted
  <2>1. aborted' = (aborted \/ destroyed)
    BY DEF Stereo!PushLeft
  <2> QED BY <1>1, <2>1, NoFailure DEF TeardownInv
<1>4. TeardownInv'
  BY <1>2, <1>3, TeardownKept
  DEF Stereo!contextVars, TeardownInv, Stereo!Places
<1>5. combined' \in [Stereo!Sides -> 0 .. MaxExposure]
  BY DEF Stereo!PushLeft, PairInv, Stereo!Sides, Stereo!None
<1>6. \A t \in Stereo!Sides : combined'[t] = InCombiner(t)'
  <2>1. CASE running["combiner"]
    BY <1>2, <2>1 DEF Stereo!PushLeft, InCombiner, Stereo!Sides
  <2>2. CASE ~running["combiner"]
    BY <1>2, <2>2 DEF Stereo!PushLeft, InCombiner, PairInv
  <2> QED BY <2>1, <2>2
<1>7. PairInv'
  BY <1>2, <1>5, <1>6 DEF PairInv
<1> QED BY <1>4, <1>7

\* The right frame goes on with the left one, into the queue.
LEMMA PushRightHolds ==
  ASSUME MaxExposure \in Nat, StereoInv, Stereo!PushRight
  PROVE  StereoInv'
<1> USE DEF StereoInv
<1> DEFINE frames == IF running["combiner"]
                     THEN [combined EXCEPT !["right"] = pair["right"]]
                     ELSE combined
<1>1. ~destroyed
  BY NotFreed DEF Stereo!PushRight
<1>2. /\ UNCHANGED <<exposure, locked, pair, consumed>>
      /\ UNCHANGED <<running, broken, joining, destroyed>>
      /\ glpc = "right" /\ glpc' = "start"
  BY DEF Stereo!PushRight, Stereo!cameraVars, Stereo!contextVars
<1>3. /\ running["combiner"]
           => frames["left"] = pair["left"] /\ frames["right"] = pair["left"]
      /\ ~running["combiner"] => frames["left"] = Stereo!None
      /\ frames \in [Stereo!Sides -> 0 .. MaxExposure]
  BY <1>2 DEF PairInv, InCombiner, Stereo!Sides, Stereo!None
<1>4. pair["left"] # Stereo!None
  BY <1>2 DEF PairInv
<1>5. Stereo!Both(frames) <=> running["combiner"]
  BY <1>3, <1>4 DEF Stereo!Both
<1>6. \A t \in Stereo!Sides : InCombiner(t)' = Stereo!None
  BY <1>2 DEF InCombiner
<1>7. CASE ~running["combiner"]
  <2>1. /\ combined' = combined /\ UNCHANGED <<frame, seq, qpc>>
        /\ aborted' = (aborted \/ destroyed)
    BY <1>5, <1>7 DEF Stereo!PushRight
  <2>2. UNCHANGED aborted
    BY <1>1, <2>1, NoFailure DEF TeardownInv
  <2>3. TeardownInv'
    BY <1>2, <2>1, <2>2, TeardownKept
    DEF Stereo!contextVars, TeardownInv, Stereo!Places
  <2>4. \A t \in Stereo!Sides : combined[t] = Stereo!None
    BY <1>7 DEF PairInv, InCombiner
  <2>5. PairInv'
    BY <1>2, <1>6, <2>1, <2>4 DEF PairInv
  <2> QED BY <2>3, <2>5
<1>8. CASE running["combiner"]
  <2>1. /\ combined' = Stereo!Empty /\ qpc' = Stereo!Signalled(qpc)
        /\ \/ frame' = frames /\ seq' = [seq EXCEPT !.current = @ + 1]
           \/ UNCHANGED <<frame, seq>>
        /\ aborted' = (aborted \/ destroyed \/ frames["left"] # frames["right"])
    BY <1>5, <1>8 DEF Stereo!PushRight
  <2>2. UNCHANGED aborted
    <3>1. frames["left"] = frames["right"]
      BY <1>3, <1>8
    <3>2. ~(destroyed \/ frames["left"] # frames["right"])
      BY <1>1, <3>1
    <3>3. aborted' = (aborted \/ (destroyed \/ frames["left"] # frames["right"]))
      BY <2>1, Zenon
    <3> QED BY <3>2, <3>3, NoFailure DEF TeardownInv
  <2>3. qpc' \in Stereo!Places /\ (qpc = "exited" => qpc' = "exited")
    BY <2>1, SignalledPlace DEF TeardownInv
  <2>4. TeardownInv'
    BY <1>2, <2>2, <2>3, TeardownKept
    DEF Stereo!contextVars, TeardownInv, Stereo!Places
  <2>5. /\ combined' \in [Stereo!Sides -> 0 .. MaxExposure]
        /\ \A t \in Stereo!Sides : combined'[t] = Stereo!None
    BY <2>1 DEF Stereo!Empty, Stereo!None
  <2>6. seq' \in [current : Nat, last : Nat]
    BY <2>1 DEF PairInv
  <2>7. /\ frame' \in [Stereo!Sides -> 0 .. MaxExposure]
        /\ frame'["left"] = frame'["right"]
        /\ frame'["left"] = frame["left"] \/ frame'["left"] = pair["left"]
    BY <1>3, <1>8, <2>1 DEF PairInv
  <2>8. PairInv'
    BY <1>2, <1>6, <2>5, <2>6, <2>7 DEF PairInv, Stereo!Sides
  <2> QED BY <2>4, <2>8
<1> QED BY <1>7, <1>8

\* queue_mainloop hands its frame to the consumer.
LEMMA QueueHolds ==
  ASSUME MaxExposure \in Nat, StereoInv, Stereo!Queue \/ Stereo!Spurious
  PROVE  StereoInv'
<1> USE DEF StereoInv
<1>1. /\ UNCHANGED <<exposure, locked, pair, combined, running, broken,
                     joining, destroyed>>
      /\ qpc' \in Stereo!Places /\ (qpc = "exited" => qpc' = "exited")
      /\ glpc' = glpc \/ (glpc = "asleep" /\ glpc' = "woken")
  BY DEF Stereo!Queue, Stereo!Consume, Stereo!ConsumerReturns,
     Stereo!Spurious, Stereo!cameraVars, Stereo!genlockVars,
     Stereo!contextVars,
         TeardownInv, Stereo!Places
<1>2. UNCHANGED aborted
  <2>1. CASE Stereo!ConsumerReturns
    <3>1. ~destroyed /\ aborted' = (aborted \/ destroyed)
      BY <2>1, NotFreed DEF Stereo!ConsumerReturns
    <3> QED BY <3>1, NoFailure DEF TeardownInv
  <2>2. CASE Stereo!Consume \/ Stereo!Spurious
    BY <2>2 DEF Stereo!Consume, Stereo!Spurious
  <2> QED BY <2>1, <2>2 DEF Stereo!Queue
<1>3. TeardownInv'
  BY <1>1, <1>2, TeardownKept
  DEF Stereo!contextVars, TeardownInv, Stereo!Places
<1>4. \A t \in Stereo!Sides : InCombiner(t)' = InCombiner(t)
  BY <1>1 DEF InCombiner
<1>5. CASE UNCHANGED <<frame, seq, consumed>>
  BY <1>1, <1>3, <1>4, <1>5 DEF PairInv
<1>6. CASE /\ seq' = [seq EXCEPT !.last = seq.current]
           /\ consumed' = frame /\ frame' = Stereo!Empty
  <2>1. frame' \in [Stereo!Sides -> 0 .. MaxExposure]
          /\ \A t \in Stereo!Sides : frame'[t] = Stereo!None
    BY <1>6 DEF Stereo!Empty, Stereo!None
  <2>2. seq' \in [current : Nat, last : Nat]
    BY <1>6 DEF PairInv
  <2>3. PairInv'
    BY <1>1, <1>4, <1>6, <2>1, <2>2 DEF PairInv, Stereo!Sides, Stereo!None
  <2> QED BY <1>3, <2>3
<1> QED BY <1>5, <1>6
        DEF Stereo!Queue, Stereo!Consume, Stereo!ConsumerReturns,
            Stereo!Spurious

\* break_apart of the next node in the list: its thread is told to stop.
LEMMA BreakApartHolds ==
  ASSUME MaxExposure \in Nat, StereoInv, Stereo!BreakApart
  PROVE  StereoInv'
<1> USE DEF StereoInv
<1> DEFINE n == Stereo!Nodes[broken + 1]
<1>1. /\ UNCHANGED <<exposure, pair, seq, consumed, broken, destroyed,
                     aborted>>
      /\ broken < 4 /\ ~joining /\ joining'
      /\ joining' \in BOOLEAN
  BY Zenon DEF Stereo!BreakApart
<1>2. \/ broken = 0 /\ n = "combiner"
      \/ broken = 1 /\ n = "genlock"
      \/ broken = 2 /\ n = "queue"
      \/ broken = 3 /\ n = "source"
  <2>1. broken = 0 \/ broken = 1 \/ broken = 2 \/ broken = 3
    BY <1>1 DEF TeardownInv
  <2>2. /\ Stereo!Nodes[1] = "combiner" /\ Stereo!Nodes[2] = "genlock"
        /\ Stereo!Nodes[3] = "queue" /\ Stereo!Nodes[4] = "source"
    BY DEF Stereo!Nodes
  <2>3. CASE broken = 0
    BY <2>2, <2>3
  <2>4. CASE broken = 1
    BY <2>2, <2>4
  <2>5. CASE broken = 2
    BY <2>2, <2>5
  <2>6. CASE broken = 3
    BY <2>2, <2>6
  <2> QED BY <2>1, <2>3, <2>4, <2>5, <2>6
<1>3. running' = [running EXCEPT ![n] = FALSE]
  BY DEF Stereo!BreakApart
<1>4. /\ glpc' \in Stereo!Places /\ (glpc = "exited" => glpc' = "exited")
      /\ glpc' \in {"left", "right"} \/ glpc \in {"left", "right"}
           => glpc' = glpc
      /\ qpc' \in Stereo!Places /\ (qpc = "exited" => qpc' = "exited")
  BY DEF Stereo!BreakApart, TeardownInv, Stereo!Signalled, Stereo!Places
<1>5. TeardownInv'
  BY <1>1, <1>2, <1>3, <1>4 DEF TeardownInv, Stopped
<1>6. /\ locked' = IF n = "genlock" THEN Stereo!Empty ELSE locked
      /\ frame' = IF n = "queue" THEN Stereo!Empty ELSE frame
      /\ combined' = IF n = "combiner" THEN Stereo!Empty ELSE combined
  BY DEF Stereo!BreakApart
<1>61. /\ Stereo!Empty \in [Stereo!Sides -> 0 .. MaxExposure]
       /\ \A t \in Stereo!Sides : Stereo!Empty[t] = Stereo!None
  BY DEF Stereo!Empty, Stereo!None
<1> HIDE DEF n
<1>62. /\ locked' \in [Stereo!Sides -> 0 .. MaxExposure]
       /\ \A t \in Stereo!Sides : locked'[t] = locked[t]
            \/ locked'[t] = Stereo!None
  BY <1>6, <1>61 DEF PairInv
<1>63. /\ frame' \in [Stereo!Sides -> 0 .. MaxExposure]
       /\ \/ frame' = frame
          \/ frame'["left"] = Stereo!None /\ frame'["right"] = Stereo!None
  <2>1. Stereo!Empty["left"] = Stereo!None
          /\ Stereo!Empty["right"] = Stereo!None
    BY <1>61 DEF Stereo!Sides
  <2>2. CASE n = "queue"
    BY <1>6, <1>61, <2>1, <2>2
  <2>3. CASE n # "queue"
    BY <1>6, <2>3 DEF PairInv
  <2> QED BY <2>2, <2>3
<1>64. /\ combined' \in [Stereo!Sides -> 0 .. MaxExposure]
       /\ \A t \in Stereo!Sides : combined'[t]
            = IF n = "combiner" THEN Stereo!None ELSE combined[t]
  BY <1>6, <1>61 DEF PairInv
<1>7. running["combiner"] <=> n = "combiner"
  BY <1>1, <1>2 DEF TeardownInv, Stopped
<1>8. ~running'["combiner"]
  BY <1>1, <1>5 DEF TeardownInv, Stopped
<1>9. \A t \in Stereo!Sides : combined'[t] = InCombiner(t)'
  BY <1>64, <1>7, <1>8 DEF InCombiner, PairInv
<1>10. PairInv'
  BY <1>1, <1>4, <1>62, <1>63, <1>64, <1>9
  DEF PairInv, Stereo!Sides, Stereo!None
<1> QED BY <1>5, <1>10

\* The thread of the node is joined; after the last one all are destroyed.
LEMMA TeardownHolds ==
  ASSUME StereoInv, Stereo!Joined \/ Stereo!Destroy
  PROVE  StereoInv'
<1> USE DEF StereoInv
<1>1. UNCHANGED <<Stereo!cameraVars, Stereo!genlockVars, combined,
                  Stereo!queueVars, running, aborted>>
  BY DEF Stereo!Joined, Stereo!Destroy
<1>2. PairInv'
  BY <1>1
  DEF PairInv, InCombiner, Stereo!cameraVars, Stereo!genlockVars,
      Stereo!queueVars
<1> USE DEF Stereo!cameraVars, Stereo!genlockVars, Stereo!queueVars
<1>3. CASE Stereo!Joined
  <2>1. joining' \in BOOLEAN /\ ~joining'
    BY <1>3, Zenon DEF Stereo!Joined
  <2>2. joining /\ broken' = broken + 1 /\ UNCHANGED destroyed
    BY <1>3 DEF Stereo!Joined
  <2>3. Stereo!Nodes[2] = "genlock" /\ Stereo!Nodes[3] = "queue"
    BY DEF Stereo!Nodes
  <2>4. (broken = 1 => glpc = "exited") /\ (broken = 2 => qpc = "exited")
    BY <1>3, <2>3 DEF Stereo!Joined
  <2>5. ~destroyed
    BY <2>2 DEF TeardownInv
  <2> QED BY <1>1, <1>2, <2>1, <2>2, <2>4, <2>5 DEF TeardownInv, Stopped
<1>4. CASE Stereo!Destroy
  <2>1. destroyed' \in BOOLEAN /\ broken = 4 /\ UNCHANGED <<broken, joining>>
    BY <1>4, Zenon DEF Stereo!Destroy
  <2> QED BY <1>1, <1>2, <2>1 DEF TeardownInv, Stopped
<1> QED BY <1>2, <1>3, <1>4

\* The invariant holds when the sinks were set up.
LEMMA StereoInitHolds ==
  ASSUME MaxExposure \in Nat, Stereo!Init
  PROVE  StereoInv
<1>1. \A s \in Stereo!Sides : InCombiner(s) = Stereo!None
  BY DEF Stereo!Init, InCombiner
<1>2. TeardownInv
  <2>1. joining \in BOOLEAN /\ destroyed \in BOOLEAN /\ ~joining /\ ~destroyed
    BY Zenon DEF Stereo!Init
  <2> QED BY <2>1 DEF Stereo!Init, TeardownInv, Stopped, Stereo!Places
<1>3. PairInv
  BY <1>1 DEF Stereo!Init, PairInv, Stereo!Empty, Stereo!None, Stereo!Sides
<1> QED BY <1>2, <1>3 DEF StereoInv

(* u_sink_force_genlock, u_sink_combiner and u_sink_simple_queue: the two     *)
(* frames of a pair are of one exposure in every node they pass, a node that  *)
(* was broken apart has no thread and is used no more, for any number of      *)
(* exposures and whichever frames the cameras miss.                           *)
THEOREM PairsStayTogether ==
  ASSUME MaxExposure \in Nat
  PROVE  StereoSpec => []StereoInv
<1>1. StereoInv /\ [Stereo!Next]_(Stereo!vars) => StereoInv'
  <2> SUFFICES ASSUME StereoInv, [Stereo!Next]_(Stereo!vars) PROVE StereoInv'
    OBVIOUS
  <2>1. CASE UNCHANGED Stereo!vars
    BY <2>1
    DEF Stereo!vars, Stereo!cameraVars, Stereo!genlockVars, Stereo!queueVars,
        Stereo!contextVars, StereoInv, TeardownInv,
                PairInv, Stopped, InCombiner
  <2> QED
    BY <2>1, CaptureHolds, PairUpHolds, PushLeftHolds, PushRightHolds,
       QueueHolds,
       BreakApartHolds, TeardownHolds
    DEF Stereo!Next, Stereo!Genlock, Stereo!Context, Stereo!Finished
<1> QED BY <1>1, StereoInitHolds, PTL DEF StereoSpec

\* What the consumer sees of it.
LEMMA PairInOrder ==
  ASSUME StereoInv
  PROVE  Stereo!TypeOK /\ Stereo!PairsInOrder
<1> USE DEF StereoInv
<1>1. aborted = FALSE
  BY DEF TeardownInv
<1>2. Stereo!TypeOK
  <2>1. aborted \in BOOLEAN
    BY <1>1, Zenon
  <2> QED BY <2>1 DEF Stereo!TypeOK, TeardownInv, PairInv
<1>3. \A f \in {pair["left"], locked["left"], frame["left"]} :
        f # Stereo!None => consumed["left"] <= f
  BY DEF PairInv, Stereo!Sides
<1> QED BY <1>1, <1>2, <1>3 DEF Stereo!PairsInOrder, PairInv

-----------------------------------------------------------------------------

(* WorkerPool has its own copy of the operators on finite sets.              *)
LEMMA SameSets ==
  ASSUME NEW S
  PROVE  (Pool!IsFiniteSet(S) <=> IsFiniteSet(S))
           /\ Pool!Cardinality(S) = Cardinality(S)
BY DEF Pool!IsFiniteSet, IsFiniteSet, Pool!Cardinality, Cardinality

-----------------------------------------------------------------------------
(* WorkerPool. *)

WorkerPlaces == {"head", "asleep", "woken", "working", "exited"}
UserPlaces == {"idle", "pushing", "asleep", "woken", "dropping", "joining", "gone"}

InArray(array, g) == {s \in Slots : array[s] = g}
InHand(pc, hand, g) == {w \in Workers : pc[w] = "working" /\ hand[w] = g}

(* The counters of a group and where its tasks are. *)
TaskInv ==
  /\ tasks \in [Slots -> Groups \union {NoTask}]
  /\ current_tasks_in_array \in [Groups -> Int]
  /\ current_working_tasks \in [Groups -> Int]
  /\ worker \in [Workers -> WorkerPlaces]
  /\ task \in [Workers -> Groups \union {NoTask}]
  /\ upc \in [Users -> UserPlaces]
  /\ why \in [Users -> {"push", "wait", "destroy"}]
  /\ \A w \in Workers : worker[w] = "working" => task[w] \in Groups
  /\ \A g \in Groups :
       /\ current_tasks_in_array[g] = Cardinality(InArray(tasks, g))
       /\ current_working_tasks[g] = Cardinality(InHand(worker, task, g))

\* find_task_locked: the first of the slots that are filled is one of them.
LEMMA FirstIsIn ==
  ASSUME Pool!ConstantsAssumption, NEW S, S \subseteq Slots, S # {}
  PROVE  Pool!First(S) \in S
<1>1. S \subseteq Nat
  BY DEF Pool!ConstantsAssumption
<1>2. PICK s \in S : \A t \in S : ~(<<t, s>> \in OpToRel(<, Nat))
  BY <1>1, NatLessThanWellFounded, WFMin, Zenon
<1>3. \A t \in S : ~(t < s)
  BY <1>1, <1>2 DEF OpToRel
<1>4. \A t \in S : s <= t
  BY <1>1, <1>3
<1> QED BY <1>4 DEF Pool!First

\* The tasks of a group, in the array and in hand, can be counted.
LEMMA SetsFinite ==
  ASSUME Pool!ConstantsAssumption, NEW array, NEW pc, NEW hand, NEW g
  PROVE  IsFiniteSet(InArray(array, g)) /\ IsFiniteSet(InHand(pc, hand, g))
<1>1. InArray(array, g) \in SUBSET Slots
        /\ InHand(pc, hand, g) \in SUBSET Workers
  BY DEF InArray, InHand
<1> QED BY <1>1, FS_Subset, SameSets DEF Pool!ConstantsAssumption

\* A signal leaves every worker where it is, or wakes it.
Woken(pc, q) ==
  /\ q \in [Workers -> WorkerPlaces]
  /\ \A w \in Workers : q[w] = pc[w] \/ (pc[w] = "asleep" /\ q[w] = "woken")

\* pthread_cond_signal wakes at most one sleeping worker.
LEMMA SignalWakes ==
  ASSUME NEW pc \in [Workers -> WorkerPlaces], NEW q \in Pool!Signalled(pc)
  PROVE  Woken(pc, q)
BY DEF Pool!Signalled, WorkerPlaces, Woken

\* wake_worker_if_allowed_locked does, or does nothing.
LEMMA WakeAllowed ==
  ASSUME NEW array, NEW working, NEW limit,
         NEW pc \in [Workers -> WorkerPlaces],
         NEW q \in Pool!WakeWorkerIfAllowed(array, working, limit, pc)
  PROVE  Woken(pc, q)
<1>1. CASE q = pc
  BY <1>1 DEF Woken
<1>2. CASE q \in Pool!Signalled(pc)
  BY <1>2, SignalWakes
<1> QED BY <1>1, <1>2 DEF Pool!WakeWorkerIfAllowed

(* One pass of run_func: the task the worker takes leaves the array and is in *)
(* its hands, and the counters of its group say so.                           *)
LEMMA LoopTasks ==
  ASSUME Pool!ConstantsAssumption, TaskInv,
         NEW w \in Workers, NEW working, NEW limit,
         NEW working_tasks \in [Groups -> Int],
         \A g \in Groups :
           working_tasks[g] = Cardinality(InHand(worker, task, g) \ {w}),
         Pool!Loop(w, working, working_tasks, limit),
         UNCHANGED why, upc' \in [Users -> UserPlaces]
  PROVE  TaskInv'
<1> USE DEF TaskInv
<1>1. CASE Pool!PopTask(w, working, working_tasks, limit)
             /\ Pool!Filled(tasks) # {}
  <2> DEFINE s == Pool!First(Pool!Filled(tasks))
             g == tasks[s]
             pc == [worker EXCEPT ![w] = "working"]
  <2>1. s \in Slots /\ g \in Groups /\ g # NoTask
    <3>1. s \in Pool!Filled(tasks)
      BY <1>1, FirstIsIn DEF Pool!Filled
    <3> QED BY <3>1 DEF Pool!Filled, Pool!ConstantsAssumption
  <2>2. /\ tasks' = [tasks EXCEPT ![s] = NoTask]
        /\ current_tasks_in_array' = [current_tasks_in_array EXCEPT ![g] = @ - 1]
        /\ current_working_tasks' = [working_tasks EXCEPT ![g] = @ + 1]
        /\ task' = [task EXCEPT ![w] = g]
        /\ worker' \in Pool!WakeWorkerIfAllowed(tasks', working + 1, limit, pc)
    BY <1>1 DEF Pool!PopTask
  <2> HIDE DEF s, g
  <2>3. pc \in [Workers -> WorkerPlaces]
    BY DEF WorkerPlaces
  <2>4. Woken(pc, worker')
    <3> HIDE DEF pc
    <3> QED BY <2>2, <2>3, WakeAllowed
  <2>5. \A v \in Workers : worker'[v] = "working"
          <=> v = w \/ worker[v] = "working"
    BY <2>4 DEF Woken
  <2>6. ASSUME NEW h \in Groups
        PROVE  current_tasks_in_array'[h] = Cardinality(InArray(tasks', h))
    <3>1. InArray(tasks', h) = InArray(tasks, h) \ {s}
      BY <2>1, <2>2 DEF InArray, Pool!ConstantsAssumption
    <3>2. s \in InArray(tasks, h) <=> h = g
      BY <2>1 DEF InArray, g
    <3>3. Cardinality(InArray(tasks', h))
            = IF h = g THEN Cardinality(InArray(tasks, h)) - 1
                       ELSE Cardinality(InArray(tasks, h))
      <4>1. IsFiniteSet(InArray(tasks, h))
        BY SetsFinite
      <4> QED BY <3>1, <3>2, <4>1, FS_RemoveElement
    <3> QED BY <2>1, <2>2, <3>3
  <2>7. ASSUME NEW h \in Groups
        PROVE  current_working_tasks'[h] = Cardinality(InHand(worker', task', h))
    <3>1. CASE h = g
      <4> DEFINE rest == InHand(worker, task, h) \ {w}
      <4>1. InHand(worker', task', h) = rest \union {w}
        BY <2>1, <2>2, <2>5, <3>1 DEF InHand
      <4>2. IsFiniteSet(rest) /\ w \notin rest
        BY SetsFinite, FS_RemoveElement
      <4>3. working_tasks[h] = Cardinality(rest)
        OBVIOUS
      <4> HIDE DEF rest
      <4>4. Cardinality(InHand(worker', task', h)) = Cardinality(rest) + 1
        <5>1. Cardinality(rest \union {w}) = Cardinality(rest) + 1
          BY <4>2, FS_AddElement
        <5> QED BY <4>1, <5>1
      <4> QED BY <2>1, <2>2, <3>1, <4>3, <4>4
    <3>2. CASE h # g
      <4>1. InHand(worker', task', h) = InHand(worker, task, h) \ {w}
        BY <2>1, <2>2, <2>5, <3>2 DEF InHand
      <4> QED BY <2>1, <2>2, <3>2, <4>1
    <3> QED BY <3>1, <3>2
  <2>8. \A v \in Workers : worker'[v] = "working" => task'[v] \in Groups
    BY <2>1, <2>2, <2>5
  <2>9. /\ tasks' \in [Slots -> Groups \union {NoTask}]
        /\ current_tasks_in_array' \in [Groups -> Int]
        /\ current_working_tasks' \in [Groups -> Int]
        /\ task' \in [Workers -> Groups \union {NoTask}]
    BY <2>1, <2>2
  <2> QED BY <2>4, <2>6, <2>7, <2>8, <2>9 DEF Woken
<1>2. ASSUME /\ worker' \in [Workers -> WorkerPlaces]
             /\ \A v \in Workers :
                  worker'[v] = "working" <=> v # w /\ worker[v] = "working",
             task' = [task EXCEPT ![w] = NoTask],
             current_working_tasks' = working_tasks,
             UNCHANGED <<tasks, current_tasks_in_array>>
      PROVE  TaskInv'
  <2>1. \A g \in Groups : InHand(worker', task', g) = InHand(worker, task, g) \ {w}
    BY <1>2 DEF InHand
  <2> QED BY <1>2, <2>1
<1>3. CASE worker' = [worker EXCEPT ![w] = "asleep"]
  <2>1. /\ worker' \in [Workers -> WorkerPlaces]
        /\ \A v \in Workers : worker'[v] = "working"
             <=> v # w /\ worker[v] = "working"
    BY <1>3 DEF WorkerPlaces
  <2>2. CASE Pool!PopTask(w, working, working_tasks, limit)
               /\ Pool!Filled(tasks) # {}
    BY <1>1, <2>2
  <2>3. CASE ~(Pool!PopTask(w, working, working_tasks, limit) /\ Pool!Filled(tasks) # {})
    BY <1>2, <2>1, <2>3 DEF Pool!Loop
  <2> QED BY <2>2, <2>3
<1>4. CASE worker' \in Pool!Signalled([worker EXCEPT ![w] = "exited"])
  <2> DEFINE pc == [worker EXCEPT ![w] = "exited"]
  <2>1. pc \in [Workers -> WorkerPlaces]
    BY DEF WorkerPlaces
  <2>2. Woken(pc, worker')
    <3> HIDE DEF pc
    <3>1. worker' \in Pool!Signalled(pc)
      BY <1>4 DEF pc
    <3> QED BY <2>1, <3>1, SignalWakes
  <2>3. \A v \in Workers : worker'[v] = "working"
          <=> v # w /\ worker[v] = "working"
    BY <2>2 DEF Woken
  <2>4. CASE Pool!PopTask(w, working, working_tasks, limit)
               /\ Pool!Filled(tasks) # {}
    BY <1>1, <2>4
  <2>5. CASE ~(Pool!PopTask(w, working, working_tasks, limit) /\ Pool!Filled(tasks) # {})
    BY <1>2, <2>2, <2>3, <2>5 DEF Pool!Loop, Woken
  <2> QED BY <2>4, <2>5
<1> QED BY <1>1, <1>3, <1>4 DEF Pool!Loop

\* A step that moves no task.
LEMMA TasksKept ==
  ASSUME TaskInv, Woken(worker, worker'),
         UNCHANGED <<tasks, current_tasks_in_array, current_working_tasks,
                     task>>,
         upc' \in [Users -> UserPlaces],
         why' \in [Users -> {"push", "wait", "destroy"}]
  PROVE  TaskInv'
<1> USE DEF TaskInv, Woken
<1>1. \A v \in Workers : worker'[v] = "working" <=> worker[v] = "working"
  OBVIOUS
<1>2. \A g \in Groups : InHand(worker', task', g) = InHand(worker, task, g)
  BY <1>1 DEF InHand
<1>3. \A g \in Groups : InArray(tasks', g) = InArray(tasks, g)
  BY DEF InArray
<1> QED BY <1>1, <1>2, <1>3

\* A worker that takes a task up, or finishes one and goes round the loop.
LEMMA WorkerTasks ==
  ASSUME Pool!ConstantsAssumption, TaskInv, NEW w \in Workers, Pool!Worker(w)
  PROVE  TaskInv'
<1> USE DEF TaskInv
<1>1. CASE Pool!TakeWork(w)
  <2>1. Pool!Loop(w, working_count, current_working_tasks, worker_limit)
    BY <1>1 DEF Pool!TakeWork
  <2>2. \A g \in Groups : InHand(worker, task, g) \ {w} = InHand(worker, task, g)
    BY <1>1 DEF Pool!TakeWork, InHand
  <2>3. UNCHANGED why /\ upc' \in [Users -> UserPlaces]
    BY <1>1 DEF Pool!TakeWork, Pool!userVars
  <2>4. \A g \in Groups :
          current_working_tasks[g] = Cardinality(InHand(worker, task, g) \ {w})
    BY <2>2
  <2> QED BY <2>1, <2>3, <2>4, LoopTasks
<1>2. CASE Pool!FinishTask(w)
  <2> DEFINE g == task[w]
             left == [current_working_tasks EXCEPT ![g] = @ - 1]
  <2>1. /\ worker[w] = "working" /\ g \in Groups
        /\ Pool!WakeWaiterIfAllowed(g, ~Pool!TasksLeft(g, left))
        /\ Pool!Loop(w, working_count - 1, left, worker_limit')
        /\ UNCHANGED why
    BY <1>2 DEF Pool!FinishTask
  <2>2. left \in [Groups -> Int]
    BY <2>1
  <2>3. ASSUME NEW h \in Groups
        PROVE  left[h] = Cardinality(InHand(worker, task, h) \ {w})
    <3>1. w \in InHand(worker, task, h) <=> h = g
      BY <2>1 DEF InHand
    <3>2. Cardinality(InHand(worker, task, h) \ {w})
            = IF h = g THEN Cardinality(InHand(worker, task, h)) - 1
                       ELSE Cardinality(InHand(worker, task, h))
      <4>1. IsFiniteSet(InHand(worker, task, h))
        BY SetsFinite
      <4> QED BY <3>1, <4>1, FS_RemoveElement
    <3> QED BY <2>1, <3>2
  <2>4. upc' \in [Users -> UserPlaces]
    BY <2>1
    DEF Pool!WakeWaiterIfAllowed, Pool!WaitersOf, Pool!Waiting, UserPlaces
  <2> HIDE DEF left, g
  <2> QED BY <2>1, <2>2, <2>3, <2>4, LoopTasks
<1> QED BY <1>1, <1>2 DEF Pool!Worker

\* u_worker_group_push puts a task in the first empty slot.
LEMMA PushTasks ==
  ASSUME Pool!ConstantsAssumption, TaskInv, NEW u \in Users, Pool!Push(u)
  PROVE  TaskInv'
<1> USE DEF TaskInv
<1> DEFINE s == Pool!First(Slots \ Pool!Filled(tasks))
           g == GroupOf[u]
<1>1. s \in Slots /\ tasks[s] = NoTask
  <2>1. s \in Slots \ Pool!Filled(tasks)
    BY FirstIsIn DEF Pool!Push
  <2> QED BY <2>1 DEF Pool!Filled
<1>2. g \in Groups /\ NoTask \notin Groups
  BY DEF Pool!ConstantsAssumption
<1>3. /\ tasks' = [tasks EXCEPT ![s] = g]
      /\ current_tasks_in_array' = [current_tasks_in_array EXCEPT ![g] = @ + 1]
      /\ worker' \in Pool!Signalled(worker)
      /\ upc' = [upc EXCEPT ![u] = "idle"]
      /\ UNCHANGED <<current_working_tasks, task, why>>
  BY DEF Pool!Push
<1> HIDE DEF s, g
<1>4. Woken(worker, worker')
  BY <1>3, SignalWakes
<1>5. \A v \in Workers : worker'[v] = "working" <=> worker[v] = "working"
  BY <1>4 DEF Woken
<1>6. \A h \in Groups : InHand(worker', task', h) = InHand(worker, task, h)
  BY <1>3, <1>5 DEF InHand
<1>7. ASSUME NEW h \in Groups
      PROVE  current_tasks_in_array'[h] = Cardinality(InArray(tasks', h))
  <2>1. s \notin InArray(tasks, h) /\ IsFiniteSet(InArray(tasks, h))
    <3>1. s \notin InArray(tasks, h)
      BY <1>1, <1>2 DEF InArray
    <3> QED BY <3>1, SetsFinite
  <2>2. CASE h = g
    <3>1. InArray(tasks', h) = InArray(tasks, h) \union {s}
      BY <1>1, <1>3, <2>2 DEF InArray
    <3>2. Cardinality(InArray(tasks', h)) = Cardinality(InArray(tasks, h)) + 1
      <4>1. Cardinality(InArray(tasks, h) \union {s}) = Cardinality(InArray(tasks, h)) + 1
        BY <2>1, FS_AddElement
      <4> QED BY <3>1, <4>1
    <3> QED BY <1>3, <2>2, <3>2
  <2>3. CASE h # g
    <3>1. InArray(tasks', h) = InArray(tasks, h)
      BY <1>1, <1>2, <1>3, <2>3 DEF InArray
    <3> QED BY <1>3, <2>3, <3>1
  <2> QED BY <2>2, <2>3
<1>8. /\ tasks' \in [Slots -> Groups \union {NoTask}]
      /\ current_tasks_in_array' \in [Groups -> Int]
      /\ upc' \in [Users -> UserPlaces]
  BY <1>1, <1>2, <1>3 DEF UserPlaces
<1>9. \A h \in Groups :
        current_working_tasks'[h] = Cardinality(InHand(worker', task', h))
  BY <1>3, <1>6
<1>10. /\ worker' \in [Workers -> WorkerPlaces]
       /\ \A v \in Workers : worker'[v] = "working" => task'[v] \in Groups
  BY <1>3, <1>4, <1>5 DEF Woken
<1> QED BY <1>3, <1>7, <1>8, <1>9, <1>10

\* A user that goes to sleep changes no task.
LEMMA DonateTasks ==
  ASSUME TaskInv, NEW u \in Users, NEW reason \in {"push", "wait", "destroy"},
         Pool!Donate(u, reason)
  PROVE  TaskInv'
<1> USE DEF TaskInv
<1>1. Woken(worker, worker')
  BY WakeAllowed DEF Pool!Donate
<1>2. /\ upc' \in [Users -> UserPlaces]
      /\ why' \in [Users -> {"push", "wait", "destroy"}]
  BY DEF Pool!Donate, UserPlaces
<1> QED BY <1>1, <1>2, TasksKept DEF Pool!Donate

\* Every step of the pool keeps the counts of tasks.
LEMMA TaskInvStep ==
  ASSUME Pool!ConstantsAssumption, TaskInv, [Pool!Next]_(Pool!vars)
  PROVE  TaskInv'
<1>0. Woken(worker, worker)
  BY DEF Woken, TaskInv
<1> DEFINE KeptTasks == UNCHANGED <<tasks, current_tasks_in_array,
                                    current_working_tasks, task>>
           UserTypes == /\ upc' \in [Users -> UserPlaces]
                        /\ why' \in [Users -> {"push", "wait", "destroy"}]
<1>1. ASSUME NEW w \in Workers, Pool!SpuriousWorker(w) PROVE TaskInv'
  <2>1. Woken(worker, worker')
    BY <1>1 DEF Pool!SpuriousWorker, Woken, TaskInv, WorkerPlaces
  <2> QED BY <1>1, <2>1, TasksKept
          DEF Pool!SpuriousWorker, TaskInv, Pool!countVars, Pool!userVars
<1>2. ASSUME NEW u \in Users, Pool!PushWhenFull(u) \/ Pool!WaitAll(u)
      PROVE TaskInv'
  BY <1>2, DonateTasks DEF Pool!PushWhenFull, Pool!WaitAll
<1>3. ASSUME NEW u \in Users, Pool!DestroyGroup(u) PROVE TaskInv'
  <2>1. CASE Pool!Donate(u, "destroy")
    BY <2>1, DonateTasks
  <2>2. CASE ~Pool!Donate(u, "destroy")
    <3>1. KeptTasks /\ worker' = worker
      BY <1>3, <2>2 DEF Pool!DestroyGroup, Pool!countVars, Pool!workerVars
    <3>2. UserTypes
      BY <1>3, <2>2 DEF Pool!DestroyGroup, TaskInv, UserPlaces
    <3> QED BY <1>0, <3>1, <3>2, TasksKept
  <2> QED BY <2>1, <2>2
<1>4. ASSUME NEW u \in Users, Pool!WokenWaiter(u) PROVE TaskInv'
  <2>1. KeptTasks
    BY <1>4 DEF Pool!WokenWaiter
  <2>2. Pool!Resume(u) \in UserPlaces
    BY DEF Pool!Resume, UserPlaces, TaskInv
  <2>3. UserTypes
    BY <1>4, <2>2 DEF Pool!WokenWaiter, TaskInv, UserPlaces
  <2>4. Woken(worker, worker')
    BY <1>0, <1>4, WakeAllowed DEF Pool!WokenWaiter, TaskInv
  <2> QED BY <2>1, <2>3, <2>4, TasksKept
<1>5. ASSUME NEW u \in Users, Pool!DropPool(u) PROVE TaskInv'
  <2>1. KeptTasks /\ UserTypes
    BY <1>5 DEF Pool!DropPool, Pool!countVars, TaskInv, UserPlaces
  <2>2. worker' \in Pool!Signalled(worker) \/ worker' = worker
    BY <1>5 DEF Pool!DropPool
  <2> QED BY <1>0, <2>1, <2>2, SignalWakes, TasksKept DEF TaskInv
<1>6. ASSUME NEW u \in Users, Pool!JoinWorkers(u) \/ Pool!SpuriousWaiter(u)
      PROVE TaskInv'
  <2>1. KeptTasks /\ UserTypes /\ worker' = worker
    BY <1>6
    DEF Pool!JoinWorkers, Pool!SpuriousWaiter, Pool!countVars,
        Pool!workerVars, TaskInv, UserPlaces
  <2> QED BY <1>0, <2>1, TasksKept
<1>7. CASE UNCHANGED Pool!vars
  <2>1. KeptTasks /\ UserTypes /\ worker' = worker
    BY <1>7
    DEF Pool!vars, Pool!countVars, Pool!workerVars, Pool!userVars, TaskInv
  <2> QED BY <1>0, <2>1, TasksKept
<1> HIDE DEF KeptTasks, UserTypes
<1> QED
  BY <1>1, <1>2, <1>3, <1>4, <1>5, <1>6, <1>7, WorkerTasks, PushTasks
  DEF Pool!Next, Pool!Call, Pool!InCall, Pool!Finished

\* A new pool has no tasks.
LEMMA TaskInvInit ==
  ASSUME Pool!ConstantsAssumption, Pool!Init
  PROVE  TaskInv
<1>1. \A g \in Groups : InArray(tasks, g) = {} /\ InHand(worker, task, g) = {}
  BY DEF InArray, InHand, Pool!Init, Pool!ConstantsAssumption
<1> QED BY <1>1, FS_EmptySet DEF Pool!Init, TaskInv, WorkerPlaces, UserPlaces

(* u_worker.c: the two counters of each group are the number of its tasks in  *)
(* p->tasks and in the hands of workers, whichever threads share the groups.  *)
THEOREM TasksCounted ==
  ASSUME Pool!ConstantsAssumption
  PROVE  Pool!Spec => []TaskInv
<1>1. TaskInv /\ [Pool!Next]_(Pool!vars) => TaskInv'
  BY TaskInvStep
<1> QED BY <1>1, TaskInvInit, PTL DEF Pool!Spec

\* Counters at zero mean that no task of the group is left.
LEMMA NoTasksNoneOutstanding ==
  ASSUME Pool!ConstantsAssumption, TaskInv, NEW g \in Groups, ~Pool!HasTasks(g)
  PROVE  ~Pool!Outstanding(g)
<1>1. Cardinality(InArray(tasks, g)) = 0
        /\ Cardinality(InHand(worker, task, g)) = 0
  BY DEF Pool!HasTasks, Pool!TasksLeft, TaskInv
<1>2. InArray(tasks, g) = {} /\ InHand(worker, task, g) = {}
  BY <1>1, SetsFinite, FS_EmptySet
<1> QED BY <1>2 DEF Pool!Outstanding, InArray, InHand

\* The only way out of the wait is to find the counters of the group at zero.
LEMMA OnlyReleasedGoOn ==
  ASSUME Pool!ConstantsAssumption, TaskInv, [Pool!Next]_(Pool!vars),
         NEW u \in Users,
         u \in Pool!Waiting(upc), u \notin Pool!Waiting(upc')
  PROVE  ~Pool!HasTasks(GroupOf[u])
<1>1. upc \in [Users -> UserPlaces] /\ upc' \in [Users -> UserPlaces]
  BY TaskInvStep DEF TaskInv
<1>2. upc[u] \in {"asleep", "woken"} /\ upc'[u] \notin {"asleep", "woken"}
  BY <1>1 DEF Pool!Waiting
<1>3. ASSUME NEW w \in Workers
      PROVE ~(Pool!Worker(w) \/ Pool!SpuriousWorker(w))
  BY <1>1, <1>2
  DEF Pool!Worker, Pool!TakeWork, Pool!FinishTask, Pool!WakeWaiterIfAllowed,
      Pool!SpuriousWorker, Pool!userVars
<1>4. ASSUME NEW v \in Users, v # u
      PROVE ~(Pool!Call(v) \/ Pool!InCall(v) \/ Pool!SpuriousWaiter(v))
  BY <1>1, <1>2, <1>4
  DEF Pool!Call, Pool!InCall, Pool!Push, Pool!PushWhenFull, Pool!WaitAll,
      Pool!Donate, Pool!DestroyGroup,
      Pool!WokenWaiter, Pool!DropPool, Pool!JoinWorkers, Pool!SpuriousWaiter
<1>5. ~(Pool!Call(u) \/ Pool!DropPool(u) \/ Pool!JoinWorkers(u) \/ Pool!SpuriousWaiter(u))
  BY <1>1, <1>2
  DEF Pool!Call, Pool!Push, Pool!PushWhenFull, Pool!WaitAll,
      Pool!DestroyGroup, Pool!DropPool, Pool!JoinWorkers,
      Pool!SpuriousWaiter
<1>6. ~UNCHANGED Pool!vars
  BY <1>2 DEF Pool!vars, Pool!userVars
<1>7. Pool!WokenWaiter(u)
  BY <1>3, <1>4, <1>5, <1>6 DEF Pool!Next, Pool!InCall, Pool!Finished
<1> QED BY <1>1, <1>2, <1>7 DEF Pool!WokenWaiter

\* So u_worker_group_wait_all returns when every task pushed before is done.
THEOREM Barrier ==
  ASSUME Pool!ConstantsAssumption
  PROVE  Pool!Spec => Pool!WaitIsABarrier
<1>1. TaskInv /\ [Pool!Next]_(Pool!vars)
        => [\A u \in Users :
              u \in Pool!Waiting(upc) /\ u \notin Pool!Waiting(upc')
                => ~Pool!Outstanding(GroupOf[u])]_(Pool!vars)
  <2> SUFFICES ASSUME TaskInv, [Pool!Next]_(Pool!vars), NEW u \in Users,
                      u \in Pool!Waiting(upc), u \notin Pool!Waiting(upc')
               PROVE  ~Pool!Outstanding(GroupOf[u])
    OBVIOUS
  <2>1. GroupOf[u] \in Groups
    BY DEF Pool!ConstantsAssumption
  <2> QED BY <2>1, OnlyReleasedGoOn, NoTasksNoneOutstanding
<1> QED BY <1>1, TasksCounted, PTL DEF Pool!Spec, Pool!WaitIsABarrier

-----------------------------------------------------------------------------
(* With one thread to a group the counters are what they count. *)

OneUserEach == \A u, v \in Users : GroupOf[u] = GroupOf[v] => u = v

Busy(pc) == {w \in Workers : pc[w] = "working"}

OtherTypes ==
  /\ released_count \in [Groups -> Nat]
  /\ worker_limit \in Int /\ working_count \in Int
  /\ poolRunning \in BOOLEAN
  /\ tasksPushed \in [Users -> 0 .. PushLimit]

(* Who waits has given its place up, until it is released. *)
LimitInv ==
  /\ worker_limit = InitialLimit + Cardinality(Pool!Donors)
  /\ Pool!ReleasedIsDone
  /\ ~poolAborted

BusyInv == working_count = Cardinality(Busy(worker)) /\ Pool!WithinLimit

PoolInv == TaskInv /\ OtherTypes /\ LimitInv /\ BusyInv

\* The workers that run a task can be counted.
LEMMA BusyFinite ==
  ASSUME Pool!ConstantsAssumption, NEW pc
  PROVE  IsFiniteSet(Busy(pc)) /\ Cardinality(Busy(pc)) \in Nat
<1>1. Busy(pc) \in SUBSET Workers
  BY DEF Busy
<1> QED BY <1>1, FS_Subset, FS_CardinalityType, SameSets
        DEF Pool!ConstantsAssumption

\* So can the threads that stand in for a worker.
LEMMA DonorsFinite ==
  ASSUME Pool!ConstantsAssumption
  PROVE  IsFiniteSet(Pool!Donors) /\ Cardinality(Pool!Donors) \in Nat
<1>1. Pool!Donors \in SUBSET Users
  BY DEF Pool!Donors
<1> QED BY <1>1, FS_Subset, FS_CardinalityType, SameSets
        DEF Pool!ConstantsAssumption

\* A signal makes nobody busy.
LEMMA BusyKept ==
  ASSUME NEW p \in [Workers -> WorkerPlaces], NEW q, Woken(p, q)
  PROVE  Busy(q) = Busy(p)
BY DEF Busy, Woken

\* A pass of the loop takes at most one task, and only below the limit.
LEMMA LoopBusy ==
  ASSUME Pool!ConstantsAssumption, worker \in [Workers -> WorkerPlaces],
         NEW w \in Workers, NEW working \in Int, NEW limit \in Int,
         NEW working_tasks,
         working = Cardinality(Busy(worker) \ {w}), working <= limit,
         Pool!Loop(w, working, working_tasks, limit)
  PROVE  working_count' = Cardinality(Busy(worker')) /\ working_count' <= limit
<1> DEFINE rest == Busy(worker) \ {w}
           to(place) == [worker EXCEPT ![w] = place]
<1>1. IsFiniteSet(rest) /\ w \notin rest
  BY BusyFinite, FS_RemoveElement
<1>2. \A place \in WorkerPlaces : to(place) \in [Workers -> WorkerPlaces]
  OBVIOUS
<1>3. /\ Busy(to("working")) = rest \union {w}
      /\ Busy(to("asleep")) = rest
      /\ Busy(to("exited")) = rest
  BY DEF Busy
<1>4. {"working", "asleep", "exited"} \subseteq WorkerPlaces
  BY DEF WorkerPlaces
<1>5. working = Cardinality(rest)
  OBVIOUS
<1>6. \/ /\ worker' \in Pool!WakeWorkerIfAllowed(tasks', working + 1, limit, to("working"))
         /\ working_count' = working + 1
         /\ working < limit
      \/ worker' = to("asleep") /\ working_count' = working
      \/ worker' \in Pool!Signalled(to("exited")) /\ working_count' = working
  BY DEF Pool!Loop, Pool!PopTask
<1> HIDE DEF rest, to
<1>7. Cardinality(rest \union {w}) = Cardinality(rest) + 1
  BY <1>1, FS_AddElement
<1>8. CASE /\ worker' \in Pool!WakeWorkerIfAllowed(tasks', working + 1, limit, to("working"))
           /\ working_count' = working + 1
           /\ working < limit
  <2>1. Busy(worker') = Busy(to("working"))
    BY <1>2, <1>4, <1>8, WakeAllowed, BusyKept
  <2>2. Cardinality(Busy(worker')) = Cardinality(rest) + 1
    BY <1>3, <1>7, <2>1
  <2>3. working + 1 <= limit
    BY <1>8
  <2> QED BY <1>5, <1>8, <2>2, <2>3
<1>9. CASE worker' = to("asleep") /\ working_count' = working
  BY <1>3, <1>5, <1>9
<1>10. CASE worker' \in Pool!Signalled(to("exited"))
              /\ working_count' = working
  <2>1. Busy(worker') = Busy(to("exited"))
    BY <1>2, <1>4, <1>10, SignalWakes, BusyKept
  <2> QED BY <1>3, <1>5, <1>10, <2>1
<1> QED BY <1>6, <1>8, <1>9, <1>10

\* A pass of the loop leaves every group with as many tasks.
LEMMA LoopTotals ==
  ASSUME Pool!ConstantsAssumption, TaskInv, NEW w \in Workers, NEW working,
         NEW limit,
         NEW working_tasks \in [Groups -> Int],
         Pool!Loop(w, working, working_tasks, limit), NEW g \in Groups
  PROVE  current_tasks_in_array'[g] + current_working_tasks'[g]
           = current_tasks_in_array[g] + working_tasks[g]
<1> USE DEF TaskInv
<1>1. CASE Pool!PopTask(w, working, working_tasks, limit)
             /\ Pool!Filled(tasks) # {}
  <2> DEFINE s == Pool!First(Pool!Filled(tasks))
             h == tasks[s]
  <2>1. h \in Groups
    <3>1. s \in Pool!Filled(tasks)
      BY <1>1, FirstIsIn DEF Pool!Filled
    <3> QED BY <3>1 DEF Pool!Filled
  <2>2. /\ current_tasks_in_array' = [current_tasks_in_array EXCEPT ![h] = @ - 1]
        /\ current_working_tasks' = [working_tasks EXCEPT ![h] = @ + 1]
    BY <1>1 DEF Pool!PopTask
  <2> HIDE DEF h, s
  <2> QED BY <2>1, <2>2
<1>2. CASE UNCHANGED current_tasks_in_array
             /\ current_working_tasks' = working_tasks
  BY <1>2
<1> QED BY <1>1, <1>2 DEF Pool!Loop

\* has_tasks, as the counters tell it.
LEMMA TasksOfGroup ==
  ASSUME Pool!ConstantsAssumption, TaskInv, NEW g \in Groups
  PROVE  /\ current_tasks_in_array[g] \in Nat
         /\ current_working_tasks[g] \in Nat
         /\ Pool!HasTasks(g)
              <=> current_tasks_in_array[g] + current_working_tasks[g] # 0
<1>1. Cardinality(InArray(tasks, g)) \in Nat
        /\ Cardinality(InHand(worker, task, g)) \in Nat
  BY SetsFinite, FS_CardinalityType
<1> QED BY <1>1 DEF TaskInv, Pool!HasTasks, Pool!TasksLeft

\* A released group has no task and one user, who was woken.
LEMMA Released ==
  ASSUME Pool!ConstantsAssumption, OneUserEach, PoolInv, NEW u \in Users
  PROVE  /\ GroupOf[u] \in Groups
         /\ released_count[GroupOf[u]] \in Nat
         /\ released_count[GroupOf[u]] > 0 =>
              /\ upc[u] = "woken"
              /\ ~Pool!HasTasks(GroupOf[u])
              /\ released_count[GroupOf[u]] = 1
BY DEF Pool!ConstantsAssumption, OneUserEach, PoolInv, OtherTypes, LimitInv,
   Pool!ReleasedIsDone

\* A step in which nobody starts or stops to donate its thread.
LEMMA LimitKept ==
  ASSUME Pool!ConstantsAssumption, PoolInv, TaskInv',
         UNCHANGED <<released_count, worker_limit, poolAborted>>,
         \A u \in Users : /\ upc'[u] \in {"asleep", "woken"} <=> upc[u] \in {"asleep", "woken"}
                          /\ upc[u] = "woken"
                               => upc'[u] = "woken"
                                 \/ released_count[GroupOf[u]] = 0,
         \A g \in Groups : released_count[g] > 0 =>
            current_tasks_in_array'[g] + current_working_tasks'[g]
              = current_tasks_in_array[g] + current_working_tasks[g]
  PROVE  LimitInv'
<1> USE DEF PoolInv, LimitInv
<1>1. Pool!Donors' = Pool!Donors
  BY DEF Pool!Donors, Pool!ConstantsAssumption
<1>2. ASSUME NEW g \in Groups, released_count[g] > 0
      PROVE  ~Pool!HasTasks(g)'
  <2>1. ~Pool!HasTasks(g)
    BY <1>2 DEF Pool!ReleasedIsDone
  <2>2. current_tasks_in_array[g] + current_working_tasks[g] = 0
    BY <2>1, TasksOfGroup
  <2>3. current_tasks_in_array'[g] \in Nat /\ current_working_tasks'[g] \in Nat
    <3>1. \A a, h : Cardinality({}) = 0
      BY FS_EmptySet
    <3>2. /\ Cardinality(InArray(tasks', g)) \in Nat
          /\ Cardinality(InHand(worker', task', g)) \in Nat
      BY SetsFinite, FS_CardinalityType
    <3> QED BY <3>2 DEF TaskInv
  <2> QED BY <1>2, <2>2, <2>3 DEF Pool!HasTasks, Pool!TasksLeft
<1>3. Pool!ReleasedIsDone'
  BY <1>2 DEF Pool!ReleasedIsDone, OtherTypes
<1> QED BY <1>1, <1>3

\* u_worker_group_wait_all, before the sleep: the thread gives up its place.
LEMMA DonateLimit ==
  ASSUME Pool!ConstantsAssumption, OneUserEach, PoolInv, NEW u \in Users,
         NEW reason,
         upc[u] \notin {"asleep", "woken"}, Pool!Donate(u, reason)
  PROVE  LimitInv' /\ BusyInv'
<1> USE DEF PoolInv, TaskInv
<1>1. released_count[GroupOf[u]] = 0 /\ GroupOf[u] \in Groups
  BY Released DEF Pool!Donate
<1>2. /\ worker_limit' = worker_limit + 1
      /\ worker' \in Pool!WakeWorkerIfAllowed(tasks, working_count, worker_limit + 1, worker)
      /\ upc' = [upc EXCEPT ![u] = "asleep"]
      /\ UNCHANGED <<current_tasks_in_array, current_working_tasks,
                     released_count, working_count, poolAborted>>
  BY DEF Pool!Donate
<1>3. Pool!Donors' = Pool!Donors \union {u} /\ u \notin Pool!Donors
  BY <1>1, <1>2 DEF Pool!Donors
<1>4. worker_limit' = InitialLimit + Cardinality(Pool!Donors')
  <2>1. Cardinality(Pool!Donors') = Cardinality(Pool!Donors) + 1
    BY <1>3, DonorsFinite, FS_AddElement
  <2>2. worker_limit = InitialLimit + Cardinality(Pool!Donors)
    BY DEF LimitInv
  <2> QED BY <1>2, <2>1, <2>2, DonorsFinite DEF Pool!ConstantsAssumption
<1>5. Pool!ReleasedIsDone'
  BY <1>1, <1>2
  DEF LimitInv, Pool!ReleasedIsDone, Pool!HasTasks, Pool!TasksLeft
<1>6. Busy(worker') = Busy(worker)
  BY <1>2, WakeAllowed, BusyKept
<1>7. BusyInv'
  BY <1>2, <1>6 DEF BusyInv, Pool!WithinLimit, OtherTypes
<1> QED BY <1>2, <1>4, <1>5, <1>7 DEF LimitInv

\* The thread that was released takes its place back, or sleeps again.
LEMMA WokenLimit ==
  ASSUME Pool!ConstantsAssumption, OneUserEach, PoolInv, NEW u \in Users,
         Pool!WokenWaiter(u)
  PROVE  LimitInv' /\ BusyInv' /\ released_count' \in [Groups -> Nat]
           /\ worker_limit' \in Int
<1> USE DEF PoolInv, TaskInv
<1> DEFINE g == GroupOf[u]
<1>1. g \in Groups /\ released_count[g] \in Nat /\ upc[u] = "woken"
  BY Released DEF Pool!WokenWaiter
<1>2. ~(Pool!HasTasks(g) /\ released_count[g] > 0)
  BY Released
<1>3. /\ UNCHANGED <<current_tasks_in_array, current_working_tasks,
                     working_count, poolAborted, worker_limit, worker>>
      /\ \/ /\ released_count[g] > 0
            /\ released_count' = [released_count EXCEPT ![g] = @ - 1]
            /\ upc' = [upc EXCEPT ![u] = Pool!Resume(u)]
         \/ /\ ~(released_count[g] > 0)
            /\ upc' = [upc EXCEPT ![u] = "asleep"]
            /\ UNCHANGED released_count
  BY <1>2 DEF Pool!WokenWaiter
<1>4. Pool!Resume(u) \notin {"asleep", "woken"}
  BY DEF Pool!Resume
<1>5. \A v \in Users : v # u => GroupOf[v] # g
  BY DEF OneUserEach
<1> HIDE DEF g
<1>6. Pool!Donors' = Pool!Donors
  <2>1. \A v \in Users : v # u => GroupOf[v] \in Groups
    BY DEF Pool!ConstantsAssumption
  <2>2. CASE released_count[g] > 0
    <3>1. u \notin Pool!Donors /\ u \notin Pool!Donors'
      BY <1>1, <1>3, <1>4, <2>2 DEF Pool!Donors, g
    <3>2. \A v \in Users : v # u => (v \in Pool!Donors' <=> v \in Pool!Donors)
      BY <1>1, <1>3, <1>5, <2>1, <2>2 DEF Pool!Donors, OtherTypes
    <3>3. Pool!Donors \subseteq Users /\ Pool!Donors' \subseteq Users
      BY DEF Pool!Donors
    <3>4. \A v : v \in Pool!Donors' <=> v \in Pool!Donors
      BY <3>1, <3>2, <3>3
    <3> QED BY <3>4
  <2>3. CASE ~(released_count[g] > 0)
    BY <1>1, <1>3, <2>3 DEF Pool!Donors
  <2> QED BY <2>2, <2>3
<1>7. Pool!ReleasedIsDone'
  <2> SUFFICES ASSUME NEW h \in Groups, released_count'[h] > 0
               PROVE  /\ released_count'[h] = 1
                      /\ ~Pool!HasTasks(h)'
                      /\ \E v \in Users : GroupOf[v] = h /\ upc'[v] = "woken"
    BY DEF Pool!ReleasedIsDone
  <2>1. h # g /\ released_count[h] > 0
    BY <1>1, <1>3, Released DEF OtherTypes, g
  <2>2. PICK v \in Users : GroupOf[v] = h /\ upc[v] = "woken"
    BY <2>1 DEF LimitInv, Pool!ReleasedIsDone
  <2>3. upc'[v] = "woken"
    BY <1>3, <2>1, <2>2 DEF g
  <2>4. released_count'[h] = released_count[h]
    BY <1>3, <2>1 DEF OtherTypes
  <2> QED BY <1>3, <2>1, <2>2, <2>3, <2>4
          DEF LimitInv, Pool!ReleasedIsDone, Pool!HasTasks, Pool!TasksLeft
<1>8. released_count' \in [Groups -> Nat] /\ worker_limit' \in Int
  BY <1>1, <1>3 DEF OtherTypes
<1> QED BY <1>3, <1>6, <1>7, <1>8 DEF LimitInv, BusyInv, Pool!WithinLimit

(* A worker finishes a task: the waiter of its group is released when that    *)
(* was the last one, and the place it gave up is taken back at once.          *)
LEMMA FinishPool ==
  ASSUME Pool!ConstantsAssumption, OneUserEach, PoolInv, TaskInv',
         NEW w \in Workers, Pool!FinishTask(w)
  PROVE  LimitInv' /\ BusyInv' /\ OtherTypes'
<1> USE DEF PoolInv, TaskInv
<1> DEFINE g == task[w]
           left == [current_working_tasks EXCEPT ![g] = @ - 1]
<1>1. /\ worker[w] = "working" /\ g \in Groups
      /\ Pool!WakeWaiterIfAllowed(g, ~Pool!TasksLeft(g, left))
      /\ Pool!Loop(w, working_count - 1, left, worker_limit')
      /\ UNCHANGED <<poolRunning, tasksPushed>>
  BY DEF Pool!FinishTask
<1>2. left \in [Groups -> Int] /\ left[g] = current_working_tasks[g] - 1
  BY <1>1
<1>3. \A h \in Groups : h # g => left[h] = current_working_tasks[h]
  BY <1>1
<1> HIDE DEF left, g
<1>4. current_working_tasks[g] >= 1 /\ Pool!HasTasks(g)
        /\ released_count[g] = 0
  <2>1. w \in InHand(worker, task, g)
    BY <1>1 DEF InHand, g
  <2>2. current_working_tasks[g] # 0
    BY <1>1, <2>1, SetsFinite, FS_EmptySet
  <2>3. current_working_tasks[g] \in Nat
    BY <1>1, TasksOfGroup
  <2>4. Pool!HasTasks(g)
    BY <2>2 DEF Pool!HasTasks, Pool!TasksLeft
  <2>5. released_count[g] = 0
    BY <1>1, <2>4 DEF LimitInv, Pool!ReleasedIsDone, OtherTypes
  <2> QED BY <2>2, <2>3, <2>4, <2>5
<1>5. Cardinality(Busy(worker) \ {w}) = working_count - 1
  <2>1. w \in Busy(worker)
    BY <1>1 DEF Busy
  <2> QED BY <2>1, BusyFinite, FS_RemoveElement DEF BusyInv
<1>6. \A h \in Groups :
        current_tasks_in_array'[h] + current_working_tasks'[h]
          = current_tasks_in_array[h] + left[h]
  BY <1>1, <1>2, LoopTotals
<1>7. \A h \in Groups : released_count[h] > 0 =>
        /\ h # g
        /\ current_tasks_in_array'[h] + current_working_tasks'[h]
             = current_tasks_in_array[h] + current_working_tasks[h]
  BY <1>3, <1>4, <1>6
<1>8. \A h \in Groups : current_tasks_in_array'[h] \in Nat
        /\ current_working_tasks'[h] \in Nat
  <2> SUFFICES ASSUME NEW h \in Groups
               PROVE  current_tasks_in_array'[h] \in Nat
                        /\ current_working_tasks'[h] \in Nat
    OBVIOUS
  <2>1. /\ Cardinality(InArray(tasks', h)) \in Nat
        /\ Cardinality(InHand(worker', task', h)) \in Nat
    BY SetsFinite, FS_CardinalityType
  <2> QED BY <2>1
<1>9. CASE Pool!TasksLeft(g, left) \/ Pool!WaitersOf(g) = {}
  <2>1. UNCHANGED <<upc, worker_limit, released_count, poolAborted>>
    BY <1>1, <1>9 DEF Pool!WakeWaiterIfAllowed
  <2>2. LimitInv'
    BY <1>7, <2>1, LimitKept
  <2>3. working_count - 1 \in Int /\ worker_limit \in Int
          /\ working_count - 1 <= worker_limit
    BY DEF OtherTypes, BusyInv, Pool!WithinLimit
  <2>4. working_count' = Cardinality(Busy(worker'))
          /\ working_count' <= worker_limit
    BY <1>1, <1>5, <2>1, <2>3, LoopBusy
  <2> QED BY <1>1, <2>1, <2>2, <2>4, BusyFinite
          DEF BusyInv, Pool!WithinLimit, OtherTypes
<1>10. CASE ~Pool!TasksLeft(g, left) /\ Pool!WaitersOf(g) # {}
  <2>1. PICK u \in Users : GroupOf[u] = g /\ upc[u] \in {"asleep", "woken"}
    BY <1>10 DEF Pool!WaitersOf, Pool!Waiting
  <2>2. \A v \in Users : v # u => GroupOf[v] # g
    BY <2>1 DEF OneUserEach
  <2>3. /\ upc' = [upc EXCEPT ![u] = "woken"]
        /\ worker_limit' = worker_limit - 1
        /\ released_count' = [released_count EXCEPT ![g] = @ + 1]
        /\ poolAborted' = (poolAborted \/ worker_limit <= InitialLimit)
    <3>1. Pool!WaitersOf(g) = {u}
      BY <2>1, <2>2 DEF Pool!WaitersOf, Pool!Waiting
    <3>2. upc[u] = "asleep" \/ upc[u] = "woken"
      BY <2>1
    <3>3. CASE upc[u] = "asleep"
      BY <1>1, <1>10, <3>1, <3>3 DEF Pool!WakeWaiterIfAllowed
    <3>4. CASE upc[u] = "woken"
      <4>1. upc = [upc EXCEPT ![u] = "woken"]
        BY <3>4
      <4> QED BY <1>1, <1>10, <3>1, <3>4, <4>1 DEF Pool!WakeWaiterIfAllowed
    <3> QED BY <3>2, <3>3, <3>4
  <2>4. u \in Pool!Donors /\ Pool!Donors' = Pool!Donors \ {u}
    <3>1. u \in Pool!Donors
      BY <1>4, <2>1 DEF Pool!Donors
    <3>2. u \notin Pool!Donors'
      BY <1>1, <1>4, <2>1, <2>3 DEF Pool!Donors, OtherTypes
    <3>3. \A v \in Users : v # u => (v \in Pool!Donors' <=> v \in Pool!Donors)
      BY <2>2, <2>3 DEF Pool!Donors, OtherTypes, Pool!ConstantsAssumption
    <3>4. Pool!Donors \subseteq Users /\ Pool!Donors' \subseteq Users
      BY DEF Pool!Donors
    <3>5. \A v : v \in Pool!Donors' <=> v \in Pool!Donors /\ v # u
      BY <3>1, <3>2, <3>3, <3>4
    <3> QED BY <3>1, <3>5
  <2>5. /\ Cardinality(Pool!Donors') = Cardinality(Pool!Donors) - 1
        /\ Cardinality(Pool!Donors) >= 1
    <3>1. Cardinality(Pool!Donors) # 0
      BY <2>4, DonorsFinite, FS_EmptySet
    <3>2. Cardinality(Pool!Donors \ {u}) = Cardinality(Pool!Donors) - 1
      BY <2>4, DonorsFinite, FS_RemoveElement
    <3> QED BY <2>4, <3>1, <3>2, DonorsFinite
  <2>6. worker_limit' = InitialLimit + Cardinality(Pool!Donors')
          /\ ~poolAborted'
    <3>1. worker_limit = InitialLimit + Cardinality(Pool!Donors)
            /\ ~poolAborted
      BY DEF LimitInv
    <3>2. worker_limit > InitialLimit
      BY <2>5, <3>1, DonorsFinite DEF Pool!ConstantsAssumption
    <3>3. ~(worker_limit <= InitialLimit)
      BY <3>2 DEF OtherTypes, Pool!ConstantsAssumption
    <3>4. ~poolAborted'
      BY <2>3, <3>1, <3>3, Zenon
    <3>5. worker_limit' = InitialLimit + Cardinality(Pool!Donors')
      BY <2>3, <2>5, <3>1, DonorsFinite DEF Pool!ConstantsAssumption
    <3> QED BY <3>4, <3>5
  <2>7. Pool!ReleasedIsDone'
    <3> SUFFICES ASSUME NEW h \in Groups, released_count'[h] > 0
                 PROVE  /\ released_count'[h] = 1
                        /\ ~Pool!HasTasks(h)'
                        /\ \E v \in Users : GroupOf[v] = h /\ upc'[v] = "woken"
      BY DEF Pool!ReleasedIsDone
    <3>1. CASE h = g
      <4>1. current_tasks_in_array[g] + left[g] = 0
        BY <1>1, <1>2, <1>4, <1>10 DEF Pool!TasksLeft
      <4>2. current_tasks_in_array'[g] = 0 /\ current_working_tasks'[g] = 0
        BY <1>1, <1>6, <1>8, <4>1
      <4>3. upc'[u] = "woken" /\ released_count'[g] = 1
        BY <1>1, <1>4, <2>3 DEF OtherTypes
      <4> QED BY <2>1, <3>1, <4>2, <4>3 DEF Pool!HasTasks, Pool!TasksLeft
    <3>2. CASE h # g
      <4>1. released_count[h] = released_count'[h]
        BY <2>3, <3>2 DEF OtherTypes
      <4>2. released_count[h] = 1 /\ ~Pool!HasTasks(h)
        BY <4>1 DEF LimitInv, Pool!ReleasedIsDone
      <4>3. PICK v \in Users : GroupOf[v] = h /\ upc[v] = "woken"
        BY <4>1 DEF LimitInv, Pool!ReleasedIsDone
      <4>4. upc'[v] = "woken"
        BY <2>3, <4>3
      <4>5. current_tasks_in_array[h] + current_working_tasks[h] = 0
        BY <4>2, TasksOfGroup
      <4>6. current_tasks_in_array'[h] = 0 /\ current_working_tasks'[h] = 0
        BY <1>7, <1>8, <4>1, <4>5
      <4> QED BY <4>1, <4>2, <4>3, <4>4, <4>6 DEF Pool!HasTasks, Pool!TasksLeft
    <3> QED BY <3>1, <3>2
  <2>8. working_count - 1 \in Int /\ worker_limit' \in Int
          /\ working_count - 1 <= worker_limit'
    BY <2>3 DEF OtherTypes, BusyInv, Pool!WithinLimit
  <2>9. working_count' = Cardinality(Busy(worker'))
          /\ working_count' <= worker_limit'
    BY <1>1, <1>5, <2>8, LoopBusy
  <2>10. OtherTypes'
    BY <1>1, <1>4, <2>3, <2>8, <2>9, BusyFinite DEF OtherTypes
  <2> QED BY <2>6, <2>7, <2>9, <2>10 DEF LimitInv, BusyInv, Pool!WithinLimit
<1> QED BY <1>9, <1>10

\* A worker takes a task when the limit allows one more.
LEMMA TakePool ==
  ASSUME Pool!ConstantsAssumption, PoolInv, TaskInv', NEW w \in Workers,
         Pool!TakeWork(w)
  PROVE  LimitInv' /\ BusyInv' /\ OtherTypes'
<1> USE DEF PoolInv, TaskInv
<1>1. /\ Pool!Loop(w, working_count, current_working_tasks, worker_limit)
      /\ UNCHANGED <<worker_limit, released_count, poolRunning, upc,
                     tasksPushed, poolAborted>>
  BY DEF Pool!TakeWork, Pool!userVars
<1>2. Busy(worker) \ {w} = Busy(worker)
  BY DEF Pool!TakeWork, Busy
<1>3. /\ working_count = Cardinality(Busy(worker) \ {w})
      /\ working_count <= worker_limit
      /\ working_count \in Int /\ worker_limit \in Int
  BY <1>2 DEF BusyInv, Pool!WithinLimit, OtherTypes
<1>4. working_count' = Cardinality(Busy(worker'))
        /\ working_count' <= worker_limit
  BY <1>1, <1>3, LoopBusy
<1>5. \A g \in Groups :
        current_tasks_in_array'[g] + current_working_tasks'[g]
          = current_tasks_in_array[g] + current_working_tasks[g]
  BY <1>1, LoopTotals
<1>6. LimitInv'
  BY <1>1, <1>5, LimitKept
<1> QED BY <1>1, <1>4, <1>6, BusyFinite
        DEF BusyInv, Pool!WithinLimit, OtherTypes

\* A pushed task wakes a worker only below the limit.
LEMMA PushPool ==
  ASSUME Pool!ConstantsAssumption, OneUserEach, PoolInv, TaskInv',
         NEW u \in Users, Pool!Push(u)
  PROVE  LimitInv' /\ BusyInv' /\ OtherTypes'
<1> USE DEF PoolInv, TaskInv
<1>1. /\ upc[u] \in {"idle", "pushing"}
      /\ current_tasks_in_array' = [current_tasks_in_array EXCEPT ![GroupOf[u]] = @ + 1]
      /\ worker' \in Pool!Signalled(worker)
      /\ upc' = [upc EXCEPT ![u] = "idle"]
      /\ tasksPushed' = [tasksPushed EXCEPT ![u] = @ + 1]
      /\ tasksPushed[u] < PushLimit
      /\ UNCHANGED <<current_working_tasks, working_count, worker_limit,
                     released_count, poolRunning, poolAborted>>
  BY DEF Pool!Push
<1>2. released_count[GroupOf[u]] = 0
  BY <1>1, Released
<1>3. LimitInv'
  <2>1. \A g \in Groups : released_count[g] > 0 =>
          current_tasks_in_array'[g] + current_working_tasks'[g]
            = current_tasks_in_array[g] + current_working_tasks[g]
    BY <1>1, <1>2
  <2>2. \A v \in Users :
          /\ upc'[v] \in {"asleep", "woken"} <=> upc[v] \in {"asleep", "woken"}
          /\ upc[v] = "woken" => upc'[v] = "woken"
    BY <1>1
  <2> QED BY <1>1, <2>1, <2>2, LimitKept
<1>4. BusyInv'
  <2>1. Busy(worker') = Busy(worker)
    BY <1>1, SignalWakes, BusyKept
  <2> QED BY <1>1, <2>1 DEF BusyInv, Pool!WithinLimit
<1>5. OtherTypes'
  BY <1>1 DEF OtherTypes, Pool!ConstantsAssumption
<1> QED BY <1>3, <1>4, <1>5

\* Every step of the pool keeps the invariant.
LEMMA PoolInvStep ==
  ASSUME Pool!ConstantsAssumption, OneUserEach, PoolInv,
         [Pool!Next]_(Pool!vars)
  PROVE  PoolInv'
<1>0. TaskInv'
  BY TaskInvStep DEF PoolInv
<1> DEFINE P == LimitInv' /\ BusyInv' /\ OtherTypes'
<1> DEFINE Calm ==
      /\ UNCHANGED <<current_tasks_in_array, current_working_tasks, working_count,
                     worker_limit, released_count, poolAborted, tasksPushed>>
      /\ poolRunning' \in BOOLEAN
      /\ Woken(worker, worker')
      /\ \A v \in Users :
           /\ upc'[v] \in {"asleep", "woken"}
                <=> upc[v] \in {"asleep", "woken"}
           /\ upc[v] = "woken" => upc'[v] = "woken"
<1>1. ASSUME Calm PROVE P
  <2>1. LimitInv'
    BY <1>0, <1>1, LimitKept
  <2>2. Busy(worker') = Busy(worker)
    BY <1>1, BusyKept DEF PoolInv, TaskInv
  <2> QED BY <1>1, <2>1, <2>2
          DEF PoolInv, BusyInv, Pool!WithinLimit, OtherTypes
<1>2. Woken(worker, worker)
  BY DEF Woken, PoolInv, TaskInv
<1>3. poolRunning \in BOOLEAN /\ upc \in [Users -> UserPlaces]
        /\ worker \in [Workers -> WorkerPlaces]
  BY DEF PoolInv, TaskInv, OtherTypes
<1>4. ASSUME NEW w \in Workers, Pool!SpuriousWorker(w) PROVE P
  <2>1. Woken(worker, worker')
    BY <1>3, <1>4 DEF Pool!SpuriousWorker, Woken, WorkerPlaces
  <2>2. Calm
    BY <1>3, <1>4, <2>1 DEF Pool!SpuriousWorker, Pool!countVars, Pool!userVars
  <2> QED BY <1>1, <2>2
<1>5. ASSUME NEW u \in Users, NEW reason, upc[u] \notin {"asleep", "woken"},
             Pool!Donate(u, reason)
      PROVE  P
  <2>1. LimitInv' /\ BusyInv'
    BY <1>5, DonateLimit
  <2>2. OtherTypes'
    BY <1>5 DEF Pool!Donate, OtherTypes, PoolInv
  <2> QED BY <2>1, <2>2
<1>6. ASSUME NEW u \in Users, Pool!DestroyGroup(u) PROVE P
  <2>1. CASE Pool!Donate(u, "destroy")
    BY <1>5, <1>6, <2>1 DEF Pool!DestroyGroup
  <2>2. CASE ~Pool!Donate(u, "destroy")
    <3>1. Calm
      BY <1>2, <1>3, <1>6, <2>2
      DEF Pool!DestroyGroup, Pool!countVars, Pool!workerVars
    <3> QED BY <1>1, <3>1
  <2> QED BY <2>1, <2>2
<1>7. ASSUME NEW u \in Users, Pool!WokenWaiter(u) PROVE P
  <2>1. LimitInv' /\ BusyInv' /\ released_count' \in [Groups -> Nat]
          /\ worker_limit' \in Int
    BY <1>7, WokenLimit
  <2> QED BY <1>7, <2>1 DEF Pool!WokenWaiter, OtherTypes, PoolInv
<1>8. ASSUME NEW u \in Users, Pool!DropPool(u) PROVE P
  <2>1. Woken(worker, worker')
    BY <1>2, <1>3, <1>8, SignalWakes DEF Pool!DropPool
  <2>2. Calm
    BY <1>3, <1>8, <2>1 DEF Pool!DropPool, Pool!countVars
  <2> QED BY <1>1, <2>2
<1>9. ASSUME NEW u \in Users, Pool!JoinWorkers(u) PROVE P
  <2>1. Calm
    BY <1>2, <1>3, <1>9 DEF Pool!JoinWorkers, Pool!countVars, Pool!workerVars
  <2> QED BY <1>1, <2>1
<1>10. ASSUME NEW u \in Users, Pool!SpuriousWaiter(u) PROVE P
  <2>1. Calm
    BY <1>2, <1>3, <1>10
    DEF Pool!SpuriousWaiter, Pool!countVars, Pool!workerVars
  <2> QED BY <1>1, <2>1
<1>11. ASSUME UNCHANGED Pool!vars PROVE P
  <2>1. Calm
    BY <1>2, <1>3, <1>11
    DEF Pool!vars, Pool!countVars, Pool!workerVars, Pool!userVars
  <2> QED BY <1>1, <2>1
<1>12. ASSUME NEW u \in Users, Pool!PushWhenFull(u) \/ Pool!WaitAll(u) PROVE P
  BY <1>5, <1>12 DEF Pool!PushWhenFull, Pool!WaitAll
<1> HIDE DEF Calm
<1>13. ASSUME NEW w \in Workers, Pool!Worker(w) PROVE P
  BY <1>0, <1>13, TakePool, FinishPool DEF Pool!Worker
<1>14. ASSUME NEW u \in Users, Pool!Push(u) PROVE P
  BY <1>0, <1>14, PushPool
<1>15. P
  <2> HIDE DEF P
  <2> QED
    BY <1>4, <1>6, <1>7, <1>8, <1>9, <1>10, <1>11, <1>12, <1>13, <1>14
    DEF Pool!Next, Pool!Call, Pool!InCall, Pool!Finished
<1> QED BY <1>0, <1>15 DEF PoolInv

\* A new pool has nobody at work and nobody waiting.
LEMMA PoolInvInit ==
  ASSUME Pool!ConstantsAssumption, Pool!Init
  PROVE  PoolInv
<1>1. TaskInv
  BY TaskInvInit
<1>2. Pool!Donors = {} /\ Busy(worker) = {}
  BY DEF Pool!Init, Pool!Donors, Busy
<1>3. Cardinality(Pool!Donors) = 0 /\ Cardinality(Busy(worker)) = 0
  BY <1>2, FS_EmptySet
<1>4. InitialLimit \in Nat
  BY DEF Pool!ConstantsAssumption
<1>5. OtherTypes
  BY <1>4 DEF Pool!Init, OtherTypes, Pool!ConstantsAssumption
<1>6. Pool!ReleasedIsDone
  BY DEF Pool!Init, Pool!ReleasedIsDone
<1>7. LimitInv
  BY <1>3, <1>4, <1>6 DEF Pool!Init, LimitInv
<1>8. BusyInv
  BY <1>3, <1>4 DEF Pool!Init, BusyInv, Pool!WithinLimit
<1> QED BY <1>1, <1>5, <1>7, <1>8 DEF PoolInv

(* With one thread to a group, as the hand tracker and TaskCollection have    *)
(* it: the counters and the limit are what they count, no more workers run    *)
(* than the limit allows, a released thread is released once and finds its    *)
(* group done, and no assertion of u_worker.c fails.                          *)
THEOREM PoolSafe ==
  ASSUME Pool!ConstantsAssumption, OneUserEach
  PROVE  Pool!Spec => []Pool!PoolInvariant
<1>1. Pool!Init => PoolInv
  BY PoolInvInit
<1>2. PoolInv /\ [Pool!Next]_(Pool!vars) => PoolInv'
  BY PoolInvStep
<1>3. PoolInv => Pool!PoolInvariant
  <2> SUFFICES ASSUME PoolInv PROVE Pool!PoolInvariant
    OBVIOUS
  <2> USE DEF PoolInv
  <2>1. working_count \in Nat /\ worker_limit \in Nat
    BY BusyFinite, DonorsFinite DEF BusyInv, LimitInv, Pool!ConstantsAssumption
  <2>2. /\ current_tasks_in_array \in [Groups -> Nat]
        /\ current_working_tasks \in [Groups -> Nat]
    BY TasksOfGroup DEF TaskInv
  <2>3. poolAborted = FALSE
    BY DEF LimitInv
  <2>4. poolAborted \in BOOLEAN
    BY <2>3, Zenon
  <2>5. Pool!TypeOK
    BY <2>1, <2>2, <2>4
    DEF Pool!TypeOK, TaskInv, OtherTypes, WorkerPlaces, UserPlaces
  <2>6. Pool!CountsAreExact
    BY SameSets
    DEF Pool!CountsAreExact, TaskInv, LimitInv, BusyInv, Busy, InArray, InHand
  <2> QED BY <2>5, <2>6 DEF Pool!PoolInvariant, LimitInv, BusyInv
<1> QED BY <1>1, <1>2, <1>3, PTL DEF Pool!Spec

-----------------------------------------------------------------------------
(* Nobody sleeps in vain.  A wake-up is a signal to one thread, often under a *)
(* condition: what is proved is that whoever sleeps still has to, and that    *)
(* somebody who does not is left to wake it.                                  *)

(* u_future.cpp: the broadcast that goes with the decision wakes every thread *)
(* in u_future_wait.                                                          *)
THEOREM NoWaiterLeftBehind == Spec => []SleepsWhilePending
<1>1. Init => SleepsWhilePending
  BY DEF Init, SleepsWhilePending
<1>2. FutureInv /\ SleepsWhilePending /\ [Next]_vars => SleepsWhilePending'
  <2> SUFFICES ASSUME FutureInv, SleepsWhilePending, [Next]_vars
               PROVE  SleepsWhilePending'
    OBVIOUS
  <2> USE DEF FutureInv, TypeOK, SleepsWhilePending
  <2>1. ASSUME NEW p \in Producers, Complete(p) PROVE SleepsWhilePending'
    BY <2>1 DEF Complete, Decide, Broadcast, Sleepers
  <2>2. CASE Cancel
    BY <2>2 DEF Cancel, Decide, Broadcast, Sleepers
  <2>3. ASSUME NEW t \in Waiters,
               \/ Wait(t) \/ TimedOut(t) \/ SpuriousWakeup(t) \/ ReadResult(t)
               \/ GetResult(t)
        PROVE  SleepsWhilePending'
    BY <2>3 DEF Wait, TimedOut, SpuriousWakeup, ReadResult, GetResult, WaitUnchanged
  <2>4. CASE UNCHANGED vars
    BY <2>4 DEF vars
  <2> QED BY <2>1, <2>2, <2>3, <2>4 DEF Next
<1> QED BY <1>1, <1>2, FutureInvariant, PTL DEF Spec

(* u_sink_queue.c: the thread of the queue sleeps only while it is empty and  *)
(* running, so a frame and the teardown both find it awake or wake it.        *)
THEOREM QueueThreadWakes ==
  ASSUME Queue!ConstantsAssumption
  PROVE  Queue!Init /\ [][Queue!Next]_(Queue!vars) => []Queue!SleepsWhenEmpty
<1>1. Queue!Init => Queue!SleepsWhenEmpty
  BY DEF Queue!Init, Queue!SleepsWhenEmpty
<1>2. QueueInv /\ Queue!SleepsWhenEmpty /\ [Queue!Next]_(Queue!vars)
        => Queue!SleepsWhenEmpty'
  BY DEF QueueInv, Queue!TypeOK, Queue!SleepsWhenEmpty, Queue!Next, Queue!vars,
         Queue!queue_frame, Queue!Signal, Queue!Loop, Queue!Consumed,
         Queue!Spurious, Queue!queue_break_apart, Queue!Joined, Queue!Finished
<1> QED BY <1>1, <1>2, QueueInvariant, PTL

(* u_sink_force_genlock.c and u_sink_simple_queue.c: the threads of a stereo  *)
(* camera sleep only for want of a frame, and not once their node is broken   *)
(* apart, whichever frame comes while they are on their way to the wait.      *)
THEOREM StereoThreadsWake ==
  ASSUME MaxExposure \in Nat
  PROVE  StereoSpec => []Stereo!SleepOnlyForFrames
<1> USE DEF Stereo!SleepOnlyForFrames
<1>1. Stereo!Init => Stereo!SleepOnlyForFrames
  BY DEF Stereo!Init
<1>2. StereoInv /\ Stereo!SleepOnlyForFrames /\ [Stereo!Next]_(Stereo!vars)
        => Stereo!SleepOnlyForFrames'
  <2> SUFFICES ASSUME StereoInv, Stereo!SleepOnlyForFrames,
                      [Stereo!Next]_(Stereo!vars)
               PROVE  Stereo!SleepOnlyForFrames'
    OBVIOUS
  <2> USE DEF Stereo!cameraVars, Stereo!genlockVars, Stereo!queueVars,
              Stereo!contextVars, Stereo!Signalled
  <2>1. ASSUME NEW s \in Stereo!Sides, Stereo!Capture(s)
        PROVE  Stereo!SleepOnlyForFrames'
    BY <2>1 DEF Stereo!Capture
  <2>2. CASE Stereo!PairUp
    BY <2>2 DEF Stereo!PairUp
  <2>3. CASE Stereo!PushLeft
    BY <2>3 DEF Stereo!PushLeft
  <2>4. CASE Stereo!PushRight
    BY <2>4 DEF Stereo!PushRight
  <2>5. CASE Stereo!Queue
    BY <2>5 DEF Stereo!Queue, Stereo!Consume, Stereo!ConsumerReturns
  <2>6. CASE Stereo!Spurious
    BY <2>6 DEF Stereo!Spurious
  <2>7. CASE Stereo!BreakApart
    <3>1. PICK n : /\ running' = [running EXCEPT ![n] = FALSE]
                   /\ locked' = IF n = "genlock" THEN Stereo!Empty ELSE locked
                   /\ glpc' = IF n = "genlock" THEN Stereo!Signalled(glpc) ELSE glpc
                   /\ qpc' = IF n = "queue" THEN Stereo!Signalled(qpc) ELSE qpc
                   /\ UNCHANGED seq
      BY <2>7 DEF Stereo!BreakApart
    <3> QED BY <3>1 DEF StereoInv, TeardownInv
  <2>8. CASE Stereo!Joined \/ Stereo!Destroy
    BY <2>8 DEF Stereo!Joined, Stereo!Destroy
  <2>9. CASE UNCHANGED Stereo!vars
    BY <2>9 DEF Stereo!vars
  <2> QED BY <2>1, <2>2, <2>3, <2>4, <2>5, <2>6, <2>7, <2>8, <2>9
          DEF Stereo!Next, Stereo!Genlock, Stereo!Context, Stereo!Finished
<1> QED BY <1>1, <1>2, PairsStayTogether, PTL DEF StereoSpec

-----------------------------------------------------------------------------
(* And nobody sleeps in vain in the worker pool. *)

(* A task that the limit allows has a worker on its way to it, or no worker   *)
(* that could be woken for it.                                                *)
Served(array, working, limit, pc) ==
  Pool!Filled(array) # {} /\ working < limit =>
    \/ \E w \in Workers : pc[w] \in {"head", "woken"}
    \/ \A w \in Workers : pc[w] # "asleep"

AllExited(pc) == \A w \in Workers : pc[w] = "exited"
SomeAwake(pc) == \E w \in Workers : pc[w] \in {"head", "woken", "working"}

(* While the pool runs no worker ends and every task allowed is served; then  *)
(* each worker that ends wakes the next one.                                  *)
WorkersServed ==
  /\ poolRunning =>
       /\ \A w \in Workers : worker[w] # "exited"
       /\ Served(tasks, working_count, worker_limit, worker)
  /\ ~poolRunning => AllExited(worker) \/ SomeAwake(worker)

(* Who waits has tasks left, or has been told that it has not; and the pool   *)
(* outlives its users.                                                        *)
UsersServed ==
  /\ \A u \in Users : upc[u] \in {"asleep", "woken"} =>
       Pool!HasTasks(GroupOf[u]) \/ released_count[GroupOf[u]] > 0
  /\ ~poolRunning => \A u \in Users : upc[u] \in {"joining", "gone"}
  /\ \A u \in Users : upc[u] = "joining" => ~poolRunning

SleepInv == WorkersServed /\ UsersServed

\* pthread_cond_signal wakes a worker unless none of them sleeps.
LEMMA SignalEffect ==
  ASSUME NEW pc \in [Workers -> WorkerPlaces], NEW q \in Pool!Signalled(pc)
  PROVE  \/ \E w \in Workers : q[w] = "woken"
         \/ q = pc /\ \A w \in Workers : pc[w] # "asleep"
BY DEF Pool!Signalled

\* locked_pool_wake_worker_if_allowed: its three conditions leave out nobody.
LEMMA WakeServes ==
  ASSUME NEW array, NEW working \in Int, NEW limit \in Int,
         NEW pc \in [Workers -> WorkerPlaces],
         NEW q \in Pool!WakeWorkerIfAllowed(array, working, limit, pc)
  PROVE  Served(array, working, limit, q)
<1> SUFFICES ASSUME Pool!Filled(array) # {}, working < limit
             PROVE  \/ \E w \in Workers : q[w] \in {"head", "woken"}
                    \/ \A w \in Workers : q[w] # "asleep"
  BY DEF Served
<1>1. CASE Pool!Waiting(pc) = {}
  <2>1. q = pc /\ \A w \in Workers : pc[w] # "asleep"
    BY <1>1 DEF Pool!WakeWorkerIfAllowed, Pool!Waiting
  <2> QED BY <2>1
<1>2. CASE Pool!Waiting(pc) # {}
  <2>1. q \in Pool!Signalled(pc)
    BY <1>2 DEF Pool!WakeWorkerIfAllowed
  <2> QED BY <2>1, SignalEffect
<1> QED BY <1>1, <1>2

\* A worker that is woken for another reason serves as well as before.
LEMMA WokenServes ==
  ASSUME NEW array, NEW working, NEW limit,
         NEW p \in [Workers -> WorkerPlaces], NEW q, Woken(p, q)
  PROVE  /\ Served(array, working, limit, p) => Served(array, working, limit, q)
         /\ (\A w \in Workers : p[w] # "exited")
              => \A w \in Workers : q[w] # "exited"
         /\ AllExited(p) => AllExited(q)
         /\ SomeAwake(p) => SomeAwake(q)
BY DEF Woken, Served, AllExited, SomeAwake

(* A pass of run_func: a worker goes to sleep only when there is nothing for  *)
(* it, takes a task and wakes one more for the next, or ends and wakes one    *)
(* more to end.                                                               *)
LEMMA LoopServes ==
  ASSUME worker \in [Workers -> WorkerPlaces], NEW w \in Workers,
         NEW working \in Int, NEW limit \in Int, NEW working_tasks,
         poolRunning => \A v \in Workers : worker[v] # "exited",
         Pool!Loop(w, working, working_tasks, limit)
  PROVE  /\ poolRunning =>
              /\ \A v \in Workers : worker'[v] # "exited"
              /\ Served(tasks', working_count', limit, worker')
         /\ ~poolRunning => AllExited(worker') \/ SomeAwake(worker')
<1> DEFINE to(place) == [worker EXCEPT ![w] = place]
<1>1. \A place \in WorkerPlaces : /\ to(place) \in [Workers -> WorkerPlaces]
                                  /\ to(place)[w] = place
                                  /\ \A v \in Workers : v # w => to(place)[v] = worker[v]
  OBVIOUS
<1>2. {"working", "asleep", "exited"} \subseteq WorkerPlaces
  BY DEF WorkerPlaces
<1>3. CASE poolRunning /\ Pool!PopTask(w, working, working_tasks, limit)
  <2>1. /\ worker' \in Pool!WakeWorkerIfAllowed(tasks', working + 1, limit, to("working"))
        /\ working_count' = working + 1
    BY <1>3 DEF Pool!PopTask
  <2> HIDE DEF to
  <2>0. to("working") \in [Workers -> WorkerPlaces] /\ working + 1 \in Int
    BY <1>1, <1>2
  <2>2. Served(tasks', working + 1, limit, worker')
    BY <2>0, <2>1, WakeServes
  <2>3. Woken(to("working"), worker')
    BY <1>1, <1>2, <2>1, WakeAllowed
  <2>4. \A v \in Workers : to("working")[v] # "exited"
    BY <1>1, <1>2, <1>3
  <2>5. \A v \in Workers : worker'[v] # "exited"
    BY <2>3, <2>4 DEF Woken
  <2> QED BY <1>3, <2>1, <2>2, <2>5
<1>4. CASE /\ poolRunning /\ (Pool!Filled(tasks) = {} \/ working >= limit)
           /\ worker' = to("asleep") /\ working_count' = working
           /\ UNCHANGED tasks
  BY <1>4 DEF Served
<1>5. CASE ~poolRunning /\ worker' \in Pool!Signalled(to("exited"))
  <2> HIDE DEF to
  <2>0. to("exited") \in [Workers -> WorkerPlaces]
    BY <1>1, <1>2
  <2>1. \/ \E v \in Workers : worker'[v] = "woken"
        \/ worker' = to("exited") /\ \A v \in Workers : worker'[v] # "asleep"
    BY <1>5, <2>0, SignalEffect
  <2>2. worker' \in [Workers -> WorkerPlaces]
    BY <1>1, <1>2, <1>5, SignalWakes DEF Woken
  <2> QED BY <1>5, <2>1, <2>2 DEF AllExited, SomeAwake, WorkerPlaces
<1> QED BY <1>3, <1>4, <1>5 DEF Pool!Loop

\* Every step of the pool serves the tasks, or wakes the next worker to end.
LEMMA WorkersServedStep ==
  ASSUME Pool!ConstantsAssumption, OneUserEach, PoolInv, PoolInv',
         SleepInv, [Pool!Next]_(Pool!vars)
  PROVE  WorkersServed'
<1> USE DEF SleepInv, WorkersServed
<1>1. /\ worker \in [Workers -> WorkerPlaces]
      /\ worker' \in [Workers -> WorkerPlaces]
      /\ working_count \in Int /\ worker_limit \in Int /\ worker_limit' \in Int
  BY DEF PoolInv, TaskInv, OtherTypes
<1>2. Woken(worker, worker)
  BY <1>1 DEF Woken
<1> DEFINE Quiet == UNCHANGED <<tasks, working_count, worker_limit, poolRunning>>
<1>3. ASSUME Quiet, Woken(worker, worker') PROVE WorkersServed'
  BY <1>1, <1>3, WokenServes
<1>4. ASSUME NEW limit \in Int, worker_limit' = limit,
             UNCHANGED <<tasks, working_count, poolRunning>>,
             worker' \in Pool!WakeWorkerIfAllowed(tasks, working_count, limit, worker)
      PROVE  WorkersServed'
  <2>1. Served(tasks, working_count, limit, worker')
    BY <1>1, <1>4, WakeServes
  <2>2. Woken(worker, worker')
    BY <1>1, <1>4, WakeAllowed
  <2> QED BY <1>1, <1>4, <2>1, <2>2, WokenServes
<1>5. ASSUME NEW w \in Workers, Pool!TakeWork(w) PROVE WorkersServed'
  <2>1. /\ Pool!Loop(w, working_count, current_working_tasks, worker_limit)
        /\ UNCHANGED <<worker_limit, poolRunning>>
    BY <1>5 DEF Pool!TakeWork
  <2> QED BY <1>1, <2>1, LoopServes
<1>6. ASSUME NEW w \in Workers, Pool!FinishTask(w) PROVE WorkersServed'
  <2>1. PICK left : /\ Pool!Loop(w, working_count - 1, left, worker_limit')
                    /\ UNCHANGED poolRunning
    BY <1>6 DEF Pool!FinishTask
  <2> QED BY <1>1, <2>1, LoopServes
<1>7. ASSUME NEW w \in Workers, Pool!SpuriousWorker(w) PROVE WorkersServed'
  <2>1. Woken(worker, worker')
    BY <1>1, <1>7 DEF Pool!SpuriousWorker, Woken, WorkerPlaces
  <2> QED BY <1>3, <1>7, <2>1 DEF Pool!SpuriousWorker, Pool!countVars
<1>8. ASSUME NEW u \in Users, Pool!Push(u) PROVE WorkersServed'
  <2>1. worker' \in Pool!Signalled(worker) /\ UNCHANGED poolRunning
    BY <1>8 DEF Pool!Push
  <2>2. Woken(worker, worker')
    BY <1>1, <2>1, SignalWakes
  <2>3. Served(tasks', working_count', worker_limit', worker')
    BY <1>1, <2>1, SignalEffect DEF Served
  <2> QED BY <1>1, <2>1, <2>2, <2>3, WokenServes
<1>9. ASSUME NEW u \in Users, NEW reason, Pool!Donate(u, reason)
      PROVE  WorkersServed'
  BY <1>1, <1>4, <1>9 DEF Pool!Donate
<1>10. ASSUME NEW u \in Users, Pool!DestroyGroup(u) PROVE WorkersServed'
  BY <1>2, <1>3, <1>9, <1>10
  DEF Pool!DestroyGroup, Pool!countVars, Pool!workerVars
<1>11. ASSUME NEW u \in Users, Pool!WokenWaiter(u) PROVE WorkersServed'
  BY <1>1, <1>2, <1>3, <1>4, <1>11 DEF Pool!WokenWaiter
<1>12. ASSUME NEW u \in Users, Pool!DropPool(u) PROVE WorkersServed'
  <2>1. UNCHANGED <<tasks, working_count, worker_limit>>
    BY <1>12 DEF Pool!DropPool, Pool!countVars
  <2>2. CASE worker' = worker /\ poolRunning'
    <3>1. poolRunning
      BY <1>12 DEF Pool!DropPool, UsersServed
    <3>2. poolRunning \in BOOLEAN /\ poolRunning' \in BOOLEAN
      BY DEF PoolInv, OtherTypes
    <3>3. UNCHANGED poolRunning
      BY <2>2, <3>1, <3>2
    <3> QED BY <1>2, <1>3, <2>1, <2>2, <3>3
  <2>3. CASE worker' \in Pool!Signalled(worker) /\ ~poolRunning'
    <3>1. \/ \E v \in Workers : worker'[v] = "woken"
          \/ worker' = worker /\ \A v \in Workers : worker[v] # "asleep"
      BY <1>1, <2>3, SignalEffect
    <3>2. CASE poolRunning
      BY <1>1, <2>3, <3>1, <3>2 DEF AllExited, SomeAwake, WorkerPlaces
    <3>3. CASE ~poolRunning
      BY <1>1, <2>3, <3>3, SignalWakes, WokenServes
    <3> QED BY <3>2, <3>3
  <2> QED BY <1>12, <2>2, <2>3 DEF Pool!DropPool
<1>13. ASSUME NEW u \in Users, Pool!JoinWorkers(u) \/ Pool!SpuriousWaiter(u)
       PROVE  WorkersServed'
  BY <1>2, <1>3, <1>13
  DEF Pool!JoinWorkers, Pool!SpuriousWaiter, Pool!countVars, Pool!workerVars
<1>14. CASE UNCHANGED Pool!vars
  BY <1>2, <1>3, <1>14 DEF Pool!vars, Pool!countVars, Pool!workerVars
<1> HIDE DEF Quiet, SleepInv, WorkersServed
<1> QED
  BY <1>5, <1>6, <1>7, <1>8, <1>9, <1>10, <1>11, <1>12, <1>13, <1>14
  DEF Pool!Next, Pool!Worker, Pool!Call, Pool!InCall, Pool!PushWhenFull,
      Pool!WaitAll, Pool!Finished

\* The counters of a group after a step, as TasksOfGroup has them before it.
LEMMA TasksOfGroupNext ==
  ASSUME Pool!ConstantsAssumption, TaskInv', NEW g \in Groups
  PROVE  /\ current_tasks_in_array'[g] \in Nat
         /\ current_working_tasks'[g] \in Nat
         /\ Pool!HasTasks(g)'
              <=> current_tasks_in_array'[g] + current_working_tasks'[g] # 0
<1>1. Cardinality(InArray(tasks', g)) \in Nat
        /\ Cardinality(InHand(worker', task', g)) \in Nat
  BY SetsFinite, FS_CardinalityType
<1> QED BY <1>1 DEF TaskInv, Pool!HasTasks, Pool!TasksLeft

(* A step that leaves no group with fewer tasks and releases nobody, and in   *)
(* which nobody begins to wait whose group has none.                          *)
LEMMA WaitersKept ==
  ASSUME Pool!ConstantsAssumption, PoolInv, TaskInv', SleepInv,
         UNCHANGED <<released_count, poolRunning>>,
         \A g \in Groups :
            current_tasks_in_array'[g] + current_working_tasks'[g]
              >= current_tasks_in_array[g] + current_working_tasks[g],
         \A u \in Users : upc'[u] = upc[u]
           \/ /\ upc'[u] \in {"asleep", "woken"}
              /\ upc[u] \in {"asleep", "woken"} \/ Pool!HasTasks(GroupOf[u])
              /\ upc[u] \notin {"joining", "gone"}
           \/ /\ upc'[u] \in {"idle", "pushing", "dropping", "gone"}
              /\ upc[u] = "gone" => upc'[u] = "gone"
              /\ upc[u] = "joining" => upc'[u] = "gone"
  PROVE  UsersServed'
<1> USE DEF SleepInv, UsersServed
<1>1. \A u \in Users : GroupOf[u] \in Groups
  BY DEF Pool!ConstantsAssumption
<1>2. ASSUME NEW g \in Groups, Pool!HasTasks(g) PROVE Pool!HasTasks(g)'
  <2>1. /\ current_tasks_in_array[g] \in Nat /\ current_working_tasks[g] \in Nat
        /\ current_tasks_in_array[g] + current_working_tasks[g] # 0
    BY <1>2, TasksOfGroup DEF PoolInv
  <2> QED BY <2>1, TasksOfGroupNext
<1>3. \A u \in Users : upc'[u] \in {"asleep", "woken"} =>
        Pool!HasTasks(GroupOf[u])' \/ released_count'[GroupOf[u]] > 0
  BY <1>1, <1>2
<1>4. ~poolRunning' => \A u \in Users : upc'[u] \in {"joining", "gone"}
  OBVIOUS
<1>5. \A u \in Users : upc'[u] = "joining" => ~poolRunning'
  OBVIOUS
<1> QED BY <1>3, <1>4, <1>5

(* The last task of a group that is waited for releases its thread.           *)
LEMMA FinishServesUsers ==
  ASSUME Pool!ConstantsAssumption, OneUserEach, PoolInv, TaskInv', SleepInv,
         NEW w \in Workers, Pool!FinishTask(w)
  PROVE  UsersServed'
<1> USE DEF PoolInv, TaskInv, SleepInv, UsersServed
<1> DEFINE g == task[w]
           left == [current_working_tasks EXCEPT ![g] = @ - 1]
<1>1. /\ worker[w] = "working" /\ g \in Groups
      /\ Pool!WakeWaiterIfAllowed(g, ~Pool!TasksLeft(g, left))
      /\ Pool!Loop(w, working_count - 1, left, worker_limit')
      /\ UNCHANGED poolRunning
  BY DEF Pool!FinishTask
<1>2. left \in [Groups -> Int]
        /\ \A h \in Groups : h # g => left[h] = current_working_tasks[h]
  BY <1>1
<1> HIDE DEF left, g
<1>3. \A h \in Groups :
        current_tasks_in_array'[h] + current_working_tasks'[h]
          = current_tasks_in_array[h] + left[h]
  BY <1>1, <1>2, LoopTotals
<1>4. \A u \in Users : GroupOf[u] \in Groups
  BY DEF Pool!ConstantsAssumption
<1>5. /\ \A u \in Users : upc'[u] = upc[u]
            \/ (upc[u] = "asleep" /\ upc'[u] = "woken")
      /\ \A h \in Groups : released_count'[h] \in Nat
                           /\ released_count'[h] >= released_count[h]
  BY <1>1
  DEF Pool!WakeWaiterIfAllowed, Pool!WaitersOf, Pool!Waiting, OtherTypes
<1>6. ASSUME NEW u \in Users, upc'[u] \in {"asleep", "woken"}
      PROVE  Pool!HasTasks(GroupOf[u])' \/ released_count'[GroupOf[u]] > 0
  <2>1. upc[u] \in {"asleep", "woken"}
    BY <1>5, <1>6
  <2>2. CASE GroupOf[u] # g
    <3>1. CASE released_count[GroupOf[u]] > 0
      BY <1>4, <1>5, <3>1 DEF OtherTypes
    <3>2. CASE Pool!HasTasks(GroupOf[u])
      <4>1. current_tasks_in_array[GroupOf[u]] + current_working_tasks[GroupOf[u]] # 0
        BY <1>4, <3>2, TasksOfGroup
      <4> QED BY <1>2, <1>3, <1>4, <2>2, <4>1, TasksOfGroupNext
    <3> QED BY <2>1, <3>1, <3>2
  <2>3. CASE GroupOf[u] = g
    <3>1. CASE Pool!TasksLeft(g, left)
      <4>1. /\ current_tasks_in_array[g] \in Nat
            /\ left[g] = current_working_tasks[g] - 1
            /\ current_working_tasks[g] \in Nat
        BY <1>1, TasksOfGroup DEF left
      <4>2. current_working_tasks[g] >= 1
        <5>1. w \in InHand(worker, task, g)
          BY <1>1 DEF InHand, g
        <5>2. current_working_tasks[g] # 0
          BY <1>1, <5>1, SetsFinite, FS_EmptySet
        <5> QED BY <4>1, <5>2
      <4>3. current_tasks_in_array[g] + left[g] # 0
        BY <3>1, <4>1, <4>2 DEF Pool!TasksLeft
      <4> QED BY <1>1, <1>3, <2>3, <4>3, TasksOfGroupNext
    <3>2. CASE ~Pool!TasksLeft(g, left)
      <4>1. u \in Pool!WaitersOf(g)
        BY <2>1, <2>3 DEF Pool!WaitersOf, Pool!Waiting
      <4>2. released_count'[g] = released_count[g] + 1
        BY <1>1, <3>2, <4>1 DEF Pool!WakeWaiterIfAllowed, OtherTypes
      <4> QED BY <1>1, <2>3, <4>2 DEF OtherTypes
    <3> QED BY <3>1, <3>2
  <2> QED BY <2>2, <2>3
<1> QED BY <1>1, <1>5, <1>6

\* Every step of the pool leaves who waits with tasks, or releases it.
LEMMA UsersServedStep ==
  ASSUME Pool!ConstantsAssumption, OneUserEach, PoolInv, PoolInv', SleepInv,
         [Pool!Next]_(Pool!vars)
  PROVE  UsersServed'
<1>1. TaskInv' /\ upc \in [Users -> UserPlaces]
  BY DEF PoolInv, TaskInv
<1>2. \A g \in Groups : current_tasks_in_array[g] \in Int
        /\ current_working_tasks[g] \in Int
  BY DEF PoolInv, TaskInv
<1>3. ASSUME NEW w \in Workers, Pool!TakeWork(w) PROVE UsersServed'
  <2>1. \A g \in Groups :
          current_tasks_in_array'[g] + current_working_tasks'[g]
            = current_tasks_in_array[g] + current_working_tasks[g]
    BY <1>3, LoopTotals DEF Pool!TakeWork, PoolInv, TaskInv
  <2> QED BY <1>1, <1>2, <1>3, <2>1, WaitersKept
          DEF Pool!TakeWork, Pool!userVars
<1>4. ASSUME NEW w \in Workers, Pool!SpuriousWorker(w) PROVE UsersServed'
  BY <1>1, <1>2, <1>4, WaitersKept
  DEF Pool!SpuriousWorker, Pool!countVars, Pool!userVars
<1>5. ASSUME NEW u \in Users, Pool!Push(u) PROVE UsersServed'
  <2>1. /\ upc[u] \in {"idle", "pushing"}
        /\ upc' = [upc EXCEPT ![u] = "idle"]
        /\ current_tasks_in_array' = [current_tasks_in_array EXCEPT ![GroupOf[u]] = @ + 1]
        /\ UNCHANGED <<current_working_tasks, released_count, poolRunning>>
    BY <1>5 DEF Pool!Push
  <2>2. \A g \in Groups :
          current_tasks_in_array'[g] >= current_tasks_in_array[g]
    BY <1>2, <2>1 DEF PoolInv, TaskInv
  <2>3. \A g \in Groups : current_tasks_in_array'[g] \in Int
    BY <1>1 DEF TaskInv
  <2> QED BY <1>1, <1>2, <2>1, <2>2, <2>3, WaitersKept
<1>6. ASSUME NEW u \in Users, NEW reason,
             upc[u] \in {"idle", "pushing"}, Pool!Donate(u, reason)
      PROVE  UsersServed'
  BY <1>1, <1>2, <1>6, WaitersKept DEF Pool!Donate
<1>7. ASSUME NEW u \in Users, Pool!DestroyGroup(u) PROVE UsersServed'
  <2>1. CASE Pool!Donate(u, "destroy")
    BY <1>6, <1>7, <2>1 DEF Pool!DestroyGroup
  <2>2. CASE ~Pool!Donate(u, "destroy")
    BY <1>1, <1>2, <1>7, <2>2, WaitersKept
    DEF Pool!DestroyGroup, Pool!countVars
  <2> QED BY <2>1, <2>2
<1>8. ASSUME NEW u \in Users, Pool!WokenWaiter(u) PROVE UsersServed'
  <2> DEFINE g == GroupOf[u]
  <2>1. /\ g \in Groups /\ released_count[g] \in Nat /\ upc[u] = "woken"
        /\ ~(Pool!HasTasks(g) /\ released_count[g] > 0)
    BY <1>8, Released DEF Pool!WokenWaiter
  <2>2. UNCHANGED <<current_tasks_in_array, current_working_tasks, poolRunning>>
    BY <1>8 DEF Pool!WokenWaiter
  <2>3. CASE /\ upc' = [upc EXCEPT ![u] = "asleep"]
             /\ UNCHANGED released_count
    BY <1>1, <1>2, <2>1, <2>2, <2>3, WaitersKept
  <2>4. CASE /\ upc' = [upc EXCEPT ![u] = Pool!Resume(u)]
             /\ released_count' = [released_count EXCEPT ![g] = @ - 1]
    <3>1. Pool!Resume(u) \in {"idle", "pushing", "dropping"}
      BY DEF Pool!Resume, PoolInv, TaskInv
    <3>2. \A v \in Users : v # u => /\ upc'[v] = upc[v]
                                    /\ GroupOf[v] \in Groups /\ GroupOf[v] # g
      BY <2>4 DEF OneUserEach, Pool!ConstantsAssumption
    <3>3. \A v \in Users : v # u =>
            released_count'[GroupOf[v]] = released_count[GroupOf[v]]
      BY <2>4, <3>2 DEF PoolInv, OtherTypes
    <3>4. \A h \in Groups : Pool!HasTasks(h)' <=> Pool!HasTasks(h)
      BY <2>2 DEF Pool!HasTasks, Pool!TasksLeft
    <3>5. upc'[u] = Pool!Resume(u)
      BY <1>1, <2>4
    <3>6. poolRunning
      BY <2>1 DEF SleepInv, UsersServed
    <3> QED BY <2>2, <3>1, <3>2, <3>3, <3>4, <3>5, <3>6
            DEF SleepInv, UsersServed
  <2> QED BY <1>8, <2>1, <2>3, <2>4 DEF Pool!WokenWaiter
<1>9. ASSUME NEW u \in Users, Pool!DropPool(u) PROVE UsersServed'
  <2> DEFINE last == \A v \in Users \ {u} : upc[v] = "gone"
  <2>1. /\ upc[u] = "dropping" /\ poolRunning' = ~last
        /\ upc' = [upc EXCEPT ![u] = IF last THEN "joining" ELSE "gone"]
        /\ UNCHANGED <<released_count, current_tasks_in_array,
                       current_working_tasks>>
    BY <1>9 DEF Pool!DropPool, Pool!countVars
  <2>2. poolRunning
    BY <2>1 DEF SleepInv, UsersServed
  <2>3. CASE last
    BY <1>1, <2>1, <2>3 DEF SleepInv, UsersServed
  <2>4. CASE ~last
    <3>1. UNCHANGED poolRunning
      BY <2>1, <2>2, <2>4 DEF PoolInv, OtherTypes
    <3> QED BY <1>1, <1>2, <2>1, <2>4, <3>1, WaitersKept
  <2> QED BY <2>3, <2>4
<1>10. ASSUME NEW u \in Users, Pool!JoinWorkers(u) PROVE UsersServed'
  BY <1>1, <1>2, <1>10, WaitersKept DEF Pool!JoinWorkers, Pool!countVars
<1>11. ASSUME NEW u \in Users, Pool!SpuriousWaiter(u) PROVE UsersServed'
  BY <1>1, <1>2, <1>11, WaitersKept DEF Pool!SpuriousWaiter, Pool!countVars
<1>12. CASE UNCHANGED Pool!vars
  BY <1>1, <1>2, <1>12, WaitersKept
  DEF Pool!vars, Pool!countVars, Pool!userVars
<1>13. ASSUME NEW w \in Workers, Pool!FinishTask(w) PROVE UsersServed'
  BY <1>1, <1>13, FinishServesUsers
<1>14. ASSUME NEW u \in Users, Pool!PushWhenFull(u) \/ Pool!WaitAll(u)
       PROVE  UsersServed'
  BY <1>6, <1>14 DEF Pool!PushWhenFull, Pool!WaitAll
<1> QED
  BY <1>3, <1>4, <1>5, <1>7, <1>8, <1>9, <1>10, <1>11, <1>12, <1>13, <1>14
  DEF Pool!Next, Pool!Worker, Pool!Call, Pool!InCall, Pool!Finished

\* A new pool: its workers are all on their way to look for a task.
LEMMA SleepInvInit ==
  ASSUME Pool!Init
  PROVE  SleepInv
BY DEF Pool!Init, SleepInv, WorkersServed, UsersServed, Served, Pool!Filled

(* What the invariant is for: whoever sleeps has a worker that is awake.      *)
LEMMA SleepersHaveWorkers ==
  ASSUME Pool!ConstantsAssumption, OneUserEach, Workers # {}, PoolInv, SleepInv
  PROVE  Pool!NobodyForgotten
<1> USE DEF PoolInv, TaskInv, SleepInv, WorkersServed, UsersServed
<1>1. ASSUME NEW u \in Users, upc[u] = "asleep"
      PROVE  Pool!HasTasks(GroupOf[u]) /\ Pool!Awake # {}
  <2> DEFINE g == GroupOf[u]
  <2>1. g \in Groups /\ released_count[g] = 0 /\ Pool!HasTasks(g)
    BY <1>1, Released
  <2>2. poolRunning
    BY <1>1
  <2>3. CASE current_working_tasks[g] # 0
    <3>1. InHand(worker, task, g) # {}
      BY <2>1, <2>3, FS_EmptySet
    <3> QED BY <2>1, <3>1 DEF InHand, Pool!Awake
  <2>4. CASE current_tasks_in_array[g] # 0 /\ working_count < worker_limit
    <3>1. InArray(tasks, g) # {}
      BY <2>1, <2>4, FS_EmptySet
    <3>2. Pool!Filled(tasks) # {}
      BY <2>1, <3>1 DEF InArray, Pool!Filled, Pool!ConstantsAssumption
    <3> QED BY <2>1, <2>2, <2>4, <3>2 DEF Served, Pool!Awake, WorkerPlaces
  <2>5. CASE ~(working_count < worker_limit)
    <3>1. u \in Pool!Donors
      BY <1>1, <2>1 DEF Pool!Donors
    <3>2. Cardinality(Pool!Donors) # 0
      BY <3>1, DonorsFinite, FS_EmptySet
    <3>3. worker_limit > 0
      BY <3>2, DonorsFinite DEF LimitInv, Pool!ConstantsAssumption
    <3>4. Cardinality(Busy(worker)) # 0
      BY <2>5, <3>3 DEF BusyInv, OtherTypes
    <3>5. Busy(worker) # {}
      BY <3>4, FS_EmptySet
    <3> QED BY <2>1, <3>5 DEF Busy, Pool!Awake
  <2> QED BY <2>1, <2>3, <2>4, <2>5 DEF Pool!HasTasks, Pool!TasksLeft
<1>2. ASSUME NEW u \in Users, upc[u] = "joining"
      PROVE  Pool!Awake # {} \/ \A w \in Workers : worker[w] = "exited"
  BY <1>2 DEF SomeAwake, AllExited, Pool!Awake
<1>3. poolRunning /\ Pool!Filled(tasks) # {} /\ working_count < worker_limit =>
        \/ \E w \in Workers : worker[w] \in {"head", "woken"}
        \/ \A w \in Workers : worker[w] = "working"
  BY DEF Served, WorkerPlaces
<1> QED BY <1>1, <1>2, <1>3 DEF Pool!NobodyForgotten

(* u_worker.c with one thread to a group and at least one worker: a thread in *)
(* u_worker_group_wait_all has tasks left and a worker at work on them or     *)
(* about to be, whatever the limit, and destroying the pool always finds a    *)
(* worker awake to be joined or none left.                                    *)
THEOREM PoolForgetsNobody ==
  ASSUME Pool!ConstantsAssumption, OneUserEach, Workers # {}
  PROVE  Pool!Spec => []Pool!NobodyForgotten
<1>1. Pool!Init => PoolInv /\ SleepInv
  BY PoolInvInit, SleepInvInit
<1>2. PoolInv /\ SleepInv /\ [Pool!Next]_(Pool!vars) => PoolInv' /\ SleepInv'
  BY PoolInvStep, WorkersServedStep, UsersServedStep DEF SleepInv
<1>3. PoolInv /\ SleepInv => Pool!NobodyForgotten
  BY SleepersHaveWorkers
<1> QED BY <1>1, <1>2, <1>3, PTL DEF Pool!Spec

-----------------------------------------------------------------------------
(* The units side by side. *)

(* While another unit is at work a unit stays as it is: what holds of a unit *)
(* by itself holds when it is one of the four.                               *)
LEMMA EachAtWork ==
  UnitsSpec => /\ Pool!Spec /\ StereoSpec /\ Spec
               /\ Queue!Init /\ [][Queue!Next]_(Queue!vars)
<1>1. UnitsInit => Pool!Init /\ Stereo!Init /\ Init /\ Queue!Init
  BY DEF UnitsInit
<1>2. [UnitsNext]_threadVars => [Pool!Next]_(Pool!vars)
  <2> SUFFICES ASSUME [UnitsNext]_threadVars
               PROVE  Pool!Next \/ UNCHANGED poolVars
    BY DEF poolVars, Pool!vars, Pool!countVars, Pool!workerVars, Pool!userVars
  <2> QED BY DEF UnitsNext, threadVars
<1>3. [UnitsNext]_threadVars => [Stereo!Next]_(Stereo!vars)
  <2> SUFFICES ASSUME [UnitsNext]_threadVars
               PROVE  Stereo!Next \/ UNCHANGED stereoVars
    BY DEF stereoVars, Stereo!vars, Stereo!cameraVars, Stereo!genlockVars,
           Stereo!queueVars, Stereo!contextVars
  <2> QED BY DEF UnitsNext, threadVars
<1>4. [UnitsNext]_threadVars => [Next]_vars
  BY DEF UnitsNext, threadVars, futureVars
<1>5. [UnitsNext]_threadVars => [Queue!Next]_(Queue!vars)
  <2> SUFFICES ASSUME [UnitsNext]_threadVars
               PROVE  Queue!Next \/ UNCHANGED queueVars
    BY DEF queueVars, Queue!vars
  <2> QED BY DEF UnitsNext, threadVars
<1> QED BY <1>1, <1>2, <1>3, <1>4, <1>5, PTL
        DEF UnitsSpec, Pool!Spec, StereoSpec, Spec

(* u_worker_group_wait_all is a barrier: whoever returns from it finds that  *)
(* every task its group was given before is done, also where several threads *)
(* share the group.                                                          *)
THEOREM WaitingIsABarrier == UnitsSpec => WaitIsABarrier
<1>1. Pool!Spec => Pool!WaitIsABarrier
  BY Barrier, UnitsAssumption
<1> QED BY <1>1, EachAtWork DEF WaitIsABarrier

(* The consumer of a stereo pair gets both frames of one exposure, and never *)
(* one that is older than the one before.                                    *)
THEOREM ConsumedInOrder == UnitsSpec => []PairsInOrder
<1>1. StereoInv => PairsInOrder
  BY PairInOrder DEF PairsInOrder
<1> QED BY <1>1, EachAtWork, PairsStayTogether, UnitsAssumption, PTL

(* No thread of the units sleeps on when what it sleeps for is there, or when *)
(* nobody is left to wake it: the half of "every call returns" that no        *)
(* scheduler can give.                                                        *)
THEOREM NobodySleepsInVain ==
  ASSUME OneUserEach, Workers # {}
  PROVE  UnitsSpec => []NoSleeperForgotten
<1>1. Pool!Spec => []Pool!NobodyForgotten
  BY PoolForgetsNobody, UnitsAssumption
<1>2. Queue!Init /\ [][Queue!Next]_(Queue!vars) => []Queue!SleepsWhenEmpty
  BY QueueThreadWakes, UnitsAssumption
<1>3. StereoSpec => []Stereo!SleepOnlyForFrames
  BY StereoThreadsWake, UnitsAssumption
<1> QED BY <1>1, <1>2, <1>3, NoWaiterLeftBehind, EachAtWork, PTL
        DEF NoSleeperForgotten
=============================================================================
