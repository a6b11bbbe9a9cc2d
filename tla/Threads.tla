------------------------------- MODULE Threads -------------------------------
(***************************************************************************)
(* The units of auxiliary/ that block threads: the worker pool, the future, *)
(* the sink queue and the sinks of a stereo camera.  They do not interact:  *)
(* a behaviour is one of the units at work while the others stay as they    *)
(* are.  Future is taken over as it is, the other three as instances.       *)
(***************************************************************************)
EXTENDS Future, Integers, Sequences

CONSTANTS
  Workers, Users, Groups, GroupOf, InitialLimit, Slots, PushLimit, NoTask,
  MaxSize, MaxFrames,
  MaxExposure

VARIABLES
  unit,
  tasks, current_tasks_in_array, current_working_tasks, working_count,
  worker_limit, released_count, poolRunning, worker, task, upc, why,
  tasksPushed, poolAborted,
  queue, queueRunning, queuePlace, queueFrame, control, framesPushed,
  exposure, locked, glpc, pair, combined, frame, seq, qpc, consumed, running,
  broken, joining, destroyed, aborted

poolVars == <<tasks, current_tasks_in_array, current_working_tasks,
              working_count, worker_limit, released_count, poolRunning, worker,
              task, upc, why, tasksPushed, poolAborted>>
queueVars == <<queue, queueRunning, queuePlace, queueFrame, control,
               framesPushed>>
stereoVars == <<exposure, locked, glpc, pair, combined, frame, seq, qpc,
                consumed, running, broken, joining, destroyed, aborted>>
futureVars == vars
threadVars == <<unit, poolVars, queueVars, stereoVars, futureVars>>

Pool == INSTANCE WorkerPool WITH
          running <- poolRunning, wpc <- worker, pushed <- tasksPushed,
          aborted <- poolAborted

Queue == INSTANCE SinkQueue WITH
           running <- queueRunning, pc <- queuePlace, frame <- queueFrame,
           pushed <- framesPushed

Stereo == INSTANCE StereoSinks

ASSUME UnitsAssumption ==
  /\ Pool!ConstantsAssumption /\ Queue!ConstantsAssumption
  /\ MaxExposure \in Nat

UnitsInit ==
  /\ unit \in {"pool", "queue", "stereo", "future"}
  /\ Pool!Init /\ Queue!Init /\ Stereo!Init /\ Init

UnitsNext ==
  \/ /\ unit = "pool" /\ Pool!Next
     /\ UNCHANGED <<unit, queueVars, stereoVars, futureVars>>
  \/ /\ unit = "queue" /\ Queue!Next
     /\ UNCHANGED <<unit, poolVars, stereoVars, futureVars>>
  \/ /\ unit = "stereo" /\ Stereo!Next
     /\ UNCHANGED <<unit, poolVars, queueVars, futureVars>>
  \/ /\ unit = "future" /\ Next
     /\ UNCHANGED <<unit, poolVars, queueVars, stereoVars>>

UnitsSpec == UnitsInit /\ [][UnitsNext]_threadVars

\* The fairness of the units, each while it is the one at work.
Fairness ==
  /\ \A w \in Workers : WF_poolVars(unit = "pool" /\ Pool!Worker(w))
  /\ \A u \in Users : WF_poolVars(unit = "pool" /\ Pool!InCall(u))
  /\ WF_queueVars(unit = "queue" /\ (Queue!Loop \/ Queue!Consumed))
  /\ WF_queueVars(unit = "queue" /\ Queue!Joined)
  /\ WF_stereoVars(unit = "stereo" /\ Stereo!Genlock)
  /\ WF_stereoVars(unit = "stereo" /\ Stereo!Queue)
  /\ WF_stereoVars(unit = "stereo" /\ Stereo!Context)
  /\ WF_stereoVars(unit = "stereo" /\ broken > 0 /\ Stereo!BreakApart)
  /\ \A t \in Waiters : WF_futureVars(unit = "future" /\ InWait(t))

UnitsFairSpec == UnitsSpec /\ Fairness

-----------------------------------------------------------------------------
(* WorkerPool: u_worker_group_wait_all is a barrier, and its calls return,  *)
(* as those of Future do once it is decided.                                *)
WaitIsABarrier == Pool!WaitIsABarrier
CallsReturn == Pool!CallsReturn /\ WaitersReturn

(* SinkQueue: u_sink_queue.c is a lossy FIFO that can always be torn down.  *)
ImplementsLossyFifo == Queue!ImplementsLossyFifo /\ Queue!BreakApartReturns

(* StereoSinks: pairs are of one exposure and in order, and consumed.       *)
PairsInOrder == Stereo!TypeOK /\ Stereo!PairsInOrder
PairIsConsumed == Stereo!PairIsConsumed

(* Every unit wakes a thread with a signal, often to one and often under a  *)
(* condition: no thread of any of them sleeps on when what it sleeps for is *)
(* there, or when nobody is left to wake it.                                *)
NoSleeperForgotten ==
  /\ Pool!NobodyForgotten
  /\ Queue!SleepsWhenEmpty
  /\ Stereo!SleepOnlyForFrames
  /\ SleepsWhilePending
=============================================================================
