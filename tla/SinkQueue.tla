------------------------------- MODULE SinkQueue -------------------------------
(***************************************************************************)
(* A queue between the thread that produces frames and the sink that       *)
(* consumes them on a thread of its own (u_sink_queue.c): the EuRoC        *)
(* recorder has two of them after one another for each camera.  A critical *)
(* section of its mutex is one step; the linked list is a sequence.        *)
(***************************************************************************)
EXTENDS Naturals, Sequences

CONSTANTS
  MaxSize,   \* max_size
  MaxFrames  \* bound: frames pushed

ConstantsAssumption == MaxSize \in Nat /\ MaxFrames \in Nat

VARIABLES
  queue,    \* front to back
  running,
  pc,       \* where queue_mainloop is
  frame,    \* the frame it has dequeued last
  control,  \* how far the frame context is with tearing the queue down
  pushed    \* frames pushed so far

vars == <<queue, running, pc, frame, control, pushed>>

Frames == 1 .. MaxFrames

TypeOK ==
  /\ queue \in Seq(Frames) /\ (MaxSize > 0 => Len(queue) <= MaxSize)
  /\ running \in BOOLEAN
  /\ pc \in {"start", "asleep", "woken", "consuming", "exited"}
  /\ frame \in Frames \union {0}
  /\ control \in {"up", "joining", "broken"}
  /\ pushed \in 0 .. MaxFrames

Init ==
  /\ queue = <<>> /\ running = TRUE
  /\ pc = "start" /\ frame = 0
  /\ control = "up" /\ pushed = 0

Signal == pc' = IF pc = "asleep" THEN "woken" ELSE pc

queue_is_full == Len(queue) >= MaxSize /\ MaxSize # 0

\* Mutant of queue_try_refpush: the frame that does not fit is the one dropped.
queue_try_refpush_new(f) == IF queue_is_full THEN queue ELSE Append(queue, f)

queue_try_refpush(f) ==
  Append(IF queue_is_full THEN Tail(queue) ELSE queue, f)

\* push_frame; the producer is stopped after the queue is broken apart.
queue_frame ==
  /\ pushed < MaxFrames
  /\ pushed' = pushed + 1
  /\ queue' = IF running THEN queue_try_refpush(pushed') ELSE queue
  /\ Signal
  /\ UNCHANGED <<running, frame, control>>

\* One pass of queue_mainloop, from the lock to the call of the consumer, to
\* pthread_cond_wait or to the end.
Loop ==
  /\ pc \in {"start", "woken"}
  /\ \/ ~running /\ pc' = "exited" /\ UNCHANGED <<queue, frame>>
     \/ running /\ queue = <<>> /\ pc' = "asleep" /\ UNCHANGED <<queue, frame>>
     \/ /\ running /\ queue # <<>>
        /\ frame' = Head(queue) /\ queue' = Tail(queue)
        /\ pc' = "consuming"
  /\ UNCHANGED <<running, control, pushed>>

Consumed ==
  /\ pc = "consuming" /\ pc' = "start"
  /\ UNCHANGED <<queue, running, frame, control, pushed>>

Spurious ==
  /\ pc = "asleep" /\ pc' = "woken"
  /\ UNCHANGED <<queue, running, frame, control, pushed>>

\* Mutant of queue_break_apart: the thread is not woken.
queue_break_apart_silently ==
  /\ control = "up" /\ control' = "joining"
  /\ running' = FALSE /\ queue' = <<>>
  /\ UNCHANGED <<pc, frame, pushed>>

\* Up to pthread_join.
queue_break_apart ==
  /\ control = "up" /\ control' = "joining"
  /\ running' = FALSE /\ queue' = <<>>
  /\ Signal
  /\ UNCHANGED <<frame, pushed>>

Joined ==
  /\ control = "joining" /\ pc = "exited"
  /\ control' = "broken"
  /\ UNCHANGED <<queue, running, pc, frame, pushed>>

Finished == control = "broken" /\ UNCHANGED vars

Next ==
  \/ queue_frame \/ Loop \/ Consumed \/ Spurious
  \/ queue_break_apart \/ Joined \/ Finished

(* The consumer returns, and the operating system runs a thread that can run. *)
Fairness == WF_vars(Loop \/ Consumed) /\ WF_vars(Joined)

FairSpec == Init /\ [][Next]_vars /\ Fairness

-----------------------------------------------------------------------------
Fifo == INSTANCE LossyFifo WITH
          offered <- pushed, held <- queue, out <- frame, stopped <- ~running

(* The queue is a lossy FIFO: see LossyFifo.  Its thread neither misses the   *)
(* signal of a frame nor one that came while it was with the consumer.        *)
ImplementsLossyFifo == Fifo!Spec

(* Breaking it apart returns: the thread it joins is asleep, about to sleep   *)
(* or with the consumer, and ends.                                            *)
BreakApartReturns == control = "joining" ~> control = "broken"

(* The thread sleeps only on an empty queue that runs: it misses neither a    *)
(* frame that came nor the teardown while it was with the consumer.           *)
SleepsWhenEmpty == pc = "asleep" => running /\ queue = <<>>
=============================================================================
