----------------------------- MODULE FrameSync -----------------------------
(***************************************************************************)
(* The frame throttle of an OpenXR session: src/monado/src/xrt/            *)
(* state_trackers/oxr/oxr_frame_sync.c.  A mutex and one condition         *)
(* variable hold xrWaitFrame back until the previous frame was begun, or   *)
(* until the session ends.  Every critical section is one action; a thread *)
(* in pthread_cond_wait is "asleep" until a signal moves it to "testing",  *)
(* where it competes for the mutex and evaluates the loop again.           *)
(***************************************************************************)
EXTENDS FiniteSets

CONSTANT Waiters       \* the threads that may be inside xrWaitFrame

VARIABLES running,             \* oxr_frame_sync::running
          canWaitFrameReturn,  \* oxr_frame_sync::canWaitFrameReturn
          waiter               \* where each thread is in wait_frame

fsVars == <<running, canWaitFrameReturn, waiter>>

Places == {"out", "testing", "asleep"}

FSTypeOK ==
  /\ running \in BOOLEAN
  /\ canWaitFrameReturn \in BOOLEAN
  /\ waiter \in [Waiters -> Places]

FSInit ==
  /\ running = FALSE
  /\ canWaitFrameReturn = FALSE
  /\ waiter = [t \in Waiters |-> "out"]

Asleep == {t \in Waiters : waiter[t] = "asleep"}

\* pthread_cond_signal: wakes one sleeper, any of them, when there is one.
Signal ==
  IF Asleep = {} THEN UNCHANGED waiter
  ELSE \E t \in Asleep : waiter' = [waiter EXCEPT ![t] = "testing"]

-----------------------------------------------------------------------------
(* oxr_frame_sync_wait_frame *)

WaitCall(t) ==
  /\ waiter[t] = "out"
  /\ waiter' = [waiter EXCEPT ![t] = "testing"]
  /\ UNCHANGED <<running, canWaitFrameReturn>>

\* Mutant of WaitPass: canWaitFrameReturn is not reset.
WaitPassKeepsToken(t) ==
  /\ waiter[t] = "testing"
  /\ running
  /\ canWaitFrameReturn
  /\ waiter' = [waiter EXCEPT ![t] = "out"]
  /\ UNCHANGED <<running, canWaitFrameReturn>>

\* Consumes the token and returns XR_SUCCESS.
WaitPass(t) ==
  /\ waiter[t] = "testing"
  /\ running
  /\ canWaitFrameReturn
  /\ canWaitFrameReturn' = FALSE
  /\ waiter' = [waiter EXCEPT ![t] = "out"]
  /\ UNCHANGED running

WaitSleep(t) ==
  /\ waiter[t] = "testing"
  /\ running
  /\ ~canWaitFrameReturn
  /\ waiter' = [waiter EXCEPT ![t] = "asleep"]
  /\ UNCHANGED <<running, canWaitFrameReturn>>

\* Leaves the loop because the session is not running.
WaitRefused(t) ==
  /\ waiter[t] = "testing"
  /\ ~running
  /\ waiter' = [waiter EXCEPT ![t] = "out"]
  /\ UNCHANGED <<running, canWaitFrameReturn>>

\* POSIX allows pthread_cond_wait to return without a signal.
SpuriousWakeup(t) ==
  /\ waiter[t] = "asleep"
  /\ waiter' = [waiter EXCEPT ![t] = "testing"]
  /\ UNCHANGED <<running, canWaitFrameReturn>>

-----------------------------------------------------------------------------
(* The calls of the other threads. *)

Release ==
  /\ running
  /\ ~canWaitFrameReturn
  /\ canWaitFrameReturn' = TRUE
  /\ Signal
  /\ UNCHANGED running

\* The other half of oxr_frame_sync_release: XR_ERROR_SESSION_NOT_RUNNING.
ReleaseRefused == ~(running /\ ~canWaitFrameReturn)

BeginSession ==
  /\ ~running
  /\ running' = TRUE
  /\ canWaitFrameReturn' = TRUE
  /\ Signal

\* Mutant of EndSession: the waiting thread is not signalled.
EndSessionSilently ==
  /\ running
  /\ running' = FALSE
  /\ UNCHANGED <<canWaitFrameReturn, waiter>>

EndSession ==
  /\ running
  /\ running' = FALSE
  /\ Signal
  /\ UNCHANGED canWaitFrameReturn

\* oxr_frame_sync_fini, up to the destruction of the mutex.
Fini ==
  /\ running' = FALSE
  /\ canWaitFrameReturn' = FALSE
  /\ IF running THEN Signal ELSE UNCHANGED waiter

-----------------------------------------------------------------------------
FSNext ==
  \/ \E t \in Waiters : WaitCall(t)
  \/ \E t \in Waiters : WaitPass(t)
  \/ \E t \in Waiters : WaitSleep(t)
  \/ \E t \in Waiters : WaitRefused(t)
  \/ \E t \in Waiters : SpuriousWakeup(t)
  \/ Release
  \/ BeginSession
  \/ EndSession
  \/ Fini

FSSpec == FSInit /\ [][FSNext]_fsVars

-----------------------------------------------------------------------------
(***************************************************************************)
(* No wakeup is lost: nobody sleeps while the session is over, nor while   *)
(* the token is there to be taken.  oxr_frame_sync.c signals one thread    *)
(* only, so this holds for one waiter; oxr_session.c calls it "extremely   *)
(* forbidden" to have two.                                                 *)
(***************************************************************************)
NoLostWakeup == Asleep # {} => running /\ ~canWaitFrameReturn

=============================================================================
