-------------------------------- MODULE Future --------------------------------
(***************************************************************************)
(* The CPU future behind xrt_future (auxiliary/util/u_future.cpp): one     *)
(* thread completes it, any may cancel it, and any wait for it, with a     *)
(* timeout or without.  A critical section of its mutex is one step; the   *)
(* state and the result are atomics, which a waiter reads after it has     *)
(* unlocked, and get_state reads without the lock.                         *)
(***************************************************************************)
CONSTANTS
  Waiters,    \* threads in u_future_wait and u_future_get_result
  Producers,  \* threads in u_future_complete
  Results,    \* what a producer completes the future with
  Failures    \* those among them that come without a value

ASSUME ConstantsAssumption ==
  /\ {"cancelled", "nothing"} \cap Results = {}
  /\ Failures \subseteq Results

VARIABLES
  state, result, value,  \* of struct u_future
  wpc, answer,           \* where each waiter is, and what its wait returned
  got,                   \* what get_result gave each waiter last
  completed              \* what u_future_complete returned to each producer

vars == <<state, result, value, wpc, answer, got, completed>>

Nothing == "nothing"
Outcomes == Results \union {"cancelled", Nothing}

TypeOK ==
  /\ state \in {"pending", "ready", "cancelled"}
  /\ {result, value} \subseteq Outcomes
  /\ wpc \in [Waiters -> {"idle", "asleep", "woken", "unlocked"}]
  /\ answer \in [Waiters -> Outcomes \union {"timeout"}]
  /\ got \in [Waiters -> Outcomes]
  /\ completed \in [Producers -> {Nothing, "success", "refused"}]

Init ==
  /\ state = "pending" /\ result = Nothing /\ value = Nothing
  /\ wpc = [t \in Waiters |-> "idle"]
  /\ answer = [t \in Waiters |-> Nothing]
  /\ got = [t \in Waiters |-> Nothing]
  /\ completed = [p \in Producers |-> Nothing]

Sleepers == {t \in Waiters : wpc[t] = "asleep"}

\* os_cond_broadcast
Broadcast == wpc' = [t \in Waiters |-> IF t \in Sleepers THEN "woken" ELSE wpc[t]]

\* Mutant of Decide: one waiter is told.
DecideSignalling(s, r) ==
  /\ state' = s /\ result' = r
  /\ IF Sleepers = {} THEN UNCHANGED wpc
     ELSE \E t \in Sleepers : wpc' = [wpc EXCEPT ![t] = "woken"]

\* u_future_set_state_and_xrt_result, and the broadcast.
Decide(s, r) == state' = s /\ result' = r /\ Broadcast

\* The value is stored for XRT_SUCCESS only.
StoreValue(r) == value' = IF r \in Failures THEN value ELSE r

-----------------------------------------------------------------------------
\* Mutant of Complete: the state is not looked at.
CompleteAnyway(p) ==
  /\ completed[p] = Nothing
  /\ \E r \in Results : StoreValue(r) /\ Decide("ready", r)
  /\ completed' = [completed EXCEPT ![p] = "success"]
  /\ UNCHANGED <<answer, got>>

\* u_future_complete
Complete(p) ==
  /\ completed[p] = Nothing
  /\ \/ /\ state = "pending"
        /\ \E r \in Results : StoreValue(r) /\ Decide("ready", r)
        /\ completed' = [completed EXCEPT ![p] = "success"]
     \/ /\ state # "pending"
        /\ completed' = [completed EXCEPT ![p] = "refused"]
        /\ UNCHANGED <<state, result, value, wpc>>
  /\ UNCHANGED <<answer, got>>

\* u_future_cancel; u_future_destroy begins with it.
Cancel ==
  /\ state = "pending"
  /\ Decide("cancelled", "cancelled")
  /\ UNCHANGED <<value, answer, got, completed>>

-----------------------------------------------------------------------------
WaitUnchanged == UNCHANGED <<state, result, value, got, completed>>

\* Mutant of Wait: it goes on waiting when the future was cancelled.
WaitUntilReady(t) ==
  /\ wpc[t] \in {"idle", "woken"}
  /\ wpc' = [wpc EXCEPT ![t] = IF state = "ready" THEN "unlocked" ELSE "asleep"]
  /\ UNCHANGED answer
  /\ WaitUnchanged

\* u_future_wait: one pass of its loop, entered with the lock.
Wait(t) ==
  /\ wpc[t] \in {"idle", "woken"}
  /\ wpc' = [wpc EXCEPT ![t] = IF state = "pending" THEN "asleep" ELSE "unlocked"]
  /\ UNCHANGED answer
  /\ WaitUnchanged

\* pthread_cond_timedwait: timed out, or for no reason.
TimedOut(t) ==
  /\ wpc[t] = "asleep"
  /\ IF state = "pending"
     THEN /\ wpc' = [wpc EXCEPT ![t] = "idle"]
          /\ answer' = [answer EXCEPT ![t] = "timeout"]
     ELSE wpc' = [wpc EXCEPT ![t] = "unlocked"] /\ UNCHANGED answer
  /\ WaitUnchanged

SpuriousWakeup(t) ==
  /\ wpc[t] = "asleep"
  /\ wpc' = [wpc EXCEPT ![t] = "woken"]
  /\ UNCHANGED answer
  /\ WaitUnchanged

\* The result is read when the lock has been released.
ReadResult(t) ==
  /\ wpc[t] = "unlocked"
  /\ wpc' = [wpc EXCEPT ![t] = "idle"]
  /\ answer' = [answer EXCEPT ![t] = result]
  /\ WaitUnchanged

\* u_future_get_result: refused while the future is pending; the value is read
\* when there is one.
GetResult(t) ==
  /\ wpc[t] = "idle" /\ state # "pending"
  /\ got' = [got EXCEPT ![t] = IF state = "ready" /\ result \notin Failures
                                THEN value ELSE result]
  /\ UNCHANGED <<state, result, value, wpc, answer, completed>>

InWait(t) == wpc[t] # "idle" /\ (Wait(t) \/ ReadResult(t))

Next ==
  \/ \E p \in Producers : Complete(p)
  \/ Cancel
  \/ \E t \in Waiters :
       Wait(t) \/ TimedOut(t) \/ SpuriousWakeup(t) \/ ReadResult(t) \/ GetResult(t)

Spec == Init /\ [][Next]_vars

(* A thread that has been woken runs.                                       *)
FairSpec == Spec /\ \A t \in Waiters : WF_vars(InWait(t))

-----------------------------------------------------------------------------
(* A future has one outcome.  Whoever waits or asks for it, before or after *)
(* a race of completion and cancellation, is told that one, or that it      *)
(* timed out; and exactly the producer that decided it is told so.          *)
OneOutcome ==
  /\ \A t \in Waiters : answer[t] \in {Nothing, "timeout", result}
  /\ \A t \in Waiters : got[t] \in {Nothing, result}
  /\ \A p, q \in Producers :
       completed[p] = "success" => /\ state = "ready"
                                   /\ completed[q] = "success" => p = q

(* Every thread that is in u_future_wait when the future is decided, asleep, *)
(* woken or about to read the result, returns.                               *)
WaitersReturn ==
  \A t \in Waiters : (wpc[t] # "idle" /\ state # "pending") ~> wpc[t] = "idle"

(* A thread sleeps in u_future_wait only while the future is pending: what    *)
(* decides it wakes them all.                                                 *)
SleepsWhilePending == \A t \in Waiters : wpc[t] = "asleep" => state = "pending"
=============================================================================
