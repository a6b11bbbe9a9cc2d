---------------------------- MODULE MultiSystem ----------------------------
(***************************************************************************)
(* The render loop of the multi compositor and the session of the native   *)
(* compositor it keeps                                                     *)
(* (src/monado/src/xrt/compositor/multi/comp_multi_system.c).  Clients     *)
(* come and go, begin and end sessions; the render thread opens the native *)
(* session while at least one is active, draws clear frames before it      *)
(* closes it, and sleeps while it is closed.                               *)
(*                                                                         *)
(* A critical section under the lock of the thread helper is one step.     *)
(* What a client does to its own session_active flag is not under it, and  *)
(* is a step of its own.  MultiCompositor models the slots of one client;  *)
(* here `pending' says whether there is anything in them.                  *)
(***************************************************************************)
EXTENDS Integers, FiniteSets

CONSTANTS
  Clients,     \* the entries of msc->clients[] in use
  WarmStart    \* do_warm_start of comp_multi_create_system_compositor

ASSUME ConstantsAssumption ==
  /\ IsFiniteSet(Clients)
  /\ WarmStart \in BOOLEAN

VARIABLES
  sessionState,   \* msc->sessions.state
  active_count,   \* msc->sessions.active_count
  running,        \* msc->oth.running
  asleep,         \* the render thread is in pthread_cond_wait
  rpc,            \* where the render thread is
  dpc,            \* where system_compositor_destroy is
  native,         \* what the native compositor was last asked for
  cpc,            \* where each client's thread is
  session_active, \* the clients whose mc->state.session_active is set
  pending,        \* the clients with a frame scheduled or delivered
  todo,           \* clients transfer_layers_locked has yet to look at
  shown,          \* clients whose layers are in the frame being composed
  lastFrame,      \* history: what the loop found when it began the last frame
  lingering       \* history: clients with session_active set since then

sessionVars == <<sessionState, active_count, running, asleep>>
clientVars == <<cpc, session_active>>
frameVars == <<native, todo, shown, lastFrame, lingering>>
vars == <<sessionVars, rpc, dpc, frameVars, clientVars, pending>>

SessionStates == {"INIT_WARM_START", "STOPPED", "RUNNING", "STOPPING"}

ClientPlaces ==
  {"gone", "idle", "beginning", "active", "ending", "closing", "removing"}

TypeOK ==
  /\ sessionState \in SessionStates
  /\ active_count \in Nat
  /\ running \in BOOLEAN /\ asleep \in BOOLEAN
  /\ rpc \in {"head", "predict", "transfer", "commit", "exited"}
  /\ dpc \in {"up", "joining", "destroyed"}
  /\ native \in {"closed", "open", "frame", "misused"}
  /\ cpc \in [Clients -> ClientPlaces]
  /\ session_active \subseteq Clients
  /\ pending \subseteq Clients
  /\ todo \subseteq Clients
  /\ shown \subseteq Clients
  /\ lastFrame \in {"none", "warm_start", "sessions", "no_session"}
  /\ lingering \subseteq Clients

\* comp_multi_create_system_compositor; the render thread has been started.
Init ==
  /\ sessionState = IF WarmStart THEN "INIT_WARM_START" ELSE "STOPPED"
  /\ active_count = 0
  /\ running = TRUE /\ asleep = FALSE
  /\ rpc = "head" /\ dpc = "up"
  /\ native = "closed"
  /\ cpc = [c \in Clients |-> "gone"]
  /\ session_active = {} /\ pending = {}
  /\ todo = {} /\ shown = {}
  /\ lastFrame = "none" /\ lingering = {}

Listed == {c \in Clients : cpc[c] # "gone"}

\* Clients whose session is counted.
Counted == {c \in Clients : cpc[c] \in {"beginning", "active"}}

\* transfer_layers_locked runs with list_and_timing_lock held.
ListLockFree == rpc # "transfer"

Moves(c, from, to) == cpc[c] = from /\ cpc' = [cpc EXCEPT ![c] = to]

-----------------------------------------------------------------------------
(* The clients. *)

\* multi_compositor_create: enters the list of clients.
Create(c) ==
  /\ dpc = "up"
  /\ ListLockFree
  /\ Moves(c, "gone", "idle")
  /\ UNCHANGED <<sessionVars, rpc, dpc, frameVars, session_active, pending>>

\* Mutant of BeginSession: the sleeping render thread is not signalled.
BeginSessionNoSignal(c) ==
  /\ Moves(c, "idle", "beginning")
  /\ active_count' = active_count + 1
  /\ UNCHANGED <<sessionState, running, asleep, rpc, dpc, frameVars,
                 session_active, pending>>

\* multi_compositor_begin_session, up to update_session_status(true).
BeginSession(c) ==
  /\ Moves(c, "idle", "beginning")
  /\ active_count' = active_count + 1
  /\ asleep' = FALSE
  /\ UNCHANGED <<sessionState, running, rpc, dpc, frameVars, session_active,
                 pending>>

SetActive(c) ==
  /\ Moves(c, "beginning", "active")
  /\ session_active' = session_active \union {c}
  /\ lingering' = lingering \union {c}
  /\ UNCHANGED <<sessionVars, rpc, dpc, native, todo, shown, lastFrame, pending>>

\* Mutant of LeaveSession: a destroyed client's session stays counted.
LeaveSessionCounted(c, to) ==
  /\ Moves(c, "active", to)
  /\ active_count' = IF to = "closing" THEN active_count ELSE active_count - 1
  /\ UNCHANGED <<sessionState, running, asleep, rpc, dpc, frameVars,
                 session_active, pending>>

\* multi_compositor_end_session ("ending") or _destroy ("closing"), up to
\* update_session_status(false).
LeaveSession(c, to) ==
  /\ Moves(c, "active", to)
  /\ active_count' = active_count - 1
  /\ UNCHANGED <<sessionState, running, asleep, rpc, dpc, frameVars,
                 session_active, pending>>

ClearActive(c) ==
  /\ \/ Moves(c, "ending", "idle")
     \/ Moves(c, "closing", "removing")
  /\ session_active' = session_active \ {c}
  /\ UNCHANGED <<sessionVars, rpc, dpc, frameVars, pending>>

\* multi_compositor_destroy of a client without a session.
Destroy(c) ==
  /\ Moves(c, "idle", "removing")
  /\ UNCHANGED <<sessionVars, rpc, dpc, frameVars, session_active, pending>>

\* Mutant of Remove: the list of clients is changed without its lock.
RemoveUnlocked(c) ==
  /\ Moves(c, "removing", "gone")
  /\ pending' = pending \ {c}
  /\ UNCHANGED <<sessionVars, rpc, dpc, frameVars, session_active>>

\* It leaves the list, its slots are cleared, it is freed.
Remove(c) ==
  /\ ListLockFree
  /\ Moves(c, "removing", "gone")
  /\ pending' = pending \ {c}
  /\ UNCHANGED <<sessionVars, rpc, dpc, frameVars, session_active>>

\* A committed frame of the client is scheduled.
Schedule(c) ==
  /\ cpc[c] = "active"
  /\ pending' = pending \union {c}
  /\ UNCHANGED <<sessionVars, rpc, dpc, frameVars, clientVars>>

-----------------------------------------------------------------------------
(* The render thread. *)

\* Calls of the native compositor; NativeSession says when they are allowed.
NativeBegin == native' = IF native = "closed" THEN "open" ELSE "misused"
NativeEnd == native' = IF native = "open" THEN "closed" ELSE "misused"
NativePredict == native' = IF native = "open" THEN "frame" ELSE "misused"
NativeCommit == native' = IF native = "frame" THEN "open" ELSE "misused"

\* Mutant of NextState: RUNNING is not left.
NextStateRuns ==
  CASE sessionState = "INIT_WARM_START" -> "STOPPING"
    [] sessionState # "INIT_WARM_START" /\ active_count > 0 -> "RUNNING"
    [] sessionState = "RUNNING" /\ active_count = 0 -> "RUNNING"
    [] OTHER -> "STOPPED"

\* update_session_state_locked.
NextState ==
  CASE sessionState = "INIT_WARM_START" -> "STOPPING"
    [] sessionState # "INIT_WARM_START" /\ active_count > 0 -> "RUNNING"
    [] sessionState = "RUNNING" /\ active_count = 0 -> "STOPPING"
    [] OTHER -> "STOPPED"

\* Mutant of UpdateSessionState: the native session ends with the last client.
UpdateSessionStateEnds ==
  /\ sessionState' = IF NextState = "STOPPING" THEN "STOPPED" ELSE NextState
  /\ CASE sessionState = "INIT_WARM_START" -> NativeBegin
       [] sessionState = "STOPPED" /\ NextState = "RUNNING" -> NativeBegin
       [] sessionState = "RUNNING" /\ NextState = "STOPPING" -> NativeEnd
       [] OTHER -> UNCHANGED native

UpdateSessionState ==
  /\ sessionState' = NextState
  /\ CASE sessionState = "INIT_WARM_START" -> NativeBegin
       [] sessionState = "STOPPED" /\ NextState = "RUNNING" -> NativeBegin
       [] sessionState = "STOPPING" /\ NextState = "STOPPED" -> NativeEnd
       [] OTHER -> UNCHANGED native

AtHead == rpc = "head" /\ ~asleep

\* What the history keeps of a frame that is begun.
NoteFrame ==
  /\ lastFrame' = CASE sessionState = "INIT_WARM_START" -> "warm_start"
                    [] sessionState # "INIT_WARM_START" /\ active_count > 0 ->
                         "sessions"
                    [] OTHER -> "no_session"
  /\ lingering' = session_active

\* The head of multi_main_loop, under the lock until it waits or draws.
LoopHead ==
  /\ AtHead
  /\ running
  /\ UpdateSessionState
  /\ IF NextState = "STOPPED"
     THEN asleep' = TRUE /\ UNCHANGED <<rpc, lastFrame, lingering>>
     ELSE rpc' = "predict" /\ UNCHANGED asleep /\ NoteFrame
  /\ UNCHANGED <<active_count, running, dpc, todo, shown, clientVars, pending>>

\* A signal wakes the thread, or nothing does (pthread_cond_wait(3)).
SpuriousWakeup ==
  /\ asleep
  /\ asleep' = FALSE
  /\ UNCHANGED <<sessionState, active_count, running, rpc, dpc, frameVars,
                 clientVars, pending>>

\* A frame is predicted, waited for and begun, the list of clients locked.
PredictFrame ==
  /\ rpc = "predict"
  /\ NativePredict
  /\ todo' = Listed
  /\ shown' = {}
  /\ rpc' = "transfer"
  /\ UNCHANGED <<sessionVars, dpc, lastFrame, lingering, clientVars, pending>>

\* Mutant of TransferClient: session_active is not looked at.
TransferInactive(c) ==
  /\ rpc = "transfer"
  /\ c \in todo
  /\ todo' = todo \ {c}
  /\ \/ UNCHANGED <<shown, pending>>
     \/ c \in pending
          /\ shown' = shown \union {c} /\ UNCHANGED pending
     \/ c \in pending /\ pending' = pending \ {c} /\ UNCHANGED shown
  /\ UNCHANGED <<sessionVars, rpc, dpc, native, lastFrame, lingering,
                 clientVars>>

\* transfer_layers_locked: the frame of a client may not be due.  One that is
\* is retired if the client is hidden or not active, and shown otherwise.
TransferClient(c) ==
  /\ rpc = "transfer"
  /\ c \in todo
  /\ todo' = todo \ {c}
  /\ \/ UNCHANGED <<shown, pending>>
     \/ c \in pending /\ c \in session_active
          /\ shown' = shown \union {c} /\ UNCHANGED pending
     \/ c \in pending /\ pending' = pending \ {c} /\ UNCHANGED shown
  /\ UNCHANGED <<sessionVars, rpc, dpc, native, lastFrame, lingering,
                 clientVars>>

\* The list is unlocked, the frame committed.
TransferDone ==
  /\ rpc = "transfer"
  /\ todo = {}
  /\ rpc' = "commit"
  /\ UNCHANGED <<sessionVars, dpc, frameVars, clientVars, pending>>

CommitFrame ==
  /\ rpc = "commit"
  /\ NativeCommit
  /\ rpc' = "head"
  /\ UNCHANGED <<sessionVars, dpc, todo, shown, lastFrame, lingering,
                 clientVars, pending>>

\* Mutant of CleanUp: STOPPED is not told apart.
CleanUpAlways ==
  /\ AtHead
  /\ ~running
  /\ NativeEnd
  /\ rpc' = "exited"
  /\ UNCHANGED <<sessionVars, dpc, todo, shown, lastFrame, lingering,
                 clientVars, pending>>

\* The end of multi_main_loop.
CleanUp ==
  /\ AtHead
  /\ ~running
  /\ IF sessionState = "STOPPED" THEN UNCHANGED native ELSE NativeEnd
  /\ rpc' = "exited"
  /\ UNCHANGED <<sessionVars, dpc, todo, shown, lastFrame, lingering,
                 clientVars, pending>>

-----------------------------------------------------------------------------
(* system_compositor_destroy. *)

\* Mutant of Stop: the sleeping render thread is not signalled.
StopNoSignal ==
  /\ dpc = "up"
  /\ Listed = {}
  /\ running' = FALSE
  /\ dpc' = "joining"
  /\ UNCHANGED <<sessionState, active_count, asleep, rpc, frameVars,
                 clientVars, pending>>

\* os_thread_helper_stop_and_wait; "The state tracker must have made sure
\* that no frames or sessions are currently pending" (xrt_compositor.h).
Stop ==
  /\ dpc = "up"
  /\ Listed = {}
  /\ running' = FALSE
  /\ asleep' = FALSE
  /\ dpc' = "joining"
  /\ UNCHANGED <<sessionState, active_count, rpc, frameVars, clientVars,
                 pending>>

Join ==
  /\ dpc = "joining"
  /\ rpc = "exited"
  /\ dpc' = "destroyed"
  /\ UNCHANGED <<sessionVars, rpc, frameVars, clientVars, pending>>

Finished == dpc = "destroyed" /\ UNCHANGED vars

-----------------------------------------------------------------------------
\* A client's thread inside a call; Remove waits for a lock.
InCall(c) == SetActive(c) \/ ClearActive(c) \/ Remove(c)

ClientCall(c) ==
  \/ Create(c)
  \/ BeginSession(c)
  \/ \E to \in {"ending", "closing"} : LeaveSession(c, to)
  \/ Destroy(c)
  \/ Schedule(c)

RenderStep ==
  \/ LoopHead
  \/ PredictFrame
  \/ \E c \in Clients : TransferClient(c)
  \/ TransferDone
  \/ CommitFrame
  \/ CleanUp

Next ==
  \/ \E c \in Clients : ClientCall(c) \/ InCall(c)
  \/ RenderStep
  \/ SpuriousWakeup
  \/ Stop
  \/ Join
  \/ Finished

Spec == Init /\ [][Next]_vars

\* The render thread and a client inside a call are scheduled, and a client
\* gets the list lock in the end; joining returns once the thread is gone.
\* Nothing makes a client begin or end a session.
Fairness ==
  /\ WF_vars(RenderStep)
  /\ \A c \in Clients : SF_vars(InCall(c))
  /\ WF_vars(Join)

FairSpec == Spec /\ Fairness

-----------------------------------------------------------------------------
(***************************************************************************)
(* The native compositor is driven as xrt_compositor.h asks: its session   *)
(* is begun and ended in turn, every frame lies within one, and none is    *)
(* pending when it is ended.                                               *)
(***************************************************************************)
NS == INSTANCE NativeSession
NativeContract == NS!NativeSpec

(***************************************************************************)
(* The render thread does not sleep through a session that is begun or     *)
(* through its own end.                                                    *)
(***************************************************************************)
SleepsOnlyWhenIdle ==
  asleep => active_count = 0 /\ running /\ sessionState = "STOPPED"
              /\ native = "closed"

(***************************************************************************)
(* active_count counts the clients with a session, whichever way a session *)
(* ends: update_session_status asserts that it never goes below zero.      *)
(***************************************************************************)
CountIsSessions == active_count = Cardinality(Counted)

(***************************************************************************)
(* STOPPING draws a last frame for a display without clients.  When the    *)
(* loop ends the native session, the last frame it composed was begun when *)
(* no session was counted (or is the one of a warm start, "Produce at      *)
(* least one frame on init"), and the layers of a client whose session was *)
(* over by then are not in it, whoever came and went meanwhile.            *)
(***************************************************************************)
ClearFrameBeforeEnd ==
  [][native = "open" /\ native' = "closed" /\ running
       => /\ sessionState = "STOPPING"
          /\ lastFrame \in {"warm_start", "no_session"}
          /\ shown \subseteq lingering]_vars

(***************************************************************************)
(* "There are no active sessions and the multi-client system compositor is *)
(* instructing the native compositor to draw one or more clear frames"     *)
(* (comp_multi_private.h).  It fails: a client that is still leaving when  *)
(* the frame is composed, or that comes in time for it, is in the frame.   *)
(***************************************************************************)
StoppingIsClear == sessionState = "STOPPING" /\ rpc = "commit" => shown = {}

(***************************************************************************)
(* "Make sure that the clients doesn't go away while we transfer layers."  *)
(***************************************************************************)
NotFreedInTransfer == rpc = "transfer" => todo \union shown \subseteq Listed

(***************************************************************************)
(* The inductive invariant: what the native compositor was asked for,      *)
(* place by place of the render thread, and what is known of the last      *)
(* frame it began.                                                         *)
(***************************************************************************)
NativeFollowsState ==
  /\ rpc = "head" =>
       native = IF sessionState \in {"RUNNING", "STOPPING"} THEN "open"
                ELSE "closed"
  /\ rpc \in {"predict", "transfer", "commit"} =>
       sessionState \in {"RUNNING", "STOPPING"}
  /\ rpc = "predict" => native = "open"
  /\ rpc \in {"transfer", "commit"} => native = "frame"
  /\ ~WarmStart => sessionState # "INIT_WARM_START"
  /\ asleep => rpc = "head"

LastFrameKnown ==
  /\ sessionState = "STOPPING" => lastFrame \in {"warm_start", "no_session"}
  /\ session_active \subseteq lingering
  /\ rpc # "predict" => shown \subseteq lingering

SystemInv ==
  /\ TypeOK
  /\ CountIsSessions
  /\ SleepsOnlyWhenIdle
  /\ NativeFollowsState
  /\ LastFrameKnown
  /\ NotFreedInTransfer

(***************************************************************************)
(* A client with a session is composited, unless it ends the session.      *)
(***************************************************************************)
ActiveIsServed ==
  \A c \in Clients :
    cpc[c] = "active" ~> (sessionState = "RUNNING" \/ cpc[c] # "active")

(***************************************************************************)
(* Once the last client has left the native session is ended, unless       *)
(* another one comes.                                                      *)
(***************************************************************************)
IdleStops ==
  active_count = 0 ~> (native \notin {"open", "frame"} \/ active_count > 0)

(***************************************************************************)
(* system_compositor_destroy returns.                                      *)
(***************************************************************************)
DestroyReturns == dpc = "joining" ~> dpc = "destroyed"

(***************************************************************************)
(* The render thread does what its clients need of it: the three above.    *)
(***************************************************************************)
RenderThreadServes == ActiveIsServed /\ IdleStops /\ DestroyReturns

=============================================================================
