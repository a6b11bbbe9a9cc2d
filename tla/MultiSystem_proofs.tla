------------------------ MODULE MultiSystem_proofs ------------------------
(***************************************************************************)
(* Theorems about MultiSystem, for every finite set of clients: the render *)
(* thread never sleeps through a session, the count of sessions is exact,  *)
(* no client is freed while its layers are transferred, the native session *)
(* ends on a frame that was begun without sessions, and without a warm     *)
(* start the native compositor is driven as NativeSession allows.          *)
(***************************************************************************)
EXTENDS MCMultiSystem, FiniteSetTheorems, TLAPS

-----------------------------------------------------------------------------
(* The count of sessions. *)

LEMMA CountedFinite == IsFiniteSet(Counted)
<1>1. Counted \in SUBSET Clients
  BY DEF Counted
<1> QED
  BY <1>1, FS_Subset, ConstantsAssumption

LEMMA CountedGrows ==
  ASSUME CountIsSessions, NEW c \in Clients, c \notin Counted,
         Counted' = Counted \union {c}, active_count' = active_count + 1
  PROVE  CountIsSessions'
<1>1. Cardinality(Counted \union {c}) = Cardinality(Counted) + 1
  BY CountedFinite, FS_AddElement
<1> QED
  BY <1>1 DEF CountIsSessions

LEMMA CountedShrinks ==
  ASSUME CountIsSessions, NEW c \in Clients, c \in Counted,
         Counted' = Counted \ {c}, active_count' = active_count - 1
  PROVE  CountIsSessions'
<1>1. Cardinality(Counted \ {c}) = Cardinality(Counted) - 1
  BY CountedFinite, FS_RemoveElement
<1> QED
  BY <1>1 DEF CountIsSessions

\* A client that moves between two places keeps the rest of Counted as it is.
LEMMA MoveCounted ==
  ASSUME TypeOK, NEW c \in Clients,
         NEW from \in ClientPlaces, NEW to \in ClientPlaces,
         Moves(c, from, to)
  PROVE  /\ cpc' \in [Clients -> ClientPlaces]
         /\ Counted' = IF to \in {"beginning", "active"} THEN Counted \union {c}
                       ELSE Counted \ {c}
         /\ Listed' = IF to = "gone" THEN Listed \ {c} ELSE Listed \union {c}
         /\ (c \in Counted) = (from \in {"beginning", "active"})
BY DEF TypeOK, Moves, Counted, Listed

-----------------------------------------------------------------------------
(* The clients' steps. *)

LEMMA ClientCallPreserves ==
  ASSUME SystemInv, NEW c \in Clients, ClientCall(c)
  PROVE  SystemInv'
<1> USE DEF SystemInv, SleepsOnlyWhenIdle, NativeFollowsState,
            LastFrameKnown, NotFreedInTransfer, sessionVars, frameVars, ListLockFree
<1>1. CASE Create(c)
  <2>1. Counted' = Counted /\ Listed \subseteq Listed'
    BY <1>1, MoveCounted DEF Create, ClientPlaces
  <2>2. CountIsSessions'
    BY <1>1, <2>1 DEF Create, CountIsSessions
  <2>3. TypeOK'
    BY <1>1, MoveCounted DEF Create, TypeOK, ClientPlaces
  <2> QED
    BY <1>1, <2>1, <2>2, <2>3 DEF Create
<1>2. CASE BeginSession(c)
  <2>1. /\ c \notin Counted
        /\ Counted' = Counted \union {c}
        /\ Listed \subseteq Listed'
        /\ cpc' \in [Clients -> ClientPlaces]
    BY <1>2, MoveCounted DEF BeginSession, ClientPlaces
  <2>2. CountIsSessions'
    BY <1>2, <2>1, CountedGrows DEF BeginSession
  <2>3. active_count' \in Nat
    BY <1>2 DEF BeginSession, TypeOK
  <2>4. TypeOK'
    BY <1>2, <2>1, <2>3 DEF BeginSession, TypeOK
  <2> QED
    BY <1>2, <2>1, <2>2, <2>4 DEF BeginSession
<1>3. ASSUME NEW to \in {"ending", "closing"}, LeaveSession(c, to)
      PROVE  SystemInv'
  <2>1. /\ c \in Counted
        /\ Counted' = Counted \ {c}
        /\ Listed \subseteq Listed'
        /\ cpc' \in [Clients -> ClientPlaces]
    BY <1>3, MoveCounted DEF LeaveSession, ClientPlaces
  <2>2. CountIsSessions'
    BY <1>3, <2>1, CountedShrinks DEF LeaveSession
  <2>3. active_count' \in Nat
    <3>1. IsFiniteSet(Counted')
      BY <2>1, CountedFinite, FS_RemoveElement
    <3> QED
      BY <2>2, <3>1, FS_CardinalityType DEF CountIsSessions
  <2>4. TypeOK'
    BY <1>3, <2>1, <2>3 DEF LeaveSession, TypeOK
  <2>5. active_count # 0
    <3>1. Counted # {}
      BY <2>1
    <3> QED
      BY <3>1, CountedFinite, FS_EmptySet DEF CountIsSessions
  <2> QED
    BY <1>3, <2>1, <2>2, <2>4, <2>5 DEF LeaveSession
<1>4. CASE Destroy(c)
  <2>1. Counted' = Counted /\ Listed \subseteq Listed'
    BY <1>4, MoveCounted DEF Destroy, ClientPlaces
  <2>2. CountIsSessions'
    BY <1>4, <2>1 DEF Destroy, CountIsSessions
  <2>3. TypeOK'
    BY <1>4, MoveCounted DEF Destroy, TypeOK, ClientPlaces
  <2> QED
    BY <1>4, <2>1, <2>2, <2>3 DEF Destroy
<1>5. CASE Schedule(c)
  <2>1. Counted' = Counted /\ Listed' = Listed
    BY <1>5 DEF Schedule, clientVars, Counted, Listed
  <2>2. TypeOK'
    BY <1>5 DEF Schedule, clientVars, TypeOK
  <2>3. CountIsSessions'
    BY <1>5, <2>1 DEF Schedule, CountIsSessions
  <2> QED
    BY <1>5, <2>1, <2>2, <2>3 DEF Schedule, clientVars
<1> QED
  BY <1>1, <1>2, <1>3, <1>4, <1>5 DEF ClientCall

LEMMA InCallPreserves ==
  ASSUME SystemInv, NEW c \in Clients, InCall(c)
  PROVE  SystemInv'
<1> USE DEF SystemInv, SleepsOnlyWhenIdle, NativeFollowsState,
            LastFrameKnown, NotFreedInTransfer, sessionVars, frameVars, ListLockFree
<1>1. CASE SetActive(c)
  <2>1. /\ Counted' = Counted
        /\ Listed \subseteq Listed'
        /\ cpc' \in [Clients -> ClientPlaces]
    BY <1>1, MoveCounted DEF SetActive, ClientPlaces
  <2>2. CountIsSessions'
    BY <1>1, <2>1 DEF SetActive, CountIsSessions
  <2>3. TypeOK'
    BY <1>1, <2>1 DEF SetActive, TypeOK
  <2>4. UNCHANGED <<sessionVars, rpc, dpc, native, todo, shown, lastFrame,
                    pending>>
    BY <1>1 DEF SetActive
  <2>5. LastFrameKnown'
    BY <1>1, <2>4 DEF SetActive
  <2> QED
    BY <2>1, <2>2, <2>3, <2>4, <2>5
<1>2. CASE ClearActive(c)
  <2>1. /\ Counted' = Counted
        /\ Listed \subseteq Listed'
        /\ cpc' \in [Clients -> ClientPlaces]
    <3>1. CASE Moves(c, "ending", "idle")
      BY <3>1, MoveCounted DEF ClientPlaces
    <3>2. CASE Moves(c, "closing", "removing")
      BY <3>2, MoveCounted DEF ClientPlaces
    <3>3. QED
      BY <1>2, <3>1, <3>2 DEF ClearActive
  <2>2. CountIsSessions'
    BY <1>2, <2>1 DEF ClearActive, CountIsSessions
  <2>3. TypeOK'
    BY <1>2, <2>1 DEF ClearActive, TypeOK
  <2>4. UNCHANGED <<sessionVars, rpc, dpc, frameVars, pending>>
    BY <1>2 DEF ClearActive
  <2>5. NotFreedInTransfer'
    BY <2>1, <2>4
  <2>6. SleepsOnlyWhenIdle' /\ NativeFollowsState'
    BY <2>4
  <2>7. LastFrameKnown'
    BY <1>2, <2>4 DEF ClearActive
  <2> QED
    BY <2>2, <2>3, <2>5, <2>6, <2>7
<1>3. CASE Remove(c)
  <2>1. Counted' = Counted /\ cpc' \in [Clients -> ClientPlaces]
    BY <1>3, MoveCounted DEF Remove, ClientPlaces
  <2>2. CountIsSessions'
    BY <1>3, <2>1 DEF Remove, CountIsSessions
  <2>3. TypeOK'
    BY <1>3, <2>1 DEF Remove, TypeOK
  <2> QED
    BY <1>3, <2>2, <2>3 DEF Remove
<1> QED
  BY <1>1, <1>2, <1>3 DEF InCall

-----------------------------------------------------------------------------
(* The render thread's steps. *)

\* A step that leaves the clients alone keeps the count and the list.
LEMMA ClientsUnchanged ==
  ASSUME CountIsSessions, UNCHANGED <<active_count, clientVars>>
  PROVE  CountIsSessions' /\ Listed' = Listed
BY DEF CountIsSessions, Counted, Listed, clientVars

LEMMA NextStateType ==
  ASSUME TypeOK
  PROVE  /\ NextState \in {"STOPPED", "RUNNING", "STOPPING"}
         /\ NextState = "STOPPED" =>
              active_count = 0 /\ sessionState \in {"STOPPED", "STOPPING"}
BY DEF TypeOK, NextState, SessionStates

LEMMA LoopHeadPreserves ==
  ASSUME SystemInv, LoopHead
  PROVE  SystemInv'
<1> USE DEF SystemInv
<1>1. CountIsSessions' /\ Listed' = Listed
  BY ClientsUnchanged DEF LoopHead
<1>2. rpc = "head" /\ ~asleep /\ running
  BY DEF LoopHead, AtHead
<1>3. native' = IF NextState = "STOPPED" THEN "closed" ELSE "open"
  BY <1>2 DEF LoopHead, UpdateSessionState, NativeBegin, NativeEnd,
     NativeFollowsState, NextState, TypeOK, SessionStates
<1>4. sessionState' = NextState
  BY DEF LoopHead, UpdateSessionState
<1>5. TypeOK'
  BY <1>2, <1>3, <1>4, NextStateType
     DEF LoopHead, NoteFrame, TypeOK, SessionStates, clientVars
<1>8. LastFrameKnown'
  <2>1. CASE NextState = "STOPPED"
    BY <1>4, <2>1 DEF LoopHead, LastFrameKnown, clientVars
  <2>2. CASE NextState # "STOPPED"
    <3>1. sessionState' = "STOPPING" =>
            sessionState = "INIT_WARM_START" \/ ~(active_count > 0)
      BY <1>4 DEF NextState
    <3>2. sessionState' = "STOPPING" => lastFrame' \in {"warm_start", "no_session"}
      BY <2>2, <3>1 DEF LoopHead, NoteFrame
    <3>3. session_active' = lingering' /\ rpc' = "predict"
      BY <2>2 DEF LoopHead, NoteFrame, clientVars
    <3> QED
      BY <3>2, <3>3 DEF LastFrameKnown
  <2> QED BY <2>1, <2>2
<1>6. CASE NextState = "STOPPED"
  BY <1>1, <1>2, <1>3, <1>4, <1>5, <1>6, <1>8, NextStateType
     DEF LoopHead, SleepsOnlyWhenIdle, NativeFollowsState, NotFreedInTransfer
<1>7. CASE NextState # "STOPPED"
  BY <1>1, <1>2, <1>3, <1>4, <1>5, <1>7, <1>8, NextStateType
     DEF LoopHead, SleepsOnlyWhenIdle, NativeFollowsState, NotFreedInTransfer
<1> QED
  BY <1>6, <1>7

LEMMA RenderPreserves ==
  ASSUME SystemInv, RenderStep
  PROVE  SystemInv'
<1> USE DEF SystemInv, SleepsOnlyWhenIdle, NativeFollowsState,
            NotFreedInTransfer, sessionVars
<1>1. CASE LoopHead
  BY <1>1, LoopHeadPreserves
<1>2. CASE PredictFrame
  <2>1. CountIsSessions' /\ Listed' = Listed
    BY <1>2, ClientsUnchanged DEF PredictFrame
  <2>2. native' = "frame"
    BY <1>2 DEF PredictFrame, NativePredict
  <2>3. TypeOK'
    BY <1>2, <2>2 DEF PredictFrame, TypeOK, Listed, clientVars
  <2>4. LastFrameKnown'
    BY <1>2 DEF PredictFrame, LastFrameKnown, clientVars
  <2> QED
    BY <1>2, <2>1, <2>2, <2>3, <2>4 DEF PredictFrame
<1>3. ASSUME NEW c \in Clients, TransferClient(c)
      PROVE  SystemInv'
  <2>1. CountIsSessions' /\ Listed' = Listed
    BY <1>3, ClientsUnchanged DEF TransferClient
  <2>2. TypeOK'
    BY <1>3 DEF TransferClient, TypeOK, clientVars
  <2>3. todo' \subseteq todo /\ shown' \subseteq shown \union todo
    BY <1>3 DEF TransferClient
  <2>4. LastFrameKnown'
    BY <1>3 DEF TransferClient, LastFrameKnown, clientVars
  <2> QED
    BY <1>3, <2>1, <2>2, <2>3, <2>4 DEF TransferClient
<1>4. CASE TransferDone
  <2>1. CountIsSessions' /\ Listed' = Listed
    BY <1>4, ClientsUnchanged DEF TransferDone
  <2>2. TypeOK'
    BY <1>4 DEF TransferDone, TypeOK, clientVars, frameVars
  <2>3. LastFrameKnown'
    BY <1>4 DEF TransferDone, LastFrameKnown, clientVars, frameVars
  <2> QED
    BY <1>4, <2>1, <2>2, <2>3 DEF TransferDone, frameVars
<1>5. CASE CommitFrame
  <2>1. CountIsSessions' /\ Listed' = Listed
    BY <1>5, ClientsUnchanged DEF CommitFrame
  <2>2. native' = "open"
    BY <1>5 DEF CommitFrame, NativeCommit
  <2>3. TypeOK'
    BY <1>5, <2>2 DEF CommitFrame, TypeOK, clientVars
  <2>4. LastFrameKnown'
    BY <1>5 DEF CommitFrame, LastFrameKnown, clientVars
  <2> QED
    BY <1>5, <2>1, <2>2, <2>3, <2>4 DEF CommitFrame
<1>6. CASE CleanUp
  <2>1. CountIsSessions' /\ Listed' = Listed
    BY <1>6, ClientsUnchanged DEF CleanUp
  <2>2. TypeOK'
    BY <1>6 DEF CleanUp, NativeEnd, TypeOK, clientVars
  <2>3. LastFrameKnown'
    BY <1>6 DEF CleanUp, AtHead, LastFrameKnown, clientVars
  <2> QED
    BY <1>6, <2>1, <2>2, <2>3 DEF CleanUp, AtHead
<1> QED
  BY <1>1, <1>2, <1>3, <1>4, <1>5, <1>6 DEF RenderStep

-----------------------------------------------------------------------------
(* The invariant. *)

LEMMA InitInvariant == Init => SystemInv
<1> SUFFICES ASSUME Init PROVE SystemInv
  OBVIOUS
<1>1. TypeOK
  BY ConstantsAssumption DEF Init, TypeOK, ClientPlaces, SessionStates
<1>2. Counted = {}
  BY DEF Init, Counted
<1>3. CountIsSessions
  BY <1>2, FS_EmptySet DEF CountIsSessions, Init
<1> QED
  BY <1>1, <1>3 DEF SystemInv, Init, SleepsOnlyWhenIdle, NativeFollowsState,
                    LastFrameKnown, NotFreedInTransfer

LEMMA StepInvariant == SystemInv /\ [Next]_vars => SystemInv'
<1> SUFFICES ASSUME SystemInv, [Next]_vars PROVE SystemInv'
  OBVIOUS
<1> USE DEF SystemInv, SleepsOnlyWhenIdle, NativeFollowsState,
            NotFreedInTransfer
<1>1. ASSUME NEW c \in Clients, ClientCall(c) PROVE SystemInv'
  BY <1>1, ClientCallPreserves
<1>2. ASSUME NEW c \in Clients, InCall(c) PROVE SystemInv'
  BY <1>2, InCallPreserves
<1>3. CASE RenderStep
  BY <1>3, RenderPreserves
<1>4. CASE SpuriousWakeup
  <2>1. CountIsSessions' /\ Listed' = Listed
    BY <1>4, ClientsUnchanged DEF SpuriousWakeup
  <2>2. TypeOK'
    BY <1>4 DEF SpuriousWakeup, TypeOK, clientVars, frameVars
  <2>3. LastFrameKnown'
    BY <1>4 DEF SpuriousWakeup, LastFrameKnown, clientVars, frameVars
  <2> QED
    BY <1>4, <2>1, <2>2, <2>3 DEF SpuriousWakeup, frameVars
<1>5. CASE Stop
  <2>1. CountIsSessions' /\ Listed' = Listed
    BY <1>5, ClientsUnchanged DEF Stop
  <2>2. TypeOK'
    BY <1>5 DEF Stop, TypeOK, clientVars, frameVars
  <2>3. LastFrameKnown'
    BY <1>5 DEF Stop, LastFrameKnown, clientVars, frameVars
  <2> QED
    BY <1>5, <2>1, <2>2, <2>3 DEF Stop, frameVars
<1>6. CASE Join
  <2>1. CountIsSessions' /\ Listed' = Listed
    BY <1>6, ClientsUnchanged DEF Join, sessionVars
  <2>2. TypeOK'
    BY <1>6 DEF Join, TypeOK, clientVars, frameVars, sessionVars
  <2>3. LastFrameKnown'
    BY <1>6 DEF Join, LastFrameKnown, clientVars, frameVars, sessionVars
  <2> QED
    BY <1>6, <2>1, <2>2, <2>3 DEF Join, frameVars, sessionVars
<1>7. CASE UNCHANGED vars
  <2>1. CountIsSessions' /\ Listed' = Listed
    BY <1>7, ClientsUnchanged DEF vars, sessionVars
  <2>2. TypeOK'
    BY <1>7 DEF vars, TypeOK, clientVars, frameVars, sessionVars
  <2>3. LastFrameKnown'
    BY <1>7 DEF vars, LastFrameKnown, clientVars, frameVars, sessionVars
  <2> QED
    BY <1>7, <2>1, <2>2, <2>3 DEF vars, frameVars, sessionVars
<1> QED
  BY <1>1, <1>2, <1>3, <1>4, <1>5, <1>6, <1>7 DEF Next, Finished

-----------------------------------------------------------------------------
(***************************************************************************)
(* The inductive invariant holds: what the native compositor was asked for *)
(* follows the session state at every place of multi_main_loop.            *)
(***************************************************************************)
THEOREM SystemInvariant == Spec => []SystemInv
<1>1. Init => SystemInv
  BY InitInvariant
<1>2. SystemInv /\ [Next]_vars => SystemInv'
  BY StepInvariant
<1> QED
  BY <1>1, <1>2, PTL DEF Spec

(***************************************************************************)
(* Every variable keeps its type; active_count, unsigned in the code, does *)
(* not go below zero.                                                      *)
(***************************************************************************)
THEOREM TypeCorrect == Spec => []TypeOK
<1>1. SystemInv => TypeOK
  BY DEF SystemInv
<1> QED
  BY <1>1, SystemInvariant, PTL

(***************************************************************************)
(* The render thread is asleep only while no session is counted, it has    *)
(* not been told to stop, and the native session is closed: no wakeup of   *)
(* update_session_status or of os_thread_helper_destroy is lost.           *)
(***************************************************************************)
THEOREM NeverSleepsThroughASession == Spec => []SleepsOnlyWhenIdle
<1>1. SystemInv => SleepsOnlyWhenIdle
  BY DEF SystemInv
<1> QED
  BY <1>1, SystemInvariant, PTL

(***************************************************************************)
(* active_count is the number of clients between begin_session and         *)
(* end_session or destroy.                                                 *)
(***************************************************************************)
THEOREM CountIsExact == Spec => []CountIsSessions
<1>1. SystemInv => CountIsSessions
  BY DEF SystemInv
<1> QED
  BY <1>1, SystemInvariant, PTL

(***************************************************************************)
(* No client leaves the list while transfer_layers_locked may touch it.    *)
(***************************************************************************)
THEOREM TransferIsSafe == Spec => []NotFreedInTransfer
<1>1. SystemInv => NotFreedInTransfer
  BY DEF SystemInv
<1> QED
  BY <1>1, SystemInvariant, PTL

(***************************************************************************)
(* When the loop ends the native session, the frame it composed last was   *)
(* begun when no session was counted, or is the one of a warm start, and   *)
(* shows no client whose session was over by then.                         *)
(***************************************************************************)
THEOREM ClearFrameFirst == Spec => ClearFrameBeforeEnd
<1> DEFINE Ends == native = "open" /\ native' = "closed" /\ running
           Clear == /\ sessionState = "STOPPING"
                    /\ lastFrame \in {"warm_start", "no_session"}
                    /\ shown \subseteq lingering
<1>1. SystemInv /\ [Next]_vars => [Ends => Clear]_vars
  <2> SUFFICES ASSUME SystemInv, Next, Ends
               PROVE  Clear
    OBVIOUS
  <2>1. LoopHead
    BY DEF Next, ClientCall, InCall, RenderStep, Create, BeginSession,
       LeaveSession, Destroy, Schedule, SetActive, ClearActive, Remove,
       PredictFrame, NativePredict, TransferClient, TransferDone, CommitFrame,
       NativeCommit, CleanUp, SpuriousWakeup, Stop, Join, Finished, vars,
       frameVars
  <2>2. sessionState = "STOPPING"
    BY <2>1 DEF LoopHead, UpdateSessionState, NativeBegin, NativeEnd
  <2> QED
    BY <2>1, <2>2 DEF SystemInv, LastFrameKnown, LoopHead, AtHead
<1> QED
  BY <1>1, SystemInvariant, PTL DEF Spec, ClearFrameBeforeEnd

\* A step changes the native session only as NativeSession allows.
LEMMA NativeStep ==
  ASSUME WarmStart = FALSE, SystemInv, [Next]_vars
  PROVE  [NS!NativeNext]_native
<1> SUFFICES ASSUME Next, native' # native
             PROVE  NS!NativeNext
  BY DEF vars, frameVars
<1> USE DEF NS!NativeNext, NS!Begin, NS!Predict, NS!Commit, NS!End
<1>1. RenderStep
  BY DEF Next, ClientCall, InCall, Create, BeginSession, LeaveSession,
     Destroy, Schedule, SetActive, ClearActive, Remove, SpuriousWakeup, Stop,
     Join, Finished, vars, frameVars
<1>2. CASE LoopHead
  BY <1>2, WarmStart = FALSE
     DEF SystemInv, TypeOK, SessionStates, NativeFollowsState, LoopHead,
     AtHead, UpdateSessionState, NativeBegin, NativeEnd, NextState
<1>3. CASE PredictFrame
  BY <1>3 DEF SystemInv, NativeFollowsState, PredictFrame, NativePredict
<1>4. CASE CommitFrame
  BY <1>4 DEF SystemInv, NativeFollowsState, CommitFrame, NativeCommit
<1>5. CASE CleanUp
  BY <1>5, WarmStart = FALSE
     DEF SystemInv, TypeOK, SessionStates, NativeFollowsState, CleanUp,
     AtHead, NativeEnd
<1> QED
  BY <1>1, <1>2, <1>3, <1>4, <1>5
     DEF RenderStep, TransferClient, TransferDone, frameVars

(***************************************************************************)
(* Without a warm start the render loop implements NativeSession: the      *)
(* native compositor is asked to begin, draw and end in an order it        *)
(* allows, also when the system compositor is destroyed at any point.      *)
(***************************************************************************)
THEOREM DrivesNativeSession ==
  ASSUME WarmStart = FALSE
  PROVE  Spec => NativeContract
<1>1. Init => NS!NativeInit
  BY DEF Init, NS!NativeInit
<1>2. SystemInv /\ [Next]_vars => [NS!NativeNext]_native
  BY NativeStep
<1> QED
  BY <1>1, <1>2, SystemInvariant, PTL DEF Spec, NativeContract, NS!NativeSpec

(***************************************************************************)
(* The same of the system the run checks, which may also start warm: the   *)
(* contract is kept whenever it did not.                                   *)
(***************************************************************************)
THEOREM DrivesFromColdStart ==
  ASSUME WarmStart = FALSE
  PROVE  MCFairSpec => ColdNativeContract
<1> DEFINE ColdInv == warm \in BOOLEAN /\ (~warm => SystemInv)
<1>1. MCInit => ColdInv /\ Cold!NativeInit
  BY InitInvariant DEF MCInit, Init, Cold!NativeInit
<1>2. ColdInv /\ [MCNext]_<<vars, warm>> => ColdInv'
  <2> SUFFICES ASSUME ColdInv, [MCNext]_<<vars, warm>>
               PROVE  warm' = warm /\ (~warm => SystemInv')
    OBVIOUS
  <2> QED BY StepInvariant DEF MCNext
<1>3. ColdInv /\ [MCNext]_<<vars, warm>>
        => [Cold!NativeNext]_(IF warm THEN "closed" ELSE native)
  <2> SUFFICES ASSUME ColdInv, [MCNext]_<<vars, warm>>, ~warm
               PROVE  [Cold!NativeNext]_(IF warm THEN "closed" ELSE native)
    BY DEF MCNext
  <2>1. warm' = warm /\ [NS!NativeNext]_native
    BY NativeStep DEF MCNext
  <2> QED
    BY <2>1 DEF NS!NativeNext, NS!Begin, NS!Predict, NS!Commit, NS!End,
       Cold!NativeNext, Cold!Begin, Cold!Predict, Cold!Commit, Cold!End
<1> QED
  BY <1>1, <1>2, <1>3, PTL DEF MCFairSpec, ColdNativeContract, Cold!NativeSpec
=============================================================================
