--------------------------- MODULE IpcServer_proofs ---------------------------
(***************************************************************************)
(* The slots, the count of connections, the primary application and what   *)
(* the clients are told, for any number of slots and of connections.       *)
(*                                                                         *)
(* A slot is held from the moment a connection gets it until its thread    *)
(* enters common_shutdown; the state of the slot, the place of its thread  *)
(* and its compositor go together (SlotInv, CompositorInv).  The primary   *)
(* application is a held slot with an active session or one of a thread    *)
(* that is clearing up, whose own update will move it on (PrimaryInv).     *)
(***************************************************************************)
EXTENDS IpcServer, FiniteSetTheorems, WellFoundedInduction, TLAPS

\* Where a thread that still has its slot is, and one that gave it up.
Serving == {"loop", "creating", "activating", "destroying", "freeing"}
Ending == {"closing", "closing_freeing", "released", "idle_exit",
           "deactivating", "done"}

Held == {i \in Slots : server_thread_index[i] >= 0}

SlotInv ==
  /\ \A i \in Slots :
       /\ server_thread_index[i] \in {i, None}
       /\ server_thread_index[i] = i <=>
            pc[i] \in Serving \/ (pc[i] = "none" /\ state[i] = "STARTING")
       /\ state[i] = "STOPPING" <=> pc[i] \in Ending
       /\ server_thread_index[i] = None =>
            client_state[i].id = 0 /\ ~client_state[i].session_active
  /\ joining # None =>
       server_thread_index[joining] = None /\ state[joining] = "STOPPING"

CompositorInv ==
  \A i \in Slots :
    /\ pc[i] \in {"none", "idle_exit", "deactivating", "done"} => xc[i] = "null"
    /\ pc[i] \in {"creating", "activating", "destroying"} => xc[i] = "live"

CountInv ==
  /\ CountIsConnections
  /\ connected_client_count <= arrivals
  /\ refused <= arrivals

PrimaryInv ==
  /\ active_client_index = last_active_client_index
  /\ \A i \in Held : xc[i] = "live" \/ client_state[i].session_active
                       => client_state[i].session_overlay = kind[i]
  /\ PrimaryIsActive

\* A session is created at most once before the client is active, and is then
\* not active yet.
FirstSession ==
  \A i \in Held :
    /\ sessions[i] = 0 => ~client_state[i].session_active /\ xc[i] # "live"
    /\ pc[i] = "creating" => ~client_state[i].session_active

ToldInv ==
  /\ FirstSession
  /\ \A i \in Held : xc[i] = "live" /\ client_state[i].session_overlay
                        /\ told[i].main_app => active_client_index # None
  /\ ToldIsState

Client == [id : 0 .. MaxConnections, session_overlay : BOOLEAN,
           session_active : BOOLEAN, session_visible : BOOLEAN]
Told == [visible : BOOLEAN, main_app : BOOLEAN]
Index == Slots \union {None}

-----------------------------------------------------------------------------
(* Helpers. *)

(* A client that is activated or deactivated remains a client. *)
LEMMA StillClients ==
  ASSUME client_state \in [Slots -> Client], NEW i \in Slots,
         NEW b \in BOOLEAN
  PROVE  [client_state EXCEPT ![i].session_active = b] \in [Slots -> Client]
<1>1. client_state[i] \in Client
  OBVIOUS
<1>2. [client_state[i] EXCEPT !.session_active = b] \in Client
  BY <1>1 DEF Client
<1>3. QED
  BY <1>2

(* A nonempty set of slots has a lowest and a highest member. *)
LEMMA LowestAndHighest ==
  ASSUME NEW S \in SUBSET Slots, S # {}
  PROVE  Lowest(S) \in S /\ Highest(S) \in S
<1>1. Slots \subseteq Nat
  BY ConstantsAssumption DEF Slots
<1>2. \E i \in S : \A j \in S : i <= j
  <2>1. PICK i \in S : \A j \in S : <<j, i>> \notin OpToRel(<, Nat)
    BY <1>1, NatLessThanWellFounded, WFMin, Zenon
  <2>2. \A j \in S : ~(j < i)
    BY <1>1, <2>1, Zenon DEF OpToRel
  <2>3. QED
    BY <1>1, <2>2
<1>3. \E i \in S : \A j \in S : j <= i
  <2> DEFINE Mirror == {n \in Nat : \E j \in S : n = IPC_MAX_CLIENTS - j}
  <2>1. \A j \in S : IPC_MAX_CLIENTS - j \in Mirror
    BY ConstantsAssumption DEF Slots
  <2>2. Mirror \subseteq Nat /\ Mirror # {}
    BY <2>1
  <2> HIDE DEF Mirror
  <2>3. PICK n \in Mirror : \A m \in Mirror : <<m, n>> \notin OpToRel(<, Nat)
    BY <2>2, NatLessThanWellFounded, WFMin, Zenon
  <2>4. \A m \in Mirror : ~(m < n)
    BY <2>2, <2>3, Zenon DEF OpToRel
  <2>5. PICK i \in S : n = IPC_MAX_CLIENTS - i
    BY <2>3 DEF Mirror
  <2>6. \A j \in S : j <= i
    BY <1>1, <2>1, <2>2, <2>4, <2>5, ConstantsAssumption
  <2>7. QED
    BY <2>6
<1>4. QED
  BY <1>2, <1>3 DEF Lowest, Highest

(* What is told to each compositor keeps the fields the choice is made from. *)
LEMMA TellKeeps ==
  ASSUME TypeOK, NEW S \in SUBSET Slots, NEW clients \in [Slots -> Client],
         NEW active \in Index, NEW last \in Index,
         Tell(S, clients, active, last)
  PROVE  /\ client_state' \in [Slots -> Client]
         /\ \A i \in Slots :
              /\ client_state'[i].id = clients[i].id
              /\ client_state'[i].session_overlay = clients[i].session_overlay
              /\ client_state'[i].session_active = clients[i].session_active
         /\ told' \in [Slots -> Told]
         /\ usedFreed' \in BOOLEAN
<1>1. \A i \in Slots :
        /\ Shown(clients[i], i, active) \in BOOLEAN
        /\ MainAppVisible(clients[i], told[i].main_app, active, last) \in BOOLEAN
  <2>1. \A i \in Slots : Shown(clients[i], i, active) \in BOOLEAN
    BY Zenon DEF Shown
  <2>2. \A i \in Slots : told[i].main_app \in BOOLEAN
    BY DEF TypeOK
  <2>3. ASSUME NEW i \in Slots
        PROVE  MainAppVisible(clients[i], told[i].main_app, active, last) \in BOOLEAN
    <3>1. CASE clients[i].session_overlay /\ (active >= 0 \/ last >= 0)
      <4>1. MainAppVisible(clients[i], told[i].main_app, active, last) = (active >= 0)
        BY <3>1, Zenon DEF MainAppVisible
      <4>2. QED
        BY <4>1
    <3>2. CASE ~(clients[i].session_overlay /\ (active >= 0 \/ last >= 0))
      <4>1. MainAppVisible(clients[i], told[i].main_app, active, last)
              = told[i].main_app
        BY <3>2, Zenon DEF MainAppVisible
      <4>2. QED
        BY <2>2, <4>1
    <3>3. QED
      BY <3>1, <3>2
  <2>4. QED
    BY <2>1, <2>2, <2>3
<1>2. \A i \in Slots :
        /\ [clients[i] EXCEPT !.session_visible = Shown(clients[i], i, active)]
             \in Client
        /\ [visible |-> Shown(clients[i], i, active),
            main_app |-> MainAppVisible(clients[i], told[i].main_app, active, last)]
             \in Told
  BY <1>1 DEF Client, Told
<1>3. client_state' \in [Slots -> Client]
      /\ \A i \in Slots :
              /\ client_state'[i].id = clients[i].id
              /\ client_state'[i].session_overlay = clients[i].session_overlay
              /\ client_state'[i].session_active = clients[i].session_active
  BY <1>2 DEF Tell, Client
<1>4. told' \in [Slots -> Told]
  BY <1>2 DEF Tell, TypeOK, Told
<1>5. usedFreed' \in BOOLEAN
  BY DEF Tell, TypeOK
<1>6. QED
  BY <1>3, <1>4, <1>5

(* update_server_state_locked: types, and the fields it only copies. *)
LEMMA UpdateKeeps ==
  ASSUME TypeOK, NEW clients \in [Slots -> Client], NEW active \in Index,
         UpdateServerState(clients, active)
  PROVE  /\ client_state' \in [Slots -> Client]
         /\ \A i \in Slots :
              /\ client_state'[i].id = clients[i].id
              /\ client_state'[i].session_overlay = clients[i].session_overlay
              /\ client_state'[i].session_active = clients[i].session_active
         /\ told' \in [Slots -> Told]
         /\ usedFreed' \in BOOLEAN
         /\ active_client_index' \in Index
         /\ last_active_client_index' = active_client_index'
<1>1. NextPrimary(clients, active) \in Index
  <2>1. Mains(clients) \subseteq Slots
    BY DEF Mains
  <2>2. Mains(clients) # {} => Highest(Mains(clients)) \in Slots
    BY <2>1, LowestAndHighest
  <2>3. QED
    BY <2>2 DEF NextPrimary, Index
<1>2. CASE active >= 0 /\ clients[active].session_active
             /\ active = last_active_client_index
  BY <1>2 DEF UpdateServerState, TypeOK, Told
<1>3. CASE ~(active >= 0 /\ clients[active].session_active
               /\ active = last_active_client_index)
  <2>1. /\ active_client_index' = NextPrimary(clients, active)
        /\ last_active_client_index' = active_client_index'
        /\ Tell(Held, clients, active_client_index', last_active_client_index)
    BY <1>3 DEF UpdateServerState, Held
  <2>2. last_active_client_index \in Index /\ Held \in SUBSET Slots
    BY DEF TypeOK, Index, Held
  <2>3. QED
    BY <1>1, <2>1, <2>2, TellKeeps
<1>4. QED
  BY <1>2, <1>3

(* Its choice is an active session that is no overlay, if there is one. *)
LEMMA UpdateChooses ==
  ASSUME TypeOK, NEW clients \in [Slots -> Client], NEW active \in Index,
         UpdateServerState(clients, active),
         \A i \in Slots : clients[i].session_active => server_thread_index[i] >= 0,
         active = None => Mains(clients) = {},
         active # None /\ clients[active].session_active
           /\ active = last_active_client_index => active \in Mains(clients)
  PROVE  /\ active_client_index' = None => Mains(clients) = {}
         /\ active_client_index' \in Mains(clients) \union {None}
<1> USE ConstantsAssumption DEF Index, Slots, None
<1>1. CASE active >= 0 /\ clients[active].session_active
             /\ active = last_active_client_index
  BY <1>1 DEF UpdateServerState
<1>2. CASE ~(active >= 0 /\ clients[active].session_active
               /\ active = last_active_client_index)
  <2>1. active_client_index' = NextPrimary(clients, active)
    BY <1>2 DEF UpdateServerState
  <2>2. Mains(clients) \subseteq Slots
    BY DEF Mains
  <2>3. CASE Mains(clients) = {}
    BY <2>1, <2>3 DEF NextPrimary
  <2>4. CASE Mains(clients) # {}
    <3>1. active \in Slots
      BY <2>4
    <3>2. CASE clients[active].session_active /\ ~clients[active].session_overlay
      <4>1. active \in Mains(clients)
        BY <3>1, <3>2 DEF Mains
      <4>2. QED
        BY <2>1, <2>4, <3>2, <4>1 DEF NextPrimary
    <3>3. CASE ~(clients[active].session_active /\ ~clients[active].session_overlay)
      <4>1. Highest(Mains(clients)) \in Mains(clients)
        BY <2>2, <2>4, LowestAndHighest
      <4>2. NextPrimary(clients, active) = Highest(Mains(clients))
        BY <2>4, <3>1, <3>3 DEF NextPrimary
      <4>3. QED
        BY <2>1, <2>2, <4>1, <4>2
    <3>4. QED
      BY <3>2, <3>3
  <2>5. QED
    BY <2>3, <2>4
<1>3. QED
  BY <1>1, <1>2

(* There are finitely many slots, and a slot that is held is counted. *)
LEMMA HeldIsFinite == IsFiniteSet(Held) /\ Cardinality(Held) \in Nat
<1>1. IsFiniteSet(Slots)
  BY ConstantsAssumption, FS_Interval DEF Slots
<1>2. Held \in SUBSET Slots
  BY DEF Held
<1>3. QED
  BY <1>1, <1>2, FS_Subset, FS_CardinalityType

LEMMA CountOfHeld ==
  CountIsConnections <=>
    connected_client_count =
      Cardinality(Held) + refused + (IF joining = None THEN 0 ELSE 1)
BY DEF CountIsConnections, Held

LEMMA HeldIsCounted == \A i \in Held : Cardinality(Held) > 0
BY HeldIsFinite, FS_EmptySet

-----------------------------------------------------------------------------
(* Types. *)

LEMMA InitHolds ==
  Init => TypeOK /\ SlotInv /\ CompositorInv /\ PrimaryInv /\ ToldInv
<1> SUFFICES ASSUME Init
             PROVE  TypeOK /\ SlotInv /\ CompositorInv /\ PrimaryInv /\ ToldInv
  OBVIOUS
<1> USE ConstantsAssumption DEF Init, None
<1>1. TypeOK
  <2>1. NoClient \in Client /\ "none" \in Stages
    BY DEF NoClient, Client, Stages
  <2>2. client_state \in [Slots -> Client]
    BY <2>1
  <2> HIDE DEF None
  <2>3. /\ arrivals \in 0 .. MaxConnections /\ refused \in 0 .. MaxConnections
        /\ connected_client_count \in 0 .. MaxConnections
        /\ sessions \in [Slots -> 0 .. 2] /\ timers \in Nat /\ deciding \in Nat
    OBVIOUS
  <2>4. /\ state \in [Slots -> {"READY", "STARTING", "STOPPING"}]
        /\ server_thread_index \in [Slots -> Slots \union {None}]
        /\ told \in [Slots -> [visible : BOOLEAN, main_app : BOOLEAN]]
        /\ xc \in [Slots -> {"null", "live", "freed"}] /\ pc \in [Slots -> Stages]
        /\ read \in [Slots -> BOOLEAN] /\ kind \in [Slots -> BOOLEAN]
    BY <2>1
  <2>5. QED
    BY <2>2, <2>3, <2>4 DEF TypeOK, Client
<1>2. SlotInv /\ CompositorInv
  <2>1. \A i \in Slots : i # None
    BY DEF Slots
  <2>2. \A i \in Slots : /\ pc[i] = "none" /\ state[i] = "READY" /\ xc[i] = "null"
                         /\ server_thread_index[i] = None
                         /\ client_state[i].id = 0 /\ ~client_state[i].session_active
    BY DEF NoClient
  <2> HIDE DEF Init, None
  <2>3. joining = None
    BY DEF Init
  <2>4. QED
    BY <2>1, <2>2, <2>3 DEF SlotInv, CompositorInv, Serving, Ending
<1>3. Held = {}
  BY DEF Held
<1>4. PrimaryInv
  BY <1>3 DEF PrimaryInv, PrimaryIsActive, Mains
<1>5. ToldInv
  BY <1>3 DEF ToldInv, FirstSession, ToldIsState
<1>6. QED
  BY <1>1, <1>2, <1>4, <1>5

LEMMA StartClientTypes ==
  ASSUME TypeOK, NEW i \in Slots, StartClient(i), arrivals' \in 0 .. MaxConnections
  PROVE  /\ server_thread_index' \in [Slots -> Index]
         /\ client_state' \in [Slots -> Client]
         /\ sessions' \in [Slots -> 0 .. 2]
         /\ kind' \in [Slots -> BOOLEAN]
         /\ state' \in [Slots -> {"READY", "STARTING", "STOPPING"}]
         /\ pc' \in [Slots -> Stages]
<1>1. [NoClient EXCEPT !.id = arrivals'] \in Client
  BY DEF NoClient, Client
<1>2. client_state' \in [Slots -> Client]
  BY <1>1 DEF StartClient, TypeOK, Client
<1>3. pc' \in [Slots -> Stages]
  BY DEF StartClient, TypeOK, Stages
<1>4. QED
  BY <1>2, <1>3 DEF StartClient, TypeOK, Index

LEMMA TypeStep ==
  ASSUME TypeOK, SlotInv, CountInv, Next
  PROVE  TypeOK'
<1> USE ConstantsAssumption
    DEF globalVars, slotVars, shownVars, threadVars, mainVars, timerVars
<1>1. ASSUME Arrive
      PROVE  /\ arrivals' \in 0 .. MaxConnections
             /\ connected_client_count' \in 0 .. MaxConnections
  BY <1>1 DEF Arrive, TypeOK, CountInv
<1>2. FreeSlots # {} => Lowest(FreeSlots) \in Slots
  BY LowestAndHighest DEF FreeSlots
<1>3. CASE Refuse
  <2>1. refused' \in 0 .. MaxConnections
    BY <1>3 DEF Refuse, Arrive, TypeOK, CountInv
  <2>2. UNCHANGED <<client_state, pc, sessions, state, server_thread_index, kind,
                    joining>>
    BY <1>3 DEF Refuse
  <2>3. UNCHANGED <<running, active_client_index, last_active_client_index, timers,
                    deciding, xc, told, read, usedFreed>>
        /\ last_client_disconnect_ns' = FALSE
    BY <1>3 DEF Refuse, Arrive
  <2>4. QED
    BY <1>1, <1>3, <2>1, <2>2, <2>3 DEF Refuse, TypeOK
<1>4. CASE Connect
  <2> DEFINE i == Lowest(FreeSlots)
  <2>1. i \in Slots
    BY <1>2, <1>4 DEF Connect
  <2> HIDE DEF i
  <2>2. CASE StartClient(i) /\ UNCHANGED joining
    BY <1>1, <1>4, <2>1, <2>2, StartClientTypes
       DEF Connect, Arrive, TypeOK, Client, Index
  <2>3. CASE joining' = i /\ UNCHANGED <<slotVars, client_state, pc, sessions>>
    BY <1>1, <1>4, <2>1, <2>3 DEF Connect, Arrive, TypeOK
  <2>4. QED
    BY <1>4, <2>2, <2>3 DEF Connect, i
<1>5. CASE Joined
  <2>1. joining \in Slots /\ StartClient(joining) /\ arrivals' \in 0 .. MaxConnections
    BY <1>5 DEF Joined, TypeOK
  <2>2. QED
    BY <1>5, <2>1, StartClientTypes DEF Joined, TypeOK, Client, Index
<1>6. CASE StopServer
  BY <1>6 DEF StopServer, TypeOK
<1>7. ASSUME NEW i \in Slots, SessionCreate(i)
      PROVE  TypeOK'
  <2>1. sessions' \in [Slots -> 0 .. 2]
    BY <1>7 DEF SessionCreate, TypeOK
  <2>2. client_state' \in [Slots -> Client] /\ read' \in [Slots -> BOOLEAN]
    <3>1. client_state \in [Slots -> Client] /\ read \in [Slots -> BOOLEAN]
      BY DEF TypeOK, Client
    <3>2. PICK o \in BOOLEAN :
            client_state' = [client_state EXCEPT ![i].session_overlay = o]
      BY <1>7 DEF SessionCreate, TypeOK
    <3>3. QED
      BY <1>7, <3>1, <3>2 DEF SessionCreate, Client
  <2>3. pc' \in [Slots -> Stages] /\ xc' \in [Slots -> {"null", "live", "freed"}]
        /\ told' \in [Slots -> [visible : BOOLEAN, main_app : BOOLEAN]]
    BY <1>7 DEF SessionCreate, Goto, TypeOK, Stages
  <2>4. QED
    BY <1>7, <2>1, <2>2, <2>3 DEF SessionCreate, TypeOK, Client
<1>8. ASSUME NEW i \in Slots, SessionCreated(i)
      PROVE  TypeOK'
  BY <1>8 DEF SessionCreated, Goto, TypeOK, Stages
<1>9. ASSUME NEW i \in Slots, PredictFrame(i)
      PROVE  TypeOK'
  BY <1>9 DEF PredictFrame, Goto, TypeOK, Stages
<1>10. ASSUME NEW i \in Slots, ActivateSession(i)
       PROVE  TypeOK'
  <2> DEFINE clients == [client_state EXCEPT ![i].session_active = TRUE]
  <2>1. clients \in [Slots -> Client]
    BY StillClients DEF TypeOK, Client
  <2> HIDE DEF clients
  <2>2. /\ client_state' \in [Slots -> Client] /\ told' \in [Slots -> Told]
        /\ usedFreed' \in BOOLEAN /\ active_client_index' \in Index
        /\ last_active_client_index' \in Index
    <3>1. CASE /\ Tell({i}, clients, active_client_index, last_active_client_index)
               /\ UNCHANGED <<active_client_index, last_active_client_index>>
      BY <2>1, <3>1, TellKeeps DEF TypeOK, Index
    <3>2. CASE SetActiveClient(clients, i)
      <4>1. CASE server_thread_index[i] # active_client_index
        BY <2>1, <3>2, <4>1, UpdateKeeps DEF SetActiveClient, TypeOK, Index
      <4>2. CASE server_thread_index[i] = active_client_index
        BY <2>1, <3>2, <4>2 DEF SetActiveClient, TypeOK, Index, Told
      <4>3. QED
        BY <4>1, <4>2
    <3>3. QED
      BY <1>10, <3>1, <3>2 DEF ActivateSession, clients
  <2>3. pc' \in [Slots -> Stages]
    BY <1>10 DEF ActivateSession, Goto, TypeOK, Stages
  <2>4. QED
    BY <1>10, <2>2, <2>3 DEF ActivateSession, TypeOK, Client, Told, Index
<1>11. ASSUME NEW i \in Slots, NEW j \in Slots, SetPrimaryClient(i, j)
       PROVE  TypeOK'
  <2>1. client_state \in [Slots -> Client]
    BY DEF TypeOK, Client
  <2>2. /\ client_state' \in [Slots -> Client] /\ told' \in [Slots -> Told]
        /\ usedFreed' \in BOOLEAN /\ active_client_index' \in Index
        /\ last_active_client_index' \in Index
    <3>1. CASE server_thread_index[j] # active_client_index
      BY <1>11, <2>1, <3>1, UpdateKeeps
         DEF SetPrimaryClient, SetActiveClient, TypeOK, Index
    <3>2. CASE server_thread_index[j] = active_client_index
      BY <1>11, <2>1, <3>2 DEF SetPrimaryClient, SetActiveClient, TypeOK, Index, Told
    <3>3. QED
      BY <3>1, <3>2
  <2>3. QED
    BY <1>11, <2>2 DEF SetPrimaryClient, TypeOK, Client, Told, Index
<1>12. ASSUME NEW i \in Slots,
              SessionDestroy(i) \/ FreeCompositor(i) \/ SessionDestroyed(i)
                \/ ReleaseObjects(i) \/ Released(i) \/ IdleExit(i)
       PROVE  TypeOK'
  <2>1. CASE SessionDestroy(i) \/ ReleaseObjects(i)
    <3>1. pc' \in [Slots -> Stages]
      <4>1. PICK stage \in Stages : pc' = [pc EXCEPT ![i] = stage]
        BY <2>1 DEF SessionDestroy, ReleaseObjects, Goto, Stages
      <4>2. QED
        BY <4>1 DEF TypeOK
    <3>2. QED
      BY <2>1, <3>1 DEF SessionDestroy, ReleaseObjects, globalVars, slotVars,
                        shownVars, mainVars, timerVars, TypeOK
  <2>2. CASE FreeCompositor(i) \/ SessionDestroyed(i)
    <3>1. /\ pc' \in [Slots -> Stages]
          /\ xc' \in [Slots -> {"null", "live", "freed"}]
      BY <2>2 DEF FreeCompositor, SessionDestroyed, Goto, TypeOK, Stages
    <3>2. QED
      BY <2>2, <3>1 DEF FreeCompositor, SessionDestroyed, globalVars, slotVars,
                        shownVars, mainVars, timerVars, TypeOK
  <2>3. CASE Released(i)
    BY <2>3 DEF Released, Goto, TypeOK, Stages
  <2>4. CASE IdleExit(i)
    <3>1. timers' \in Nat /\ last_client_disconnect_ns' \in BOOLEAN
      <4>1. CASE ExitWhenIdle /\ connected_client_count = 0
        BY <2>4, <4>1 DEF IdleExit, TypeOK
      <4>2. CASE ~(ExitWhenIdle /\ connected_client_count = 0)
        BY <2>4, <4>2 DEF IdleExit, TypeOK
      <4>3. QED
        BY <4>1, <4>2
    <3>2. pc' \in [Slots -> Stages]
      BY <2>4 DEF IdleExit, Goto, TypeOK, Stages
    <3>3. QED
      BY <2>4, <3>1, <3>2 DEF IdleExit, TypeOK
  <2>5. QED
    BY <1>12, <2>1, <2>2, <2>3, <2>4
<1>13. ASSUME NEW i \in Slots, Disconnect(i)
       PROVE  TypeOK'
  <2>1. i \in Held
    BY <1>13 DEF Disconnect, SlotInv, Serving, Held, Slots, None
  <2>2. connected_client_count > 0
    BY <2>1, HeldIsCounted, HeldIsFinite, CountOfHeld DEF CountInv, TypeOK
  <2>3. NoClient \in Client
    BY DEF NoClient, Client
  <2>4. QED
    BY <1>13, <2>2, <2>3 DEF Disconnect, Goto, TypeOK, Stages, Client
<1>14. ASSUME NEW i \in Slots, DeactivateSession(i)
       PROVE  TypeOK'
  <2> DEFINE clients == [client_state EXCEPT ![i].session_active = FALSE]
  <2>1. clients \in [Slots -> Client] /\ active_client_index \in Index
    BY StillClients DEF TypeOK, Client, Index
  <2>2. UpdateServerState(clients, active_client_index)
    BY <1>14 DEF DeactivateSession
  <2> HIDE DEF clients
  <2>3. pc' \in [Slots -> Stages]
    BY <1>14 DEF DeactivateSession, Goto, TypeOK, Stages
  <2>4. QED
    BY <1>14, <2>1, <2>2, <2>3, UpdateKeeps
       DEF DeactivateSession, TypeOK, Client, Told, Index
<1>15. CASE DelayOver \/ StopIdle
  <2>1. CASE DelayOver
    <3>1. timers' \in Nat /\ deciding' \in Nat
      BY <2>1 DEF DelayOver, TypeOK
    <3>2. QED
      BY <2>1, <3>1 DEF DelayOver, TypeOK
  <2>2. CASE StopIdle
    <3>1. running' \in BOOLEAN
      BY <2>2, Zenon DEF StopIdle
    <3>2. deciding' \in Nat
      BY <2>2 DEF StopIdle, TypeOK
    <3>3. QED
      BY <2>2, <3>1, <3>2 DEF StopIdle, TypeOK
  <2>3. QED
    BY <1>15, <2>1, <2>2
<1>16. QED
  BY <1>3, <1>4, <1>5, <1>6, <1>7, <1>8, <1>9, <1>10, <1>11, <1>12, <1>13, <1>14,
     <1>15 DEF Next, Main, Dispatch, Carry

-----------------------------------------------------------------------------
(* Slots, their threads and their compositors. *)

(* What the calls that choose the primary application do to the clients: they *)
(* keep who is held, and change no session but the one that they are about.   *)
Chosen(clients) ==
  /\ \A i \in Slots :
       /\ client_state'[i].id = clients[i].id
       /\ client_state'[i].session_overlay = clients[i].session_overlay
       /\ client_state'[i].session_active = clients[i].session_active
  /\ client_state' \in [Slots -> Client]

LEMMA SetActiveKeeps ==
  ASSUME TypeOK, NEW clients \in [Slots -> Client], NEW i \in Slots,
         SetActiveClient(clients, i)
  PROVE  Chosen(clients)
<1>1. CASE server_thread_index[i] # active_client_index
  BY <1>1, UpdateKeeps DEF SetActiveClient, TypeOK, Index, Chosen
<1>2. CASE server_thread_index[i] = active_client_index
  BY <1>2 DEF SetActiveClient, TypeOK, Chosen
<1>3. QED
  BY <1>1, <1>2

LEMMA ActivateChosen ==
  ASSUME TypeOK, NEW i \in Slots, ActivateSession(i)
  PROVE  /\ Chosen([client_state EXCEPT ![i].session_active = TRUE])
         /\ [client_state EXCEPT ![i].session_active = TRUE] \in [Slots -> Client]
<1> DEFINE clients == [client_state EXCEPT ![i].session_active = TRUE]
<1>1. clients \in [Slots -> Client]
  BY StillClients DEF TypeOK, Client
<1> HIDE DEF clients
<1>2. active_client_index \in Index /\ last_active_client_index \in Index
  BY DEF TypeOK, Index
<1>3. Tell({i}, clients, active_client_index, last_active_client_index)
        \/ SetActiveClient(clients, i)
  BY DEF ActivateSession, clients
<1>4. Chosen(clients)
  BY <1>1, <1>2, <1>3, TellKeeps, SetActiveKeeps DEF Chosen
<1>5. QED
  BY <1>1, <1>4 DEF clients

LEMMA DeactivateChosen ==
  ASSUME TypeOK, NEW i \in Slots, DeactivateSession(i)
  PROVE  /\ Chosen([client_state EXCEPT ![i].session_active = FALSE])
         /\ [client_state EXCEPT ![i].session_active = FALSE] \in [Slots -> Client]
<1> DEFINE clients == [client_state EXCEPT ![i].session_active = FALSE]
<1>1. clients \in [Slots -> Client]
  BY StillClients DEF TypeOK, Client
<1> HIDE DEF clients
<1>2. UpdateServerState(clients, active_client_index)
  BY DEF DeactivateSession, clients
<1>3. active_client_index \in Index
  BY DEF TypeOK, Index
<1>4. Chosen(clients)
  BY <1>1, <1>2, <1>3, UpdateKeeps DEF Chosen
<1>5. QED
  BY <1>1, <1>4 DEF clients

(* A connection starts on a slot whose thread has ended or never ran. *)
LEMMA StartClientSlots ==
  ASSUME TypeOK, SlotInv, NEW i \in Slots, StartClient(i),
         pc[i] \in {"none", "done"}, server_thread_index[i] = None,
         joining' = None
  PROVE  SlotInv'
<1> USE ConstantsAssumption
<1>1. i # None
  BY DEF Slots, None
<1>2. /\ server_thread_index'[i] = i /\ state'[i] = "STARTING"
      /\ pc'[i] \in {"loop", "none"}
  <2>1. pc[i] = "none" \/ pc' = [pc EXCEPT ![i] = "loop"] \/ pc'[i] = "none"
    BY DEF StartClient, TypeOK
  <2>2. QED
    BY <2>1 DEF StartClient, TypeOK
<1>3. \A k \in Slots \ {i} :
        /\ server_thread_index'[k] = server_thread_index[k] /\ state'[k] = state[k]
        /\ pc'[k] = pc[k] /\ client_state'[k] = client_state[k]
  BY DEF StartClient, TypeOK
<1>4. QED
  BY <1>1, <1>2, <1>3 DEF SlotInv, Serving, Ending

(* A thread of a slot goes on, on the same side of common_shutdown. *)
LEMMA GotoSlots ==
  ASSUME TypeOK, SlotInv, NEW i \in Slots, NEW stage, Goto(i, stage),
         UNCHANGED <<state, server_thread_index, joining>>,
         \/ pc[i] \in Serving /\ stage \in Serving
         \/ pc[i] \in Ending /\ stage \in Ending,
         \A k \in Slots : server_thread_index[k] = None =>
           client_state'[k].id = 0 /\ ~client_state'[k].session_active
  PROVE  SlotInv'
<1>1. pc'[i] = stage /\ \A k \in Slots \ {i} : pc'[k] = pc[k]
  BY DEF Goto, TypeOK
<1>2. pc[i] # "none" /\ stage # "none" /\ Serving \cap Ending = {}
  BY DEF Serving, Ending
<1>3. \A k \in Slots :
        /\ server_thread_index'[k] \in {k, None}
        /\ server_thread_index'[k] = k <=>
             pc'[k] \in Serving \/ (pc'[k] = "none" /\ state'[k] = "STARTING")
        /\ state'[k] = "STOPPING" <=> pc'[k] \in Ending
  BY <1>1, <1>2 DEF SlotInv
<1>4. QED
  BY <1>3 DEF SlotInv

LEMMA SlotStep ==
  ASSUME TypeOK, SlotInv, Next
  PROVE  SlotInv'
<1> USE DEF globalVars, slotVars, shownVars, threadVars, mainVars, timerVars
<1>1. CASE Refuse
  BY <1>1 DEF Refuse, Arrive, SlotInv
<1>2. CASE Connect
  <2> DEFINE i == Lowest(FreeSlots)
  <2>1. i \in Slots /\ server_thread_index[i] < 0
    BY <1>2, LowestAndHighest DEF Connect, FreeSlots
  <2>2. server_thread_index[i] = None
    BY <2>1, ConstantsAssumption DEF SlotInv, Slots
  <2>3. joining = None
    BY <1>2 DEF Connect, Arrive, Unlocked
  <2>4. \/ state[i] = "READY" /\ StartClient(i) /\ UNCHANGED joining
        \/ /\ state[i] = "STOPPING" /\ joining' = i
           /\ UNCHANGED <<slotVars, client_state, pc, sessions>>
    BY <1>2 DEF Connect
  <2> HIDE DEF i
  <2>5. CASE state[i] = "READY" /\ StartClient(i) /\ UNCHANGED joining
    <3>1. pc[i] = "none"
      BY <2>1, <2>2, <2>5 DEF SlotInv, TypeOK, Stages, Serving, Ending, Slots, None
    <3>2. QED
      BY <2>1, <2>2, <2>3, <2>5, <3>1, StartClientSlots
  <2>6. CASE /\ state[i] = "STOPPING" /\ joining' = i
             /\ UNCHANGED <<slotVars, client_state, pc, sessions>>
    BY <2>2, <2>6 DEF SlotInv
  <2>7. QED
    BY <2>4, <2>5, <2>6
<1>3. CASE Joined
  <2>1. joining \in Slots /\ server_thread_index[joining] = None
        /\ pc[joining] = "done"
    BY <1>3 DEF Joined, SlotInv, TypeOK
  <2>2. QED
    BY <1>3, <2>1, StartClientSlots DEF Joined
<1>4. CASE StopServer \/ DelayOver \/ StopIdle
  BY <1>4 DEF StopServer, DelayOver, StopIdle, SlotInv
<1>5. ASSUME NEW i \in Slots, SessionCreate(i)
      PROVE  SlotInv'
  <2>1. \A k \in Slots : /\ client_state'[k].id = client_state[k].id
                         /\ client_state'[k].session_active
                              = client_state[k].session_active
    BY <1>5 DEF SessionCreate, TypeOK
  <2>2. Goto(i, "creating") /\ pc[i] \in Serving /\ "creating" \in Serving
    BY <1>5 DEF SessionCreate, Serving
  <2>3. QED
    BY <1>5, <2>1, <2>2, GotoSlots DEF SessionCreate, SlotInv
<1>6. ASSUME NEW i \in Slots,
             SessionCreated(i) \/ PredictFrame(i) \/ SessionDestroy(i)
               \/ SessionDestroyed(i)
      PROVE  SlotInv'
  <2>1. PICK stage \in Serving : Goto(i, stage)
    BY <1>6 DEF SessionCreated, PredictFrame, SessionDestroy, SessionDestroyed, Serving
  <2>2. pc[i] \in Serving /\ UNCHANGED <<state, server_thread_index, joining,
                                         client_state>>
    BY <1>6 DEF SessionCreated, PredictFrame, SessionDestroy, SessionDestroyed, Serving
  <2>3. QED
    BY <2>1, <2>2, GotoSlots DEF SlotInv
<1>7. ASSUME NEW i \in Slots, ActivateSession(i)
      PROVE  SlotInv'
  <2>1. Goto(i, "loop") /\ pc[i] \in Serving /\ "loop" \in Serving
        /\ UNCHANGED <<state, server_thread_index, joining>>
    BY <1>7 DEF ActivateSession, Serving
  <2>2. server_thread_index[i] # None
    BY <2>1, ConstantsAssumption DEF SlotInv, Slots, None
  <2>3. \A k \in Slots : /\ client_state'[k].id = client_state[k].id
                         /\ k # i => client_state'[k].session_active
                                       = client_state[k].session_active
    <3> DEFINE clients == [client_state EXCEPT ![i].session_active = TRUE]
    <3>1. \A k \in Slots : /\ clients[k].id = client_state[k].id
                           /\ k # i => clients[k] = client_state[k]
      BY DEF TypeOK
    <3>2. Chosen(clients)
      BY <1>7, ActivateChosen
    <3> HIDE DEF clients
    <3>3. QED
      BY <3>1, <3>2 DEF Chosen
  <2>4. QED
    BY <2>1, <2>2, <2>3, GotoSlots DEF SlotInv
<1>8. ASSUME NEW i \in Slots, NEW j \in Slots, SetPrimaryClient(i, j)
      PROVE  SlotInv'
  <2>1. client_state \in [Slots -> Client]
    BY DEF TypeOK, Client
  <2>2. \A k \in Slots : /\ client_state'[k].id = client_state[k].id
                         /\ client_state'[k].session_active
                              = client_state[k].session_active
    BY <1>8, <2>1, SetActiveKeeps DEF SetPrimaryClient, Chosen
  <2>3. UNCHANGED <<state, server_thread_index, joining, pc>>
    BY <1>8 DEF SetPrimaryClient
  <2>4. QED
    BY <2>2, <2>3 DEF SlotInv
<1>9. ASSUME NEW i \in Slots, FreeCompositor(i)
      PROVE  SlotInv'
  <2>1. UNCHANGED <<state, server_thread_index, joining, client_state>>
    BY <1>9 DEF FreeCompositor
  <2>2. CASE pc[i] = "destroying"
    <3>1. Goto(i, "freeing") /\ pc[i] \in Serving /\ "freeing" \in Serving
      BY <1>9, <2>2 DEF FreeCompositor, Serving
    <3>2. QED
      BY <2>1, <3>1, GotoSlots DEF SlotInv
  <2>3. CASE pc[i] = "closing_freeing"
    <3>1. Goto(i, "released") /\ pc[i] \in Ending /\ "released" \in Ending
      BY <1>9, <2>3 DEF FreeCompositor, Ending
    <3>2. QED
      BY <2>1, <3>1, GotoSlots DEF SlotInv
  <2>4. QED
    BY <1>9, <2>2, <2>3 DEF FreeCompositor
<1>10. ASSUME NEW i \in Slots, ReleaseObjects(i) \/ Released(i) \/ IdleExit(i)
       PROVE  SlotInv'
  <2>1. PICK stage \in Ending : Goto(i, stage)
    BY <1>10 DEF ReleaseObjects, Released, IdleExit, Ending
  <2>2. pc[i] \in Ending /\ UNCHANGED <<state, server_thread_index, joining,
                                        client_state>>
    BY <1>10 DEF ReleaseObjects, Released, IdleExit, Ending
  <2>3. QED
    BY <2>1, <2>2, GotoSlots DEF SlotInv
<1>11. ASSUME NEW i \in Slots, Disconnect(i)
       PROVE  SlotInv'
  <2>1. /\ server_thread_index'[i] = None /\ state'[i] = "STOPPING"
        /\ pc'[i] = "closing" /\ joining' = None /\ joining = None
        /\ client_state'[i].id = 0 /\ ~client_state'[i].session_active
    BY <1>11 DEF Disconnect, Goto, Unlocked, TypeOK, NoClient
  <2>2. \A k \in Slots \ {i} :
          /\ server_thread_index'[k] = server_thread_index[k] /\ state'[k] = state[k]
          /\ pc'[k] = pc[k] /\ client_state'[k] = client_state[k]
    BY <1>11 DEF Disconnect, Goto, TypeOK
  <2>3. i # None
    BY ConstantsAssumption DEF Slots, None
  <2>4. QED
    BY <2>1, <2>2, <2>3 DEF SlotInv, Serving, Ending
<1>12. ASSUME NEW i \in Slots, DeactivateSession(i)
       PROVE  SlotInv'
  <2>1. Goto(i, "done") /\ pc[i] \in Ending /\ "done" \in Ending
        /\ UNCHANGED <<state, server_thread_index, joining>>
    BY <1>12 DEF DeactivateSession, Ending
  <2>2. \A k \in Slots : /\ client_state'[k].id = client_state[k].id
                         /\ client_state'[k].session_active
                              => client_state[k].session_active
    <3> DEFINE clients == [client_state EXCEPT ![i].session_active = FALSE]
    <3>1. \A k \in Slots : /\ clients[k].id = client_state[k].id
                           /\ clients[k].session_active
                                => client_state[k].session_active
      BY DEF TypeOK
    <3>2. Chosen(clients)
      BY <1>12, DeactivateChosen
    <3> HIDE DEF clients
    <3>3. QED
      BY <3>1, <3>2 DEF Chosen
  <2>3. QED
    BY <2>1, <2>2, GotoSlots DEF SlotInv
<1>13. QED
  BY <1>1, <1>2, <1>3, <1>4, <1>5, <1>6, <1>7, <1>8, <1>9, <1>10, <1>11, <1>12
     DEF Next, Main, Dispatch, Carry

LEMMA CompositorStep ==
  ASSUME TypeOK, SlotInv, CompositorInv, Next
  PROVE  CompositorInv'
<1> USE DEF globalVars, slotVars, shownVars, threadVars, mainVars, timerVars
<1>1. ASSUME NEW i \in Slots, StartClient(i), pc[i] \in {"none", "done"},
             UNCHANGED xc
      PROVE  CompositorInv'
  <2>1. pc'[i] \in {"none", "loop"} /\ \A k \in Slots \ {i} : pc'[k] = pc[k]
    BY <1>1 DEF StartClient, TypeOK
  <2>2. QED
    BY <1>1, <2>1 DEF CompositorInv
<1>2. CASE Connect
  <2> DEFINE i == Lowest(FreeSlots)
  <2>1. i \in Slots
    BY <1>2, LowestAndHighest DEF Connect, FreeSlots
  <2>2. \/ state[i] = "READY" /\ StartClient(i)
        \/ UNCHANGED pc
    BY <1>2 DEF Connect
  <2>3. UNCHANGED xc
    BY <1>2 DEF Connect, Arrive
  <2>4. server_thread_index[i] # i
    BY <1>2, <2>1, LowestAndHighest, ConstantsAssumption DEF Connect, FreeSlots, Slots
  <2> HIDE DEF i
  <2>5. state[i] = "READY" => pc[i] = "none"
    BY <2>1, <2>4 DEF SlotInv, TypeOK, Stages, Serving, Ending
  <2>6. QED
    BY <1>1, <2>1, <2>2, <2>3, <2>5 DEF CompositorInv
<1>3. CASE Joined
  BY <1>1, <1>3 DEF Joined, TypeOK
<1>4. CASE Refuse \/ StopServer \/ DelayOver \/ StopIdle
  BY <1>4 DEF Refuse, Arrive, StopServer, DelayOver, StopIdle, CompositorInv
<1>5. ASSUME NEW i \in Slots, NEW j \in Slots, SetPrimaryClient(i, j)
      PROVE  CompositorInv'
  BY <1>5 DEF SetPrimaryClient, CompositorInv
<1>6. ASSUME NEW i \in Slots,
             SessionCreate(i) \/ SessionCreated(i) \/ PredictFrame(i)
               \/ ActivateSession(i) \/ SessionDestroy(i) \/ FreeCompositor(i)
               \/ SessionDestroyed(i)
      PROVE  CompositorInv'
  <2>1. \A k \in Slots \ {i} : pc'[k] = pc[k] /\ xc'[k] = xc[k]
    BY <1>6 DEF SessionCreate, SessionCreated, PredictFrame, ActivateSession,
                SessionDestroy, FreeCompositor, SessionDestroyed, Goto, TypeOK
  <2>2. \/ pc'[i] \in {"loop", "freeing", "released"}
        \/ pc'[i] \in {"creating", "activating", "destroying"} /\ xc'[i] = "live"
    BY <1>6 DEF SessionCreate, SessionCreated, PredictFrame, ActivateSession,
                SessionDestroy, FreeCompositor, SessionDestroyed, Goto, TypeOK
  <2>3. QED
    BY <2>1, <2>2 DEF CompositorInv
<1>7. ASSUME NEW i \in Slots,
             Disconnect(i) \/ ReleaseObjects(i) \/ Released(i) \/ IdleExit(i)
               \/ DeactivateSession(i)
      PROVE  CompositorInv'
  <2>1. \A k \in Slots \ {i} : pc'[k] = pc[k] /\ xc'[k] = xc[k]
    BY <1>7 DEF Disconnect, ReleaseObjects, Released, IdleExit, DeactivateSession,
                Goto, TypeOK
  <2>2. \/ pc'[i] \in {"closing", "closing_freeing"}
        \/ pc'[i] \in {"idle_exit", "deactivating", "done"} /\ xc'[i] = "null"
    BY <1>7 DEF Disconnect, ReleaseObjects, Released, IdleExit, DeactivateSession,
                Goto, TypeOK, CompositorInv
  <2>3. QED
    BY <2>1, <2>2 DEF CompositorInv
<1>8. QED
  BY <1>2, <1>3, <1>4, <1>5, <1>6, <1>7 DEF Next, Main, Dispatch, Carry

-----------------------------------------------------------------------------
(* The count of connections. *)

LEMMA CountOfHeldNext ==
  CountIsConnections' <=>
    connected_client_count' =
      Cardinality(Held') + refused' + (IF joining' = None THEN 0 ELSE 1)
BY DEF CountIsConnections, Held

\* A slot that is given out is one more.
LEMMA HeldGrows ==
  ASSUME TypeOK, NEW i \in Slots \ Held, StartClient(i)
  PROVE  Cardinality(Held') = Cardinality(Held) + 1
<1>1. Held' = Held \union {i}
  BY ConstantsAssumption DEF StartClient, Held, TypeOK, Slots
<1>2. QED
  BY <1>1, HeldIsFinite, FS_AddElement

LEMMA CountStep ==
  ASSUME TypeOK, SlotInv, CountInv, Next
  PROVE  CountInv'
<1> USE DEF globalVars, slotVars, shownVars, threadVars, mainVars, timerVars
<1> DEFINE Joining == IF joining = None THEN 0 ELSE 1
<1>1. /\ connected_client_count = Cardinality(Held) + refused + Joining
      /\ connected_client_count <= arrivals /\ refused <= arrivals
      /\ connected_client_count \in Int /\ refused \in Nat /\ arrivals \in Nat
      /\ Cardinality(Held) \in Nat
  BY CountOfHeld, HeldIsFinite, ConstantsAssumption DEF CountInv, TypeOK
<1>2. ASSUME UNCHANGED <<connected_client_count, server_thread_index, joining,
                         arrivals, refused>>
      PROVE  CountInv'
  <2>1. Held' = Held
    BY <1>2 DEF Held
  <2>2. QED
    BY <1>1, <1>2, <2>1, CountOfHeldNext DEF CountInv
<1>3. CASE Refuse
  <2>1. Held' = Held
    BY <1>3 DEF Refuse, Held
  <2>2. QED
    BY <1>1, <1>3, <2>1, CountOfHeldNext DEF Refuse, Arrive, CountInv
<1>4. CASE Connect
  <2> DEFINE i == Lowest(FreeSlots)
  <2>1. i \in Slots \ Held
    <3>1. i \in FreeSlots /\ FreeSlots \subseteq Slots
      BY <1>4, LowestAndHighest DEF Connect, FreeSlots
    <3>2. \A k \in FreeSlots : k \notin Held
      <4>1. \A k \in Slots : server_thread_index[k] \in Int
        BY ConstantsAssumption DEF TypeOK, Slots, None
      <4>2. QED
        BY <4>1 DEF FreeSlots, Held
    <3>3. QED
      BY <3>1, <3>2
  <2>2. /\ connected_client_count' = connected_client_count + 1
        /\ arrivals' = arrivals + 1 /\ UNCHANGED refused /\ joining = None
    BY <1>4 DEF Connect, Arrive, Unlocked
  <2>3. \/ StartClient(i) /\ UNCHANGED joining
        \/ joining' = i /\ UNCHANGED slotVars
    BY <1>4 DEF Connect
  <2> HIDE DEF i
  <2>4. CASE StartClient(i) /\ UNCHANGED joining
    BY <1>1, <2>1, <2>2, <2>4, HeldGrows, CountOfHeldNext DEF CountInv
  <2>5. CASE joining' = i /\ UNCHANGED slotVars
    <3>1. Held' = Held /\ i # None
      BY <2>1, <2>5, ConstantsAssumption DEF Held, Slots, None
    <3>2. QED
      BY <1>1, <2>2, <2>5, <3>1, CountOfHeldNext DEF CountInv
  <2>6. QED
    BY <2>3, <2>4, <2>5
<1>5. CASE Joined
  <2>1. joining \in Slots \ Held /\ joining # None /\ StartClient(joining)
        /\ joining' = None
    BY <1>5 DEF Joined, SlotInv, TypeOK, Held, None
  <2>2. UNCHANGED <<connected_client_count, arrivals, refused>>
    BY <1>5 DEF Joined
  <2>3. QED
    BY <1>1, <2>1, <2>2, HeldGrows, CountOfHeldNext DEF CountInv
<1>6. ASSUME NEW i \in Slots, Disconnect(i)
      PROVE  CountInv'
  <2>1. i \in Held
    BY <1>6, ConstantsAssumption DEF Disconnect, SlotInv, Serving, Held, Slots
  <2>2. Held' = Held \ {i}
    BY <1>6 DEF Disconnect, Held, TypeOK, None
  <2>3. Cardinality(Held') = Cardinality(Held) - 1
    BY <2>1, <2>2, HeldIsFinite, FS_RemoveElement
  <2>4. /\ connected_client_count' = connected_client_count - 1
        /\ UNCHANGED <<joining, arrivals, refused>>
    BY <1>6 DEF Disconnect
  <2>5. QED
    BY <1>1, <2>3, <2>4, CountOfHeldNext DEF CountInv
<1>7. CASE StopServer \/ DelayOver \/ StopIdle
  BY <1>2, <1>7 DEF StopServer, DelayOver, StopIdle
<1>8. ASSUME NEW i \in Slots, Dispatch(i)
      PROVE  CountInv'
  BY <1>2, <1>8 DEF Dispatch, SessionCreate, PredictFrame, SessionDestroy,
                    SetPrimaryClient
<1>9. ASSUME NEW i \in Slots, Carry(i)
      PROVE  CountInv'
  <2>1. UNCHANGED <<server_thread_index, joining, arrivals, refused>>
    BY <1>9 DEF Carry, SessionCreated, ActivateSession, FreeCompositor,
                SessionDestroyed, ReleaseObjects, Released, IdleExit,
                DeactivateSession
  <2>2. UNCHANGED connected_client_count
    BY <1>9 DEF Carry, SessionCreated, ActivateSession, FreeCompositor,
                SessionDestroyed, ReleaseObjects, Released, IdleExit,
                DeactivateSession
  <2>3. QED
    BY <1>2, <2>1, <2>2
<1>10. QED
  BY <1>3, <1>4, <1>5, <1>6, <1>7, <1>8, <1>9 DEF Next, Main

-----------------------------------------------------------------------------
(* The primary application. *)

(* One session at most changes, and not the primary's: the same choice holds. *)
LEMMA SamePrimary ==
  ASSUME PrimaryInv, (Mains(client_state))' = Mains(client_state),
         Leaving \subseteq Leaving',
         UNCHANGED <<active_client_index, last_active_client_index>>
  PROVE  PrimaryIsActive' /\ active_client_index' = last_active_client_index'
BY DEF PrimaryInv, PrimaryIsActive

(* The primary that update_server_state_locked chooses is a right one. *)
LEMMA ChosenPrimary ==
  ASSUME TypeOK, SlotInv, PrimaryInv, NEW clients \in [Slots -> Client],
         NEW active \in Index, UpdateServerState(clients, active),
         UNCHANGED server_thread_index,
         \A k \in Slots : clients[k].session_active => server_thread_index[k] >= 0,
         active = None => Mains(clients) = {},
         active # None /\ clients[active].session_active
           /\ active = last_active_client_index => active \in Mains(clients)
  PROVE  /\ PrimaryIsActive' /\ active_client_index' = last_active_client_index'
<1>1. /\ active_client_index' = None => Mains(clients) = {}
      /\ active_client_index' \in Mains(clients) \union {None}
  BY UpdateChooses
<1>2. last_active_client_index' = active_client_index' /\ Chosen(clients)
  BY UpdateKeeps DEF Chosen
<1>3. (Mains(client_state))' = Mains(clients)
  BY <1>2 DEF Mains, Chosen
<1>4. QED
  BY <1>1, <1>2, <1>3 DEF PrimaryIsActive

(* set_active_client_locked, after at most making the session of i active. *)
LEMMA SetActivePrimary ==
  ASSUME TypeOK, SlotInv, PrimaryInv, NEW clients \in [Slots -> Client],
         NEW i \in Held, SetActiveClient(clients, i),
         UNCHANGED server_thread_index, Leaving \subseteq Leaving',
         \A k \in Slots : clients[k].session_active => server_thread_index[k] >= 0,
         \A k \in Slots \ {i} : clients[k] = client_state[k],
         i = active_client_index => clients = client_state
  PROVE  PrimaryIsActive' /\ active_client_index' = last_active_client_index'
<1>1. i \in Slots /\ server_thread_index[i] = i /\ i # None
  BY ConstantsAssumption DEF Held, SlotInv, Slots, None
<1>2. CASE i # active_client_index
  <2>1. UpdateServerState(clients, i) /\ i \in Index
    BY <1>1, <1>2 DEF SetActiveClient, Index
  <2>2. i # last_active_client_index
    BY <1>2 DEF PrimaryInv
  <2>3. QED
    BY <1>1, <2>1, <2>2, ChosenPrimary
<1>3. CASE i = active_client_index
  <2>1. UNCHANGED <<client_state, active_client_index, last_active_client_index>>
    BY <1>1, <1>3 DEF SetActiveClient
  <2>2. (Mains(client_state))' = Mains(client_state)
    BY <2>1 DEF Mains
  <2>3. QED
    BY <2>1, <2>2, SamePrimary
<1>4. QED
  BY <1>2, <1>3

KindInv ==
  \A i \in Held : xc[i] = "live" \/ client_state[i].session_active
                    => client_state[i].session_overlay = kind[i]

LEMMA KindStep ==
  ASSUME TypeOK, SlotInv, CompositorInv, KindInv, Next
  PROVE  KindInv'
<1> USE DEF globalVars, slotVars, shownVars, threadVars, mainVars, timerVars
<1>1. ASSUME Held' \subseteq Held, UNCHANGED kind,
             \A k \in Held' :
               /\ client_state'[k].session_overlay = client_state[k].session_overlay
               /\ xc'[k] = "live" => xc[k] = "live"
               /\ client_state'[k].session_active
                    => client_state[k].session_active \/ xc[k] = "live"
      PROVE  KindInv'
  BY <1>1 DEF KindInv
<1>2. ASSUME NEW i \in Slots, StartClient(i), pc[i] \in {"none", "done"},
             UNCHANGED xc
      PROVE  KindInv'
  <2>1. xc'[i] = "null" /\ ~client_state'[i].session_active
    BY <1>2 DEF CompositorInv, StartClient, NoClient, TypeOK
  <2>2. \A k \in Held' \ {i} : k \in Held /\ client_state'[k] = client_state[k]
                                 /\ kind'[k] = kind[k]
    BY <1>2 DEF StartClient, Held, TypeOK
  <2>3. QED
    BY <1>2, <2>1, <2>2 DEF KindInv
<1>3. CASE Connect
  <2> DEFINE i == Lowest(FreeSlots)
  <2>1. i \in Slots /\ i \in FreeSlots
    BY <1>3, LowestAndHighest DEF Connect, FreeSlots
  <2>2. server_thread_index[i] # i
    BY <2>1, ConstantsAssumption DEF FreeSlots, Slots
  <2>3. \/ state[i] = "READY" /\ StartClient(i)
        \/ UNCHANGED <<slotVars, client_state>>
    BY <1>3 DEF Connect
  <2>4. UNCHANGED xc
    BY <1>3 DEF Connect, Arrive
  <2> HIDE DEF i
  <2>5. state[i] = "READY" => pc[i] = "none"
    BY <2>1, <2>2 DEF SlotInv, TypeOK, Stages, Serving, Ending
  <2>6. CASE UNCHANGED <<slotVars, client_state>>
    BY <1>1, <2>4, <2>6 DEF Held
  <2>7. QED
    BY <1>2, <2>1, <2>3, <2>4, <2>5, <2>6
<1>4. CASE Joined
  BY <1>2, <1>4 DEF Joined, TypeOK
<1>5. CASE Refuse \/ StopServer \/ DelayOver \/ StopIdle
  <2>1. UNCHANGED <<slotVars, client_state, xc>>
    BY <1>5 DEF Refuse, Arrive, StopServer, DelayOver, StopIdle
  <2>2. QED
    BY <1>1, <2>1 DEF Held
<1>6. ASSUME NEW i \in Slots, SessionCreate(i)
      PROVE  KindInv'
  <2>1. client_state'[i].session_overlay = kind[i] /\ UNCHANGED slotVars
        /\ \A k \in Slots \ {i} : client_state'[k] = client_state[k]
                                    /\ xc'[k] = xc[k]
    BY <1>6 DEF SessionCreate, TypeOK
  <2>2. QED
    BY <2>1 DEF KindInv, Held
<1>7. ASSUME NEW i \in Slots, NEW j \in Slots, SetPrimaryClient(i, j)
      PROVE  KindInv'
  <2>1. Chosen(client_state)
    BY <1>7, SetActiveKeeps DEF SetPrimaryClient, TypeOK, Client
  <2>2. UNCHANGED <<slotVars, xc>>
    BY <1>7 DEF SetPrimaryClient
  <2>3. QED
    BY <1>1, <2>1, <2>2 DEF Chosen, Held
<1>8. ASSUME NEW i \in Slots, ActivateSession(i)
      PROVE  KindInv'
  <2> DEFINE clients == [client_state EXCEPT ![i].session_active = TRUE]
  <2>1. \A k \in Slots :
          /\ clients[k].session_overlay = client_state[k].session_overlay
          /\ k # i => clients[k] = client_state[k]
    BY DEF TypeOK
  <2>2. Chosen(clients)
    BY <1>8, ActivateChosen
  <2>3. xc[i] = "live" /\ UNCHANGED <<slotVars, xc>>
    BY <1>8 DEF ActivateSession, CompositorInv
  <2> HIDE DEF clients
  <2>4. QED
    BY <1>1, <2>1, <2>2, <2>3 DEF Chosen, Held
<1>9. ASSUME NEW i \in Slots,
             SessionCreated(i) \/ PredictFrame(i) \/ SessionDestroy(i)
               \/ FreeCompositor(i) \/ SessionDestroyed(i)
               \/ ReleaseObjects(i) \/ Released(i) \/ IdleExit(i)
      PROVE  KindInv'
  <2>1. UNCHANGED <<slotVars, client_state>>
    BY <1>9 DEF SessionCreated, PredictFrame, SessionDestroy, FreeCompositor,
                SessionDestroyed, ReleaseObjects, Released, IdleExit
  <2>2. \A k \in Slots : xc'[k] = "live" => xc[k] = "live"
    BY <1>9 DEF SessionCreated, PredictFrame, SessionDestroy, FreeCompositor,
                SessionDestroyed, ReleaseObjects, Released, IdleExit, TypeOK
  <2>3. QED
    BY <1>1, <2>1, <2>2 DEF Held
<1>10. ASSUME NEW i \in Slots, Disconnect(i)
       PROVE  KindInv'
  <2>1. i \notin Held' /\ Held' \subseteq Held
    BY <1>10 DEF Disconnect, Held, TypeOK, None
  <2>2. \A k \in Slots \ {i} : client_state'[k] = client_state[k]
    BY <1>10 DEF Disconnect, TypeOK
  <2>3. UNCHANGED <<kind, xc>> /\ Held' \subseteq Slots
    BY <1>10 DEF Disconnect, Held
  <2>4. QED
    BY <1>1, <2>1, <2>2, <2>3
<1>11. ASSUME NEW i \in Slots, DeactivateSession(i)
       PROVE  KindInv'
  <2> DEFINE clients == [client_state EXCEPT ![i].session_active = FALSE]
  <2>1. \A k \in Slots :
          /\ clients[k].session_overlay = client_state[k].session_overlay
          /\ clients[k].session_active => client_state[k].session_active
    BY DEF TypeOK
  <2>2. Chosen(clients)
    BY <1>11, DeactivateChosen
  <2>3. UNCHANGED <<slotVars, xc>>
    BY <1>11 DEF DeactivateSession
  <2> HIDE DEF clients
  <2>4. QED
    BY <1>1, <2>1, <2>2, <2>3 DEF Chosen, Held
<1>12. QED
  BY <1>3, <1>4, <1>5, <1>6, <1>7, <1>8, <1>9, <1>10, <1>11
     DEF Next, Main, Dispatch, Carry

LEMMA PrimaryStep ==
  ASSUME TypeOK, SlotInv, CompositorInv, PrimaryInv, Next
  PROVE  PrimaryInv'
<1> USE DEF globalVars, slotVars, shownVars, threadVars, mainVars, timerVars
<1>1. KindInv'
  BY KindStep DEF PrimaryInv, KindInv
<1> SUFFICES PrimaryIsActive' /\ active_client_index' = last_active_client_index'
  BY <1>1 DEF PrimaryInv, KindInv
<1>2. ASSUME NEW i \in Slots, StartClient(i), pc[i] \in {"none", "done"},
             server_thread_index[i] = None,
             UNCHANGED <<active_client_index, last_active_client_index>>
      PROVE  PrimaryIsActive' /\ active_client_index' = last_active_client_index'
  <2>1. ~client_state'[i].session_active /\ ~client_state[i].session_active
    BY <1>2 DEF SlotInv, StartClient, NoClient, TypeOK
  <2>2. \A k \in Slots \ {i} : /\ client_state'[k] = client_state[k]
                               /\ server_thread_index'[k] = server_thread_index[k]
                               /\ pc'[k] = pc[k]
    BY <1>2 DEF StartClient, TypeOK
  <2>3. (Mains(client_state))' = Mains(client_state)
    BY <2>1, <2>2 DEF Mains
  <2>4. Leaving \subseteq Leaving'
    BY <1>2, <2>2 DEF Leaving
  <2>5. QED
    BY <1>2, <2>3, <2>4, SamePrimary
<1>3. CASE Connect
  <2> DEFINE i == Lowest(FreeSlots)
  <2>1. i \in Slots /\ i \in FreeSlots
    BY <1>3, LowestAndHighest DEF Connect, FreeSlots
  <2>2. server_thread_index[i] = None
    BY <2>1, ConstantsAssumption DEF FreeSlots, SlotInv, Slots
  <2>3. \/ state[i] = "READY" /\ StartClient(i)
        \/ UNCHANGED <<slotVars, client_state, pc>>
    BY <1>3 DEF Connect
  <2>4. UNCHANGED <<active_client_index, last_active_client_index>>
    BY <1>3 DEF Connect, Arrive
  <2> HIDE DEF i
  <2>5. i # None
    BY <2>1, ConstantsAssumption DEF Slots, None
  <2>6. state[i] = "READY" => pc[i] = "none"
    BY <2>1, <2>2, <2>5 DEF SlotInv, TypeOK, Stages, Serving, Ending
  <2>7. CASE UNCHANGED <<slotVars, client_state, pc>>
    BY <2>4, <2>7, SamePrimary DEF Mains, Leaving
  <2>8. QED
    BY <1>2, <2>1, <2>2, <2>3, <2>4, <2>6, <2>7
<1>4. CASE Joined
  BY <1>2, <1>4 DEF Joined, SlotInv, TypeOK
<1>5. CASE Refuse \/ StopServer \/ DelayOver \/ StopIdle
  <2>1. UNCHANGED <<slotVars, client_state, pc, active_client_index,
                    last_active_client_index>>
    BY <1>5 DEF Refuse, Arrive, StopServer, DelayOver, StopIdle
  <2>2. QED
    BY <2>1, SamePrimary DEF Mains, Leaving
<1>6. ASSUME NEW i \in Slots, SessionCreate(i)
      PROVE  PrimaryIsActive' /\ active_client_index' = last_active_client_index'
  <2>1. UNCHANGED <<slotVars, active_client_index, last_active_client_index>>
        /\ pc[i] = "loop"
    BY <1>6 DEF SessionCreate
  <2>2. i \in Held
    BY <2>1, ConstantsAssumption DEF SlotInv, Held, Slots, Serving
  <2>3. /\ client_state[i].session_active
             => client_state[i].session_overlay = kind[i]
        /\ client_state'[i].session_overlay = kind[i]
        /\ client_state'[i].session_active = client_state[i].session_active
        /\ \A k \in Slots \ {i} : client_state'[k] = client_state[k]
    BY <1>6, <2>2 DEF SessionCreate, PrimaryInv, TypeOK
  <2>4. (Mains(client_state))' = Mains(client_state)
    BY <2>1, <2>3 DEF Mains
  <2>5. Leaving \subseteq Leaving'
    BY <1>6 DEF SessionCreate, Goto, Leaving, TypeOK
  <2>6. QED
    BY <2>1, <2>4, <2>5, SamePrimary
<1>7. ASSUME NEW i \in Slots, NEW j \in Slots, SetPrimaryClient(i, j)
      PROVE  PrimaryIsActive' /\ active_client_index' = last_active_client_index'
  <2>1. j \in Held
    BY <1>7, ConstantsAssumption DEF SetPrimaryClient, SlotInv, Held, Slots
  <2>2. client_state \in [Slots -> Client] /\ SetActiveClient(client_state, j)
        /\ UNCHANGED server_thread_index /\ Leaving' = Leaving
    BY <1>7 DEF SetPrimaryClient, TypeOK, Client, Leaving
  <2>3. \A k \in Slots : client_state[k].session_active => server_thread_index[k] >= 0
    BY ConstantsAssumption DEF SlotInv, Slots
  <2>4. QED
    BY <2>1, <2>2, <2>3, SetActivePrimary
<1>8. ASSUME NEW i \in Slots, ActivateSession(i)
      PROVE  PrimaryIsActive' /\ active_client_index' = last_active_client_index'
  <2> DEFINE clients == [client_state EXCEPT ![i].session_active = TRUE]
  <2>1. i \in Held /\ xc[i] = "live" /\ pc[i] = "activating"
    BY <1>8, ConstantsAssumption
       DEF ActivateSession, SlotInv, CompositorInv, Held, Slots, Serving
  <2>2. /\ \A k \in Slots \ {i} : clients[k] = client_state[k]
        /\ clients[i] = [client_state[i] EXCEPT !.session_active = TRUE]
    BY DEF TypeOK
  <2>3. clients[i].session_active
        /\ clients[i].session_overlay = client_state[i].session_overlay
    BY DEF TypeOK
  <2>4. clients \in [Slots -> Client] /\ Chosen(clients)
    BY <1>8, ActivateChosen
  <2>5. UNCHANGED server_thread_index /\ Leaving \subseteq Leaving'
    BY <1>8 DEF ActivateSession, Goto, Leaving, TypeOK
  <2>6. \/ /\ clients[i].session_overlay
           /\ UNCHANGED <<active_client_index, last_active_client_index>>
        \/ ~clients[i].session_overlay /\ SetActiveClient(clients, i)
    BY <1>8 DEF ActivateSession
  <2>7. i = active_client_index => client_state[i].session_active
    BY <2>1, ConstantsAssumption
       DEF PrimaryInv, PrimaryIsActive, Mains, Leaving, None, Slots
  <2>8. i = active_client_index => clients = client_state
    <3>1. client_state[i].session_active => clients[i] = client_state[i]
      BY <2>2 DEF TypeOK
    <3>2. QED
      BY <2>2, <2>4, <2>7, <3>1 DEF TypeOK
  <2> HIDE DEF clients
  <2>9. CASE /\ clients[i].session_overlay
             /\ UNCHANGED <<active_client_index, last_active_client_index>>
    <3>1. (Mains(client_state))' = Mains(client_state)
      BY <2>2, <2>3, <2>4, <2>5, <2>9 DEF Mains, Chosen
    <3>2. QED
      BY <2>5, <2>9, <3>1, SamePrimary
  <2>10. CASE SetActiveClient(clients, i)
    <3>1. \A k \in Slots : clients[k].session_active => server_thread_index[k] >= 0
      BY <2>1, <2>2, ConstantsAssumption DEF SlotInv, Slots, Held
    <3>2. QED
      BY <2>1, <2>2, <2>4, <2>5, <2>8, <2>10, <3>1, SetActivePrimary
  <2>11. QED
    BY <2>6, <2>9, <2>10
<1>9. ASSUME NEW i \in Slots,
             SessionCreated(i) \/ PredictFrame(i) \/ SessionDestroy(i)
               \/ FreeCompositor(i) \/ SessionDestroyed(i)
               \/ ReleaseObjects(i) \/ Released(i) \/ IdleExit(i)
      PROVE  PrimaryIsActive' /\ active_client_index' = last_active_client_index'
  <2>1. UNCHANGED <<slotVars, client_state, active_client_index,
                    last_active_client_index>>
    BY <1>9 DEF SessionCreated, PredictFrame, SessionDestroy, FreeCompositor,
                SessionDestroyed, ReleaseObjects, Released, IdleExit
  <2>2. Leaving \subseteq Leaving'
    BY <1>9 DEF SessionCreated, PredictFrame, SessionDestroy, FreeCompositor,
                SessionDestroyed, ReleaseObjects, Released, IdleExit, Goto,
                Leaving, TypeOK
  <2>3. QED
    BY <2>1, <2>2, SamePrimary DEF Mains
<1>10. ASSUME NEW i \in Slots, Disconnect(i)
       PROVE  PrimaryIsActive' /\ active_client_index' = last_active_client_index'
  <2>1. UNCHANGED <<active_client_index, last_active_client_index>>
    BY <1>10 DEF Disconnect
  <2>2. (Mains(client_state))' = Mains(client_state) \ {i}
    BY <1>10 DEF Disconnect, Mains, TypeOK, None
  <2>3. Leaving' = Leaving \union {i}
    BY <1>10 DEF Disconnect, Goto, Leaving, TypeOK
  <2>4. QED
    BY <2>1, <2>2, <2>3 DEF PrimaryInv, PrimaryIsActive
<1>11. ASSUME NEW i \in Slots, DeactivateSession(i)
       PROVE  PrimaryIsActive' /\ active_client_index' = last_active_client_index'
  <2> DEFINE clients == [client_state EXCEPT ![i].session_active = FALSE]
  <2>1. /\ \A k \in Slots \ {i} : clients[k] = client_state[k]
        /\ ~clients[i].session_active
    BY DEF TypeOK
  <2>2. clients \in [Slots -> Client]
    BY <1>11, DeactivateChosen
  <2>3. UpdateServerState(clients, active_client_index)
        /\ UNCHANGED server_thread_index /\ pc[i] = "deactivating"
    BY <1>11 DEF DeactivateSession
  <2> HIDE DEF clients
  <2>4. server_thread_index[i] = None
    BY <2>3 DEF SlotInv, Serving
  <2>5. Mains(clients) = Mains(client_state)
    BY <2>1, <2>4 DEF Mains, None
  <2>6. \A k \in Slots : clients[k].session_active => server_thread_index[k] >= 0
    BY <2>1, ConstantsAssumption DEF SlotInv, Slots
  <2>7. active_client_index # None /\ clients[active_client_index].session_active
          => active_client_index \in Mains(clients)
    <3>1. SUFFICES ASSUME active_client_index # None,
                          clients[active_client_index].session_active
                   PROVE  active_client_index \in Mains(clients)
      OBVIOUS
    <3>2. active_client_index \in Mains(client_state) \union Leaving
      BY <3>1 DEF PrimaryInv, PrimaryIsActive
    <3>3. active_client_index \notin Leaving
      <4>1. \A k \in Leaving : server_thread_index[k] = None
        BY DEF Leaving, SlotInv, Serving
      <4>2. QED
        BY <2>6, <3>1, <4>1 DEF Leaving, None
    <3>4. QED
      BY <2>5, <3>2, <3>3
  <2>8. active_client_index \in Index
    BY DEF TypeOK, Index
  <2>9. active_client_index = None => Mains(clients) = {}
    BY <2>5 DEF PrimaryInv, PrimaryIsActive
  <2>10. QED
    BY <2>2, <2>3, <2>6, <2>7, <2>8, <2>9, ChosenPrimary
<1>12. QED
  BY <1>3, <1>4, <1>5, <1>6, <1>7, <1>8, <1>9, <1>10, <1>11
     DEF Next, Main, Dispatch, Carry

-----------------------------------------------------------------------------
(* What the compositors were told, when a client has one session in its life. *)

\* Slot k is told what these clients and this primary application call for.
ToldRight(k, client, active, t) ==
  /\ client.session_overlay /\ t.main_app => active # None
  /\ client.session_active =>
       /\ t.visible <=> client.session_overlay \/ k = active
       /\ client.session_overlay => (t.main_app <=> active # None)

LEMMA ToldInvIsRight ==
  /\ ToldInv <=>
       /\ FirstSession
       /\ \A k \in Held : xc[k] = "live" =>
            ToldRight(k, client_state[k], active_client_index, told[k])
  /\ ToldInv' <=>
       /\ FirstSession'
       /\ \A k \in Held' : xc'[k] = "live" =>
            ToldRight(k, client_state'[k], active_client_index', told'[k])
BY DEF ToldInv, ToldIsState, ToldRight, Held

(* Both handlers leave the compositor of a slot rightly told. *)
LEMMA TellTells ==
  ASSUME TypeOK, NEW S \in SUBSET Slots, NEW clients \in [Slots -> Client],
         NEW active \in Index, NEW last \in Index,
         Tell(S, clients, active, last), NEW k \in S, xc[k] = "live",
         clients[k].session_overlay /\ told[k].main_app => last # None
  PROVE  ToldRight(k, client_state'[k], active, told'[k])
<1>1. /\ told'[k].visible = Shown(clients[k], k, active)
      /\ told'[k].main_app
           = MainAppVisible(clients[k], told[k].main_app, active, last)
  BY DEF Tell, TypeOK
<1>2. /\ client_state'[k].session_overlay = clients[k].session_overlay
      /\ client_state'[k].session_active = clients[k].session_active
  BY TellKeeps
<1>3. \A n \in Index : n >= 0 <=> n # None
  BY ConstantsAssumption DEF Index, Slots, None
<1>4. CASE clients[k].session_overlay
  <2>1. CASE active >= 0 \/ last >= 0
    <3>1. told'[k].main_app = (active >= 0)
      BY <1>1, <1>4, <2>1, Zenon DEF MainAppVisible
    <3>2. QED
      BY <1>1, <1>2, <1>3, <1>4, <3>1 DEF ToldRight, Shown
  <2>2. CASE ~(active >= 0 \/ last >= 0)
    <3>1. told'[k].main_app = told[k].main_app
      BY <1>1, <2>2, Zenon DEF MainAppVisible
    <3>2. ~told[k].main_app /\ active = None
      BY <1>3, <1>4, <2>2
    <3>3. QED
      BY <1>1, <1>2, <1>4, <3>1, <3>2 DEF ToldRight, Shown
  <2>3. QED
    BY <2>1, <2>2
<1>5. CASE ~clients[k].session_overlay
  BY <1>1, <1>2, <1>5 DEF ToldRight, Shown
<1>6. QED
  BY <1>4, <1>5

(* update_server_state_locked tells every client, or had nothing to tell. *)
LEMMA UpdateTells ==
  ASSUME TypeOK, PrimaryInv, ToldInv, NEW clients \in [Slots -> Client],
         NEW active \in Index, UpdateServerState(clients, active),
         \A k \in Held : clients[k].session_overlay = client_state[k].session_overlay,
         active # None /\ clients[active].session_active
           /\ active = last_active_client_index
             => \A k \in Held : clients[k] = client_state[k],
         NEW k \in Held, xc[k] = "live"
  PROVE  ToldRight(k, client_state'[k], active_client_index', told'[k])
<1>1. /\ ToldRight(k, client_state[k], active_client_index, told[k])
      /\ active_client_index = last_active_client_index
      /\ last_active_client_index \in Index /\ Held \in SUBSET Slots
  BY ToldInvIsRight DEF PrimaryInv, TypeOK, Index, Held
<1>2. CASE active >= 0 /\ clients[active].session_active
             /\ active = last_active_client_index
  <2>1. active # None
    BY <1>2 DEF None
  <2>2. client_state'[k] = client_state[k] /\ told'[k] = told[k]
        /\ active_client_index' = active_client_index
    BY <1>1, <1>2, <2>1 DEF UpdateServerState
  <2>3. QED
    BY <1>1, <2>2
<1>3. CASE ~(active >= 0 /\ clients[active].session_active
               /\ active = last_active_client_index)
  <2>1. Tell(Held, clients, active_client_index', last_active_client_index)
    BY <1>3 DEF UpdateServerState, Held
  <2>2. active_client_index' \in Index
    BY UpdateKeeps
  <2>3. clients[k].session_overlay /\ told[k].main_app
          => last_active_client_index # None
    BY <1>1 DEF ToldRight
  <2>4. QED
    BY <1>1, <2>1, <2>2, <2>3, TellTells
<1>4. QED
  BY <1>2, <1>3

(* A step that starts a client leaves the others alone, and starts it without *)
(* a compositor.                                                              *)
LEMMA StartTold ==
  ASSUME TypeOK, CompositorInv, ToldInv, NEW i \in Slots, StartClient(i),
         pc[i] \in {"none", "done"}, UNCHANGED <<xc, told, active_client_index>>
  PROVE  ToldInv'
<1>1. xc'[i] = "null" /\ ~client_state'[i].session_active
  BY DEF CompositorInv, StartClient, NoClient, TypeOK
<1>2. \A k \in Held' \ {i} :
        /\ k \in Held /\ client_state'[k] = client_state[k]
        /\ pc'[k] = pc[k] /\ sessions'[k] = sessions[k]
  BY DEF StartClient, Held, TypeOK
<1>3. FirstSession'
  BY <1>1, <1>2, ToldInvIsRight DEF FirstSession
<1>4. QED
  BY <1>1, <1>2, <1>3, ToldInvIsRight

(* A step that changes no client, told or primary. *)
LEMMA QuietTold ==
  ASSUME ToldInv, UNCHANGED <<server_thread_index, client_state, told,
                              active_client_index, sessions>>,
         \A k \in Held : /\ xc'[k] = "live" => xc[k] = "live"
                         /\ pc'[k] = "creating" => pc[k] = "creating"
  PROVE  ToldInv'
<1>1. Held' = Held
  BY DEF Held
<1>2. FirstSession'
  BY <1>1, ToldInvIsRight DEF FirstSession
<1>3. QED
  BY <1>1, <1>2, ToldInvIsRight

LEMMA ToldStep ==
  ASSUME ~Recreate, TypeOK, SlotInv, CompositorInv, PrimaryInv, ToldInv, Next
  PROVE  ToldInv'
<1> USE DEF globalVars, slotVars, shownVars, threadVars, mainVars, timerVars
<1>1. CASE Connect
  <2> DEFINE i == Lowest(FreeSlots)
  <2>1. i \in Slots /\ i \in FreeSlots
    BY <1>1, LowestAndHighest DEF Connect, FreeSlots
  <2>2. server_thread_index[i] # i
    BY <2>1, ConstantsAssumption DEF FreeSlots, Slots
  <2>3. \/ state[i] = "READY" /\ StartClient(i)
        \/ UNCHANGED <<slotVars, client_state, pc, sessions>>
    BY <1>1 DEF Connect
  <2>4. UNCHANGED <<xc, told, active_client_index>>
    BY <1>1 DEF Connect, Arrive
  <2> HIDE DEF i
  <2>5. state[i] = "READY" => pc[i] = "none"
    BY <2>1, <2>2 DEF SlotInv, TypeOK, Stages, Serving, Ending
  <2>6. CASE UNCHANGED <<slotVars, client_state, pc, sessions>>
    BY <2>4, <2>6, QuietTold
  <2>7. QED
    BY <2>1, <2>3, <2>4, <2>5, <2>6, StartTold
<1>2. CASE Joined
  BY <1>2, StartTold DEF Joined, TypeOK
<1>3. CASE Refuse \/ StopServer \/ DelayOver \/ StopIdle
  <2>1. UNCHANGED <<slotVars, client_state, pc, sessions, xc, told,
                    active_client_index>>
    BY <1>3 DEF Refuse, Arrive, StopServer, DelayOver, StopIdle
  <2>2. QED
    BY <2>1, QuietTold
<1>4. ASSUME NEW i \in Slots, SessionCreate(i)
      PROVE  ToldInv'
  <2>1. UNCHANGED <<slotVars, active_client_index>> /\ pc[i] = "loop"
    BY <1>4 DEF SessionCreate
  <2>2. i \in Held /\ sessions[i] = 0
    <3>1. i \in Held
      BY <2>1, ConstantsAssumption DEF SlotInv, Held, Slots, Serving
    <3>2. sessions[i] < 1 /\ sessions[i] \in 0 .. 2
      BY <1>4 DEF SessionCreate, TypeOK
    <3>3. QED
      BY <3>1, <3>2
  <2>3. /\ sessions'[i] = 1 /\ ~told'[i].main_app
        /\ client_state'[i].session_active = client_state[i].session_active
        /\ \A k \in Slots \ {i} :
             /\ client_state'[k] = client_state[k] /\ xc'[k] = xc[k]
             /\ told'[k] = told[k] /\ sessions'[k] = sessions[k] /\ pc'[k] = pc[k]
    BY <1>4, <2>2 DEF SessionCreate, Goto, TypeOK
  <2>4. Held' = Held /\ Held \subseteq Slots /\ ~client_state[i].session_active
    BY <2>1, <2>2, ToldInvIsRight DEF Held, FirstSession
  <2>5. FirstSession'
    BY <2>3, <2>4, ToldInvIsRight DEF FirstSession
  <2>6. ToldRight(i, client_state'[i], active_client_index', told'[i])
    BY <2>3, <2>4 DEF ToldRight
  <2>7. QED
    BY <2>1, <2>3, <2>4, <2>5, <2>6, ToldInvIsRight
<1>5. ASSUME NEW i \in Slots, SessionCreated(i)
      PROVE  ToldInv'
  <2>1. UNCHANGED <<slotVars, active_client_index, client_state, sessions, xc>>
        /\ pc[i] = "creating"
    BY <1>5 DEF SessionCreated
  <2>2. /\ told'[i].main_app = told[i].main_app /\ pc'[i] = "loop"
        /\ \A k \in Slots \ {i} : told'[k] = told[k] /\ pc'[k] = pc[k]
    BY <1>5 DEF SessionCreated, Goto, TypeOK
  <2>3. Held' = Held /\ Held \subseteq Slots
    BY <2>1 DEF Held
  <2>4. FirstSession'
    BY <2>1, <2>2, <2>3, ToldInvIsRight DEF FirstSession
  <2>5. i \in Held => ~client_state[i].session_active
    BY <2>1, ToldInvIsRight DEF FirstSession
  <2>6. ASSUME NEW k \in Held, xc[k] = "live"
        PROVE  ToldRight(k, client_state[k], active_client_index, told'[k])
    BY <2>2, <2>3, <2>5, <2>6, ToldInvIsRight DEF ToldRight
  <2>7. QED
    BY <2>1, <2>3, <2>4, <2>6, ToldInvIsRight
<1>6. ASSUME NEW i \in Slots,
             PredictFrame(i) \/ SessionDestroy(i) \/ FreeCompositor(i)
               \/ SessionDestroyed(i) \/ ReleaseObjects(i) \/ Released(i)
               \/ IdleExit(i)
      PROVE  ToldInv'
  <2>1. UNCHANGED <<slotVars, client_state, told, active_client_index, sessions>>
    BY <1>6 DEF PredictFrame, SessionDestroy, FreeCompositor, SessionDestroyed,
                ReleaseObjects, Released, IdleExit
  <2>2. \A k \in Slots : /\ xc'[k] = "live" => xc[k] = "live"
                         /\ pc'[k] = "creating" => pc[k] = "creating"
    BY <1>6 DEF PredictFrame, SessionDestroy, FreeCompositor, SessionDestroyed,
                ReleaseObjects, Released, IdleExit, Goto, TypeOK
  <2>3. QED
    BY <2>1, <2>2, QuietTold DEF Held
<1>7. ASSUME NEW i \in Slots, NEW j \in Slots, SetPrimaryClient(i, j)
      PROVE  ToldInv'
  <2>1. client_state \in [Slots -> Client] /\ SetActiveClient(client_state, j)
    BY <1>7 DEF SetPrimaryClient, TypeOK, Client
  <2>2. UNCHANGED <<slotVars, sessions, xc, pc>> /\ Held' = Held /\ Held \subseteq Slots
    BY <1>7 DEF SetPrimaryClient, Held
  <2>3. Chosen(client_state)
    BY <2>1, SetActiveKeeps
  <2>4. FirstSession'
    BY <2>2, <2>3, ToldInvIsRight DEF FirstSession, Chosen
  <2>5. server_thread_index[j] = j /\ j \in Index /\ j # None
    BY <1>7, ConstantsAssumption DEF SetPrimaryClient, SlotInv, Index, Slots, None
  <2>6. CASE j = active_client_index
    <3>1. UNCHANGED <<client_state, active_client_index, told>>
      BY <2>1, <2>5, <2>6 DEF SetActiveClient
    <3>2. QED
      BY <2>2, <2>4, <3>1, ToldInvIsRight
  <2>7. CASE j # active_client_index
    <3>1. UpdateServerState(client_state, j)
      BY <2>1, <2>5, <2>7 DEF SetActiveClient
    <3>2. \A k \in Held : xc[k] = "live" =>
            ToldRight(k, client_state'[k], active_client_index', told'[k])
      BY <2>1, <2>5, <3>1, UpdateTells
    <3>3. QED
      BY <2>2, <2>4, <3>2, ToldInvIsRight
  <2>8. QED
    BY <2>6, <2>7
<1>8. ASSUME NEW i \in Slots, ActivateSession(i)
      PROVE  ToldInv'
  <2> DEFINE clients == [client_state EXCEPT ![i].session_active = TRUE]
  <2>1. i \in Held /\ xc[i] = "live" /\ pc[i] = "activating"
    BY <1>8, ConstantsAssumption
       DEF ActivateSession, SlotInv, CompositorInv, Held, Slots, Serving
  <2>2. /\ \A k \in Slots \ {i} : clients[k] = client_state[k]
        /\ clients[i] = [client_state[i] EXCEPT !.session_active = TRUE]
    BY DEF TypeOK
  <2>3. clients[i].session_active
        /\ clients[i].session_overlay = client_state[i].session_overlay
    BY DEF TypeOK
  <2>4. clients \in [Slots -> Client] /\ Chosen(clients)
    BY <1>8, ActivateChosen
  <2>5. UNCHANGED <<slotVars, sessions, xc>> /\ Held' = Held /\ Held \subseteq Slots
        /\ pc'[i] = "loop" /\ \A k \in Slots \ {i} : pc'[k] = pc[k]
    BY <1>8 DEF ActivateSession, Goto, Held, TypeOK
  <2>6. \/ /\ Tell({i}, clients, active_client_index, last_active_client_index)
           /\ UNCHANGED <<active_client_index, last_active_client_index>>
        \/ SetActiveClient(clients, i)
    BY <1>8 DEF ActivateSession
  <2>7. i = active_client_index => client_state[i].session_active
    BY <2>1, ConstantsAssumption
       DEF PrimaryInv, PrimaryIsActive, Mains, Leaving, None, Slots
  <2>8. i = active_client_index => clients = client_state
    <3>1. client_state[i].session_active => clients[i] = client_state[i]
      BY <2>2 DEF TypeOK
    <3>2. QED
      BY <2>2, <2>4, <2>7, <3>1 DEF TypeOK
  <2> HIDE DEF clients
  <2>9. FirstSession'
    BY <2>1, <2>2, <2>4, <2>5, ToldInvIsRight DEF FirstSession, Chosen
  <2>10. /\ active_client_index = last_active_client_index
         /\ active_client_index \in Index /\ i \in Index
         /\ server_thread_index[i] = i /\ i # None
    BY <2>1, ConstantsAssumption DEF PrimaryInv, TypeOK, Index, SlotInv, Held, Slots, None
  <2>11. CASE /\ Tell({i}, clients, active_client_index, last_active_client_index)
              /\ UNCHANGED <<active_client_index, last_active_client_index>>
    <3>1. ToldRight(i, client_state[i], active_client_index, told[i])
      BY <2>1, ToldInvIsRight
    <3>2. ToldRight(i, client_state'[i], active_client_index, told'[i])
      BY <2>1, <2>3, <2>4, <2>5, <2>10, <2>11, <3>1, TellTells DEF ToldRight
    <3>3. \A k \in Slots \ {i} : told'[k] = told[k] /\ client_state'[k] = clients[k]
      BY <2>11 DEF Tell
    <3>4. QED
      BY <2>2, <2>5, <2>9, <2>11, <3>2, <3>3, ToldInvIsRight
  <2>12. CASE SetActiveClient(clients, i) /\ i = active_client_index
    <3>1. UNCHANGED <<client_state, active_client_index, told>>
      BY <2>8, <2>10, <2>12 DEF SetActiveClient
    <3>2. QED
      BY <2>5, <2>9, <3>1, ToldInvIsRight
  <2>13. CASE SetActiveClient(clients, i) /\ i # active_client_index
    <3>1. UpdateServerState(clients, i)
      BY <2>10, <2>13 DEF SetActiveClient
    <3>2. \A k \in Held : clients[k].session_overlay = client_state[k].session_overlay
      BY <2>2, <2>3, <2>5
    <3>3. \A k \in Held : xc[k] = "live" =>
            ToldRight(k, client_state'[k], active_client_index', told'[k])
      BY <2>4, <2>10, <2>13, <3>1, <3>2, UpdateTells
    <3>4. QED
      BY <2>5, <2>9, <3>3, ToldInvIsRight
  <2>14. QED
    BY <2>6, <2>11, <2>12, <2>13
<1>9. ASSUME NEW i \in Slots, Disconnect(i)
      PROVE  ToldInv'
  <2>1. i \notin Held' /\ Held' \subseteq Held /\ Held' \subseteq Slots
    BY <1>9 DEF Disconnect, Held, TypeOK, None
  <2>2. /\ UNCHANGED <<xc, told, active_client_index, sessions>>
        /\ \A k \in Slots \ {i} : client_state'[k] = client_state[k] /\ pc'[k] = pc[k]
    BY <1>9 DEF Disconnect, Goto, TypeOK
  <2>3. FirstSession'
    BY <2>1, <2>2, ToldInvIsRight DEF FirstSession
  <2>4. QED
    BY <2>1, <2>2, <2>3, ToldInvIsRight
<1>10. ASSUME NEW i \in Slots, DeactivateSession(i)
       PROVE  ToldInv'
  <2> DEFINE clients == [client_state EXCEPT ![i].session_active = FALSE]
  <2>1. /\ \A k \in Slots \ {i} : clients[k] = client_state[k]
        /\ ~clients[i].session_active
    BY DEF TypeOK
  <2>2. clients \in [Slots -> Client] /\ Chosen(clients)
    BY <1>10, DeactivateChosen
  <2>3. UpdateServerState(clients, active_client_index) /\ pc[i] = "deactivating"
        /\ UNCHANGED <<slotVars, sessions, xc>> /\ pc' = [pc EXCEPT ![i] = "done"]
    BY <1>10 DEF DeactivateSession, Goto
  <2> HIDE DEF clients
  <2>4. i \notin Held
    BY <2>3 DEF SlotInv, Serving, Held, None
  <2>5. \A k \in Held : k \in Slots /\ clients[k] = client_state[k]
    BY <2>1, <2>4 DEF Held
  <2>6. active_client_index \in Index /\ Held' = Held
    BY <2>3 DEF TypeOK, Index, Held
  <2>7. FirstSession'
    BY <2>2, <2>3, <2>4, <2>5, <2>6, ToldInvIsRight DEF FirstSession, Chosen, TypeOK
  <2>8. \A k \in Held : xc[k] = "live" =>
          ToldRight(k, client_state'[k], active_client_index', told'[k])
    BY <2>2, <2>3, <2>5, <2>6, UpdateTells
  <2>9. QED
    BY <2>3, <2>6, <2>7, <2>8, ToldInvIsRight
<1>11. QED
  BY <1>1, <1>2, <1>3, <1>4, <1>5, <1>6, <1>7, <1>8, <1>9, <1>10
     DEF Next, Main, Dispatch, Carry

-----------------------------------------------------------------------------
(* Theorems. *)

\* What every reachable state satisfies.
ServerInv == TypeOK /\ SlotInv /\ CompositorInv /\ CountInv /\ PrimaryInv

LEMMA CountInit == Init => CountInv
<1>1. Init => Held = {}
  BY ConstantsAssumption DEF Init, Held, None
<1>2. QED
  BY <1>1, CountOfHeld, FS_EmptySet DEF Init, CountInv

(* Types, slots, compositors, the count and the primary application: for any  *)
(* number of slots and connections, in every reachable state.                 *)
THEOREM ServerInvariant == Spec => []ServerInv
<1>1. Init => ServerInv
  BY InitHolds, CountInit DEF ServerInv
<1>2. ServerInv /\ [Next]_vars => ServerInv'
  <2>1. ASSUME ServerInv, Next PROVE ServerInv'
    BY <2>1, TypeStep, SlotStep, CompositorStep, CountStep, PrimaryStep DEF ServerInv
  <2>2. ASSUME ServerInv, UNCHANGED vars PROVE ServerInv'
    <3> USE <2>2 DEF vars, globalVars, slotVars, shownVars, threadVars, mainVars,
                     timerVars
    <3>1. TypeOK' /\ SlotInv' /\ CompositorInv'
      BY DEF ServerInv, TypeOK, SlotInv, CompositorInv
    <3>2. Held' = Held /\ (Mains(client_state))' = Mains(client_state)
          /\ Leaving' = Leaving
      BY DEF Held, Mains, Leaving
    <3>3. CountInv'
      BY <3>2, CountOfHeld, CountOfHeldNext DEF ServerInv, CountInv
    <3>4. PrimaryInv'
      BY <3>2 DEF ServerInv, PrimaryInv, PrimaryIsActive
    <3>5. QED
      BY <3>1, <3>3, <3>4 DEF ServerInv
  <2>3. QED
    BY <2>1, <2>2
<1>3. QED
  BY <1>1, <1>2, PTL DEF Spec

(* connected_client_count is the number of connections that hold a slot, wait *)
(* for one or were turned away (ipc_server_process.c, common_shutdown).       *)
THEOREM CountIsRight == Spec => []CountIsConnections
BY ServerInvariant, PTL DEF ServerInv, CountInv

(* update_server_state_locked: the primary application is an active session   *)
(* that is no overlay, whatever order clients come, go and are chosen in.     *)
THEOREM PrimaryIsRight == Spec => []PrimaryIsActive
BY ServerInvariant, PTL DEF ServerInv, PrimaryInv

(* The thread of a slot has ended before the slot is given out again.         *)
THEOREM SlotsAreExclusive == Spec => OneThreadPerSlot
<1>1. ServerInv /\ [Next]_vars =>
        [\A i \in Slots :
           server_thread_index[i] < 0 /\ server_thread_index'[i] >= 0
             => pc[i] \in {"none", "done"}]_vars
  <2>1. SUFFICES ASSUME ServerInv, Next, NEW i \in Slots,
                        server_thread_index[i] < 0, server_thread_index'[i] >= 0
                 PROVE  pc[i] \in {"none", "done"}
    BY DEF vars, slotVars
  <2>2. server_thread_index[i] = None /\ server_thread_index'[i] # None
        /\ i # None
    BY <2>1, ConstantsAssumption DEF ServerInv, SlotInv, Slots, None
  <2>3. CASE Connect
    <3>1. state[i] = "READY" /\ server_thread_index[i] # i
      <4>1. FreeSlots # {} /\ Lowest(FreeSlots) \in Slots
        BY <2>3, LowestAndHighest DEF Connect, FreeSlots
      <4>2. Lowest(FreeSlots) # i => server_thread_index'[i] = server_thread_index[i]
        BY <2>1, <2>3, <4>1 DEF Connect, StartClient, slotVars, ServerInv, TypeOK
      <4>3. QED
        BY <2>2, <2>3, <4>2 DEF Connect, slotVars
    <3>2. pc[i] \notin Ending /\ pc[i] \notin Serving
      BY <2>1, <3>1 DEF ServerInv, SlotInv
    <3>3. pc[i] \in Stages
      BY <2>1 DEF ServerInv, TypeOK
    <3>4. QED
      BY <3>2, <3>3 DEF Stages, Serving, Ending
  <2>4. CASE Joined
    BY <2>1, <2>2, <2>4 DEF Joined, StartClient, ServerInv, TypeOK
  <2>5. CASE Refuse \/ StopServer \/ DelayOver \/ StopIdle
    BY <2>2, <2>5 DEF Refuse, StopServer, DelayOver, StopIdle, slotVars
  <2>6. ASSUME NEW n \in Slots, Dispatch(n) \/ Carry(n) PROVE FALSE
    <3>1. UNCHANGED server_thread_index
      BY <2>6 DEF Dispatch, SessionCreate, PredictFrame, SessionDestroy,
                  SetPrimaryClient, Carry, SessionCreated, ActivateSession,
                  FreeCompositor, SessionDestroyed, ReleaseObjects, Released,
                  IdleExit, DeactivateSession, slotVars
    <3>2. QED
      BY <2>2, <3>1
  <2>7. ASSUME NEW n \in Slots, Disconnect(n) PROVE FALSE
    BY <2>1, <2>2, <2>7 DEF Disconnect, ServerInv, TypeOK
  <2>8. QED
    BY <2>1, <2>3, <2>4, <2>5, <2>6, <2>7 DEF Next, Main
<1>2. QED
  BY <1>1, ServerInvariant, PTL DEF Spec, OneThreadPerSlot

(* When no client creates a second session, the compositor of every active    *)
(* session has been told to show what the server state says.                  *)
THEOREM ToldIsRight == ASSUME ~Recreate PROVE Spec => []ToldIsState
<1>1. Init => ToldInv
  BY InitHolds
<1>2. ServerInv /\ ToldInv /\ [Next]_vars => ToldInv'
  <2>1. ASSUME ServerInv, ToldInv, Next PROVE ToldInv'
    BY <2>1, ToldStep DEF ServerInv
  <2>2. ASSUME ToldInv, UNCHANGED vars PROVE ToldInv'
    BY <2>2, QuietTold DEF vars, globalVars, slotVars, shownVars, threadVars
  <2>3. QED
    BY <2>1, <2>2
<1>3. ToldInv => ToldIsState
  BY DEF ToldInv
<1>4. QED
  BY <1>1, <1>2, <1>3, ServerInvariant, PTL DEF Spec
=============================================================================
