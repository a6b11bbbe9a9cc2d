------------------------------ MODULE IpcServer ------------------------------
(***************************************************************************)
(* The service that runs the compositor for other processes                *)
(* (src/monado/src/xrt/ipc/server): the main loop gives each connection a  *)
(* slot with a thread of its own, a thread serves the calls of its client  *)
(* and clears up after it, and together they decide, under one lock, which *)
(* client is the primary application and what the compositor of each       *)
(* client is told to show.                                                 *)
(*                                                                         *)
(* A critical section of global_state.lock is one step, but for the one    *)
(* that waits inside it for a thread to end.  What the calls do to the     *)
(* compositor of the client is MultiCompositor's; spaces, swapchains and   *)
(* inputs only pass through.  Visible and focused are always set together  *)
(* and are one field.                                                      *)
(***************************************************************************)
EXTENDS Integers, FiniteSets

CONSTANTS
  IPC_MAX_CLIENTS, \* size of s->threads
  MaxConnections,  \* bound: connections made to the server
  Recreate,        \* BOOLEAN: a client may create a session after its first
  ShmMayFail,      \* BOOLEAN: the shared memory of a client may not be had
  ExitOnDisconnect,
  ExitWhenIdle

ASSUME ConstantsAssumption ==
  /\ IPC_MAX_CLIENTS \in Nat
  /\ MaxConnections \in Nat
  /\ {Recreate, ShmMayFail, ExitOnDisconnect, ExitWhenIdle} \subseteq BOOLEAN

VARIABLES
  running,
  joining,                   \* slot whose old thread is joined under the lock
  connected_client_count,
  active_client_index,
  last_active_client_index,
  last_client_disconnect_ns, \* whether it is set
  state,                     \* it->state of each slot
  server_thread_index,       \* of each slot
  client_state,              \* of each slot
  xc,                        \* compositor of each slot
  told,                      \* what that compositor was last told
  pc,                        \* where the thread of each slot is
  read,                      \* session_visible as session_create read it
  kind,                      \* the client of a slot is an overlay application
  sessions,                  \* sessions the client of a slot created
  arrivals, refused,         \* connections made, and turned away
  timers, deciding,          \* delayed_exit_threads: asleep, about to stop
  usedFreed                  \* a freed compositor was called

globalVars == <<connected_client_count, active_client_index,
                last_active_client_index, last_client_disconnect_ns>>
slotVars == <<state, server_thread_index, kind>>
shownVars == <<client_state, told, usedFreed>>
threadVars == <<pc, read, sessions>>
mainVars == <<joining, arrivals, refused>>
timerVars == <<timers, deciding>>
vars == <<running, globalVars, slotVars, shownVars, threadVars, mainVars,
          timerVars, xc>>

None == -1
Slots == 0 .. IPC_MAX_CLIENTS - 1

NoClient == [id |-> 0, session_overlay |-> FALSE, session_active |-> FALSE,
             session_visible |-> FALSE]

Stages == {"none", "loop", "creating", "activating", "destroying", "freeing",
           "closing", "closing_freeing", "released", "idle_exit",
           "deactivating", "done"}

TypeOK ==
  /\ running \in BOOLEAN
  /\ joining \in Slots \union {None}
  /\ connected_client_count \in 0 .. MaxConnections
  /\ active_client_index \in Slots \union {None}
  /\ last_active_client_index \in Slots \union {None}
  /\ last_client_disconnect_ns \in BOOLEAN
  /\ state \in [Slots -> {"READY", "STARTING", "STOPPING"}]
  /\ server_thread_index \in [Slots -> Slots \union {None}]
  /\ client_state \in [Slots -> [id : 0 .. MaxConnections,
                                 session_overlay : BOOLEAN,
                                 session_active : BOOLEAN,
                                 session_visible : BOOLEAN]]
  /\ xc \in [Slots -> {"null", "live", "freed"}]
  /\ told \in [Slots -> [visible : BOOLEAN, main_app : BOOLEAN]]
  /\ pc \in [Slots -> Stages]
  /\ read \in [Slots -> BOOLEAN]
  /\ kind \in [Slots -> BOOLEAN]
  /\ sessions \in [Slots -> 0 .. 2]
  /\ arrivals \in 0 .. MaxConnections /\ refused \in 0 .. MaxConnections
  /\ timers \in Nat /\ deciding \in Nat
  /\ usedFreed \in BOOLEAN

\* init_server_state
Init ==
  /\ running = TRUE /\ joining = None
  /\ connected_client_count = 0
  /\ active_client_index = None /\ last_active_client_index = None
  /\ last_client_disconnect_ns = FALSE
  /\ state = [i \in Slots |-> "READY"]
  /\ server_thread_index = [i \in Slots |-> None]
  /\ client_state = [i \in Slots |-> NoClient]
  /\ xc = [i \in Slots |-> "null"]
  /\ told = [i \in Slots |-> [visible |-> FALSE, main_app |-> FALSE]]
  /\ pc = [i \in Slots |-> "none"]
  /\ read = [i \in Slots |-> FALSE]
  /\ kind = [i \in Slots |-> FALSE]
  /\ sessions = [i \in Slots |-> 0]
  /\ arrivals = 0 /\ refused = 0
  /\ timers = 0 /\ deciding = 0
  /\ usedFreed = FALSE

\* global_state.lock is free: only the main loop keeps it over a step.
Unlocked == joining = None

-----------------------------------------------------------------------------
(* Which client is the primary application, and telling all of them. *)

\* Active sessions of main applications among `clients'.
Mains(clients) ==
  {i \in Slots : /\ server_thread_index[i] >= 0
                 /\ clients[i].session_active
                 /\ ~clients[i].session_overlay}

\* handle_focused_client_events
Shown(client, i, active) == i = active \/ client.session_overlay

\* Mutant of MainAppVisible: an overlay is not told that the last one left.
MainAppStaysVisible(client, old, active, last) ==
  IF client.session_overlay /\ active >= 0 THEN TRUE ELSE old

\* handle_overlay_client_events: the last thing it tells, if anything.
MainAppVisible(client, old, active, last) ==
  IF client.session_overlay /\ (active >= 0 \/ last >= 0)
  THEN active >= 0
  ELSE old

\* Mutant of Tell: each client is told what it was before.
TellLast(S, clients, active, last) ==
  /\ client_state' =
       [i \in Slots |-> IF i \in S
                        THEN [clients[i] EXCEPT !.session_visible =
                                Shown(clients[i], i, active)]
                        ELSE clients[i]]
  /\ told' =
       [i \in Slots |-> IF i \in S /\ xc[i] # "null"
                        THEN [visible |-> Shown(clients[i], i, last),
                              main_app |-> MainAppVisible(clients[i],
                                             told[i].main_app, active, last)]
                        ELSE told[i]]
  /\ usedFreed' = (usedFreed \/ \E i \in S : xc[i] = "freed")

\* Both handlers, for the clients of the slots S.
Tell(S, clients, active, last) ==
  /\ client_state' =
       [i \in Slots |-> IF i \in S
                        THEN [clients[i] EXCEPT !.session_visible =
                                Shown(clients[i], i, active)]
                        ELSE clients[i]]
  /\ told' =
       [i \in Slots |-> IF i \in S /\ xc[i] # "null"
                        THEN [visible |-> Shown(clients[i], i, active),
                              main_app |-> MainAppVisible(clients[i],
                                             told[i].main_app, active, last)]
                        ELSE told[i]]
  /\ usedFreed' = (usedFreed \/ \E i \in S : xc[i] = "freed")

Highest(S) == CHOOSE i \in S : \A j \in S : j <= i
Lowest(S) == CHOOSE i \in S : \A j \in S : i <= j

\* Mutant of NextPrimary: only a client that never was active falls back.
NextPrimaryKeeping(clients, active) ==
  IF Mains(clients) = {} THEN None ELSE active

\* The choice of update_server_state_locked.
NextPrimary(clients, active) ==
  CASE Mains(clients) = {} -> None
    [] Mains(clients) # {} /\ active >= 0
         /\ ~(clients[active].session_active
                /\ ~clients[active].session_overlay) ->
         Highest(Mains(clients))
    [] OTHER -> active

\* update_server_state_locked, entered with these fields.
UpdateServerState(clients, active) ==
  IF active >= 0 /\ clients[active].session_active
       /\ active = last_active_client_index
  THEN /\ client_state' = clients /\ active_client_index' = active
       /\ UNCHANGED <<last_active_client_index, told, usedFreed>>
  ELSE /\ active_client_index' = NextPrimary(clients, active)
       /\ Tell({i \in Slots : server_thread_index[i] >= 0}, clients,
               active_client_index', last_active_client_index)
       /\ last_active_client_index' = active_client_index'

\* set_active_client_locked for a client that find_client_locked finds.
SetActiveClient(clients, i) ==
  IF server_thread_index[i] # active_client_index
  THEN UpdateServerState(clients, server_thread_index[i])
  ELSE /\ client_state' = clients
       /\ UNCHANGED <<active_client_index, last_active_client_index, told,
                      usedFreed>>

-----------------------------------------------------------------------------
(* The main loop. *)

\* The rest of ipc_server_handle_client_connected, once the slot is ready.
StartClient(i) ==
  /\ server_thread_index' = [server_thread_index EXCEPT ![i] = i]
  /\ client_state' = [client_state EXCEPT ![i] = [NoClient EXCEPT !.id = arrivals']]
  /\ sessions' = [sessions EXCEPT ![i] = 0]
  /\ \E overlay \in BOOLEAN : kind' = [kind EXCEPT ![i] = overlay]
  /\ state' = [state EXCEPT ![i] = "STARTING"]
  /\ \/ pc' = [pc EXCEPT ![i] = "loop"]
     \/ ShmMayFail /\ pc' = [pc EXCEPT ![i] = "none"]

FreeSlots == {i \in Slots : server_thread_index[i] < 0}

\* A connection before its slot is chosen.
Arrive ==
  /\ running /\ Unlocked
  /\ arrivals < MaxConnections
  /\ arrivals' = arrivals + 1
  /\ connected_client_count' = connected_client_count + 1
  /\ last_client_disconnect_ns' = FALSE
  /\ UNCHANGED <<running, active_client_index, last_active_client_index,
                 timerVars, xc, told, read, usedFreed>>

\* "Max client count reached!"
Refuse ==
  /\ Arrive
  /\ FreeSlots = {}
  /\ refused' = refused + 1
  /\ UNCHANGED <<joining, slotVars, client_state, pc, sessions>>

\* Mutant of Connect: the thread that had the slot is not joined.
ConnectWithoutJoin ==
  /\ Arrive
  /\ FreeSlots # {}
  /\ StartClient(Lowest(FreeSlots))
  /\ UNCHANGED <<joining, refused>>

\* The lowest free slot, whose old thread must have ended.
Connect ==
  /\ Arrive
  /\ FreeSlots # {}
  /\ LET i == Lowest(FreeSlots)
     IN  \/ /\ state[i] = "READY"
            /\ StartClient(i)
            /\ UNCHANGED joining
         \/ /\ state[i] = "STOPPING"
            /\ joining' = i
            /\ UNCHANGED <<slotVars, client_state, pc, sessions>>
  /\ UNCHANGED refused

\* os_thread_join returns, still under the lock.
Joined ==
  /\ joining # None
  /\ pc[joining] = "done"
  /\ UNCHANGED arrivals
  /\ StartClient(joining)
  /\ joining' = None
  /\ UNCHANGED <<running, globalVars, timerVars, xc, told, read, usedFreed,
                 refused>>

\* Data on stdin, or a failure of the main loop.
StopServer ==
  /\ running /\ Unlocked
  /\ running' = FALSE
  /\ UNCHANGED <<globalVars, slotVars, shownVars, threadVars, mainVars,
                 timerVars, xc>>

-----------------------------------------------------------------------------
(* The thread of a client: the calls it dispatches. *)

Goto(i, stage) == pc' = [pc EXCEPT ![i] = stage]

\* ipc_handle_session_create up to the reading of session_visible.
SessionCreate(i) ==
  /\ running
  /\ pc[i] = "loop" /\ xc[i] = "null"
  /\ sessions[i] < IF Recreate THEN 2 ELSE 1
  /\ sessions' = [sessions EXCEPT ![i] = @ + 1]
  /\ client_state' = [client_state EXCEPT ![i].session_overlay = kind[i]]
  /\ xc' = [xc EXCEPT ![i] = "live"]
  /\ told' = [told EXCEPT ![i] = [visible |-> FALSE, main_app |-> FALSE]]
  /\ read' = [read EXCEPT ![i] = client_state[i].session_visible]
  /\ Goto(i, "creating")
  /\ UNCHANGED <<running, globalVars, slotVars, mainVars, timerVars, usedFreed>>

\* xrt_syscomp_set_state with what was read.
SessionCreated(i) ==
  /\ pc[i] = "creating"
  /\ told' = [told EXCEPT ![i].visible = read[i]]
  /\ Goto(i, "loop")
  /\ UNCHANGED <<running, globalVars, slotVars, mainVars, timerVars, xc, read,
                 sessions, client_state, usedFreed>>

\* ipc_handle_compositor_predict_frame for a session that is not active yet;
\* for one that is, it changes nothing here.
PredictFrame(i) ==
  /\ running
  /\ pc[i] = "loop" /\ xc[i] = "live"
  /\ ~client_state[i].session_active
  /\ Goto(i, "activating")
  /\ UNCHANGED <<running, globalVars, slotVars, shownVars, mainVars, timerVars,
                 xc, read, sessions>>

\* The critical section of ipc_server_activate_session.
ActivateSession(i) ==
  LET clients == [client_state EXCEPT ![i].session_active = TRUE]
  IN  /\ pc[i] = "activating" /\ Unlocked
      /\ \/ /\ clients[i].session_overlay
            /\ Tell({i}, clients, active_client_index, last_active_client_index)
            /\ UNCHANGED <<active_client_index, last_active_client_index>>
         \/ /\ ~clients[i].session_overlay
            /\ SetActiveClient(clients, i)
      /\ Goto(i, "loop")
      /\ UNCHANGED <<running, connected_client_count, last_client_disconnect_ns,
                     slotVars, mainVars, timerVars, xc, read, sessions>>

\* ipc_handle_system_set_primary_client, which any client may call.
SetPrimaryClient(i, j) ==
  /\ running
  /\ pc[i] = "loop" /\ Unlocked
  /\ client_state[j].id # 0
  /\ SetActiveClient(client_state, j)
  /\ UNCHANGED <<running, connected_client_count, last_client_disconnect_ns,
                 slotVars, mainVars, timerVars, xc, threadVars>>

\* ipc_handle_session_destroy: the critical section of
\* ipc_server_client_destroy_session_and_compositor.
SessionDestroy(i) ==
  /\ running
  /\ pc[i] = "loop" /\ xc[i] = "live" /\ Unlocked
  /\ Goto(i, "destroying")
  /\ UNCHANGED <<running, globalVars, slotVars, shownVars, mainVars, timerVars,
                 xc, read, sessions>>

\* xc->destroy(xc)
FreeCompositor(i) ==
  /\ pc[i] \in {"destroying", "closing_freeing"}
  /\ xc' = [xc EXCEPT ![i] = IF @ = "live" THEN "freed" ELSE @]
  /\ Goto(i, IF pc[i] = "destroying" THEN "freeing" ELSE "released")
  /\ UNCHANGED <<running, globalVars, slotVars, shownVars, mainVars, timerVars,
                 read, sessions>>

\* *xc_ptr = NULL
SessionDestroyed(i) ==
  /\ pc[i] = "freeing"
  /\ xc' = [xc EXCEPT ![i] = "null"]
  /\ Goto(i, "loop")
  /\ UNCHANGED <<running, globalVars, slotVars, shownVars, mainVars, timerVars,
                 read, sessions>>

-----------------------------------------------------------------------------
(* The thread of a client: common_shutdown. *)

\* Mutant of Disconnect: the client is not taken off the count.
DisconnectUncounted(i) ==
  /\ pc[i] = "loop" /\ Unlocked
  /\ state' = [state EXCEPT ![i] = "STOPPING"]
  /\ server_thread_index' = [server_thread_index EXCEPT ![i] = None]
  /\ client_state' = [client_state EXCEPT ![i] = NoClient]
  /\ Goto(i, "closing")
  /\ UNCHANGED <<running, globalVars, kind, mainVars, timerVars, xc, told,
                 usedFreed, read, sessions>>

\* The client hung up, sent what cannot be read, or the server stops.
Disconnect(i) ==
  /\ pc[i] = "loop" /\ Unlocked
  /\ state' = [state EXCEPT ![i] = "STOPPING"]
  /\ server_thread_index' = [server_thread_index EXCEPT ![i] = None]
  /\ client_state' = [client_state EXCEPT ![i] = NoClient]
  /\ connected_client_count' = connected_client_count - 1
  /\ Goto(i, "closing")
  /\ UNCHANGED <<running, active_client_index, last_active_client_index,
                 last_client_disconnect_ns, kind, mainVars, timerVars, xc, told,
                 usedFreed, read, sessions>>

\* The critical section of ipc_server_client_destroy_session_and_compositor.
ReleaseObjects(i) ==
  /\ pc[i] = "closing" /\ Unlocked
  /\ Goto(i, "closing_freeing")
  /\ UNCHANGED <<running, globalVars, slotVars, shownVars, mainVars, timerVars,
                 xc, read, sessions>>

\* The compositor is gone; spaces, use counts and the rest are let go of.
Released(i) ==
  /\ pc[i] = "released"
  /\ xc' = [xc EXCEPT ![i] = "null"]
  /\ running' = (running /\ ~ExitOnDisconnect)
  /\ Goto(i, "idle_exit")
  /\ UNCHANGED <<globalVars, slotVars, shownVars, mainVars, timerVars, read,
                 sessions>>

\* Mutant of IdleExit: the time of the disconnect is not noted.
IdleExitUnnoted(i) ==
  /\ pc[i] = "idle_exit"
  /\ IF ExitWhenIdle /\ connected_client_count = 0
     THEN timers' = timers + 1
     ELSE UNCHANGED timers
  /\ Goto(i, "deactivating")
  /\ UNCHANGED <<running, globalVars, slotVars, shownVars, mainVars, deciding,
                 xc, read, sessions>>

\* Starts delayed_exit_thread if this was the last client; without the lock.
IdleExit(i) ==
  /\ pc[i] = "idle_exit"
  /\ IF ExitWhenIdle /\ connected_client_count = 0
     THEN timers' = timers + 1 /\ last_client_disconnect_ns' = TRUE
     ELSE UNCHANGED <<timers, last_client_disconnect_ns>>
  /\ Goto(i, "deactivating")
  /\ UNCHANGED <<running, connected_client_count, active_client_index,
                 last_active_client_index, slotVars, shownVars, mainVars,
                 deciding, xc, read, sessions>>

\* ipc_server_deactivate_session, after which the thread ends.
DeactivateSession(i) ==
  /\ pc[i] = "deactivating" /\ Unlocked
  /\ UpdateServerState([client_state EXCEPT ![i].session_active = FALSE],
                       active_client_index)
  /\ Goto(i, "done")
  /\ UNCHANGED <<running, connected_client_count, last_client_disconnect_ns,
                 slotVars, mainVars, timerVars, xc, read, sessions>>

-----------------------------------------------------------------------------
(* delayed_exit_thread *)

DelayOver ==
  /\ timers > 0 /\ Unlocked
  /\ timers' = timers - 1
  /\ deciding' = IF ExitWhenIdle /\ connected_client_count = 0
                      /\ last_client_disconnect_ns
                 THEN deciding + 1 ELSE deciding
  /\ UNCHANGED <<running, globalVars, slotVars, shownVars, threadVars, mainVars,
                 xc>>

StopIdle ==
  /\ deciding > 0
  /\ deciding' = deciding - 1
  /\ running' = FALSE
  /\ UNCHANGED <<globalVars, slotVars, shownVars, threadVars, mainVars, timers,
                 xc>>

-----------------------------------------------------------------------------
Main == Refuse \/ Connect \/ Joined

Dispatch(i) ==
  \/ SessionCreate(i) \/ PredictFrame(i) \/ SessionDestroy(i)
  \/ \E j \in Slots : SetPrimaryClient(i, j)

\* The rest of a call, and of common_shutdown.
Carry(i) ==
  \/ SessionCreated(i) \/ ActivateSession(i)
  \/ FreeCompositor(i) \/ SessionDestroyed(i)
  \/ ReleaseObjects(i) \/ Released(i) \/ IdleExit(i) \/ DeactivateSession(i)

Next ==
  \/ Main \/ StopServer
  \/ \E i \in Slots : Dispatch(i) \/ Carry(i) \/ Disconnect(i)
  \/ DelayOver \/ StopIdle

(* Threads in the middle of a call run on, sleeps end, joins return.  When a *)
(* client calls or leaves is up to it, except that a stopped server makes    *)
(* its threads leave.                                                        *)
Fairness ==
  /\ \A i \in Slots : WF_vars(Carry(i)) /\ WF_vars(~running /\ Disconnect(i))
  /\ WF_vars(Joined)
  /\ WF_vars(DelayOver) /\ WF_vars(StopIdle)

Spec == Init /\ [][Next]_vars
FairSpec == Spec /\ Fairness

-----------------------------------------------------------------------------
(* Properties. *)

\* Threads that have given up their slot but not yet the role of primary.
Leaving == {i \in Slots : pc[i] \in {"closing", "closing_freeing", "released",
                                     "idle_exit", "deactivating"}}

(* The primary application is one with an active session that is no overlay, *)
(* and there is one whenever there can be; only the slot of a thread that is *)
(* still clearing up may be named instead (update_server_state_locked and    *)
(* its five callers).                                                        *)
PrimaryIsActive ==
  /\ active_client_index = None => Mains(client_state) = {}
  /\ active_client_index \in Mains(client_state) \union Leaving \union {None}

(* What the compositor of an active session was told to show is what the     *)
(* server state says: overlays and the primary application are visible and   *)
(* focused, no other client is, and overlays know whether there is a primary *)
(* application.  Across connects, session calls, changes of the primary and  *)
(* disconnects of several clients that create one session each: it fails if  *)
(* a client may create another one (Recreate).                               *)
ToldIsState ==
  \A i \in Slots :
    server_thread_index[i] >= 0 /\ xc[i] = "live" /\ client_state[i].session_active
      => /\ told[i].visible <=> client_state[i].session_overlay
                                  \/ i = active_client_index
         /\ client_state[i].session_overlay =>
              (told[i].main_app <=> active_client_index # None)

(* A slot is given to a connection only when the thread that had it before   *)
(* has ended: no two threads ever run on one ipc_client_state.               *)
OneThreadPerSlot ==
  [][\A i \in Slots :
       server_thread_index[i] < 0 /\ server_thread_index'[i] >= 0
         => pc[i] \in {"none", "done"}]_vars

(* connected_client_count counts the connections that hold a slot, are about *)
(* to, or were turned away, so that the server never takes itself for idle   *)
(* while it serves a client.                                                 *)
CountIsConnections ==
  connected_client_count =
    Cardinality({i \in Slots : server_thread_index[i] >= 0})
      + refused + (IF joining = None THEN 0 ELSE 1)

\* Nobody is connected, after somebody was.
Served == {i \in Slots : server_thread_index[i] >= 0 /\ pc[i] # "none"}
Idle == arrivals > 0 /\ Served = {} /\ joining = None

\* Connections that are never taken off the count: those that found no free
\* slot, and those whose shared memory could not be had.
Miscounted ==
  refused > 0 \/ \E i \in Slots : server_thread_index[i] >= 0 /\ pc[i] = "none"

(* With IPC_EXIT_WHEN_IDLE a server that nobody is connected to any more      *)
(* stops, unless another client connects, and unless it ever turned a         *)
(* connection away or could not give it its shared memory.                    *)
IdleServerStops == ExitWhenIdle /\ Idle ~> ~running \/ ~Idle \/ Miscounted

(* "`IPC_EXIT_WHEN_IDLE` to stop the runtime when no clients are connected"   *)
(* (doc/CHANGELOG.md:191).  It fails: see Miscounted.                             *)
IdleAlwaysStops == ExitWhenIdle /\ Idle ~> ~running \/ ~Idle

(* "find the next free thread in our array (server_thread_index is -1) and    *)
(* have it handle this connection" (ipc_server_process.c:843): a connection   *)
(* that found a slot is served.                                               *)
ConnectionIsServed == joining # None ~> joining = None

(* "Multiple threads might be looking at these fields."                       *)
(* (ipc_server_per_client_thread.c:408): while one thread destroys the        *)
(* compositor of its client no other one calls it.                            *)
NoFreedCompositorUsed == ~usedFreed
=============================================================================
