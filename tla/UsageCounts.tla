----------------------------- MODULE UsageCounts -----------------------------
(***************************************************************************)
(* Who uses a feature of a device (hand, eye or face tracking).  Objects   *)
(* of an application count it in their process; the first and the last of  *)
(* them tell the service, which keeps a flag for each client and a count   *)
(* of its own; the first and the last client begin and end the feature     *)
(* (ipc_client_system_devices.c, ipc_server_handler.c,                     *)
(* u_system_helpers.c).  Every count is atomic, but what follows from it   *)
(* is done after it, and only the calls of one client keep an order.  The  *)
(* use of reference spaces is counted in the same way.                     *)
(***************************************************************************)
EXTENDS Integers, FiniteSets

CONSTANTS
  Clients,  \* slots of the service
  Objects   \* objects of each application that use the feature

ConstantsAssumption == IsFiniteSet(Clients) /\ IsFiniteSet(Objects)

VARIABLES
  feature_use,         \* u_system_devices_static::feature_use
  device_feature_used, \* ipc_client_state::device_feature_used
  client_use,          \* ipc_client_system_devices::feature_use
  counted,             \* feature_incremented of each object
  pc,                  \* where the thread that handles each object is
  closing,             \* slots whose thread ends the feature on its way out
  begun                \* the device has the feature running

vars == <<feature_use, device_feature_used, client_use, counted, pc, closing,
          begun>>

TypeOK ==
  /\ feature_use \in Nat
  /\ device_feature_used \in [Clients -> BOOLEAN]
  /\ client_use \in [Clients -> Nat]
  /\ counted \in [Clients -> [Objects -> BOOLEAN]]
  /\ pc \in [Clients -> [Objects -> {"idle", "begin", "beginning",
                                     "end", "ending"}]]
  /\ closing \in SUBSET Clients
  /\ begun \in BOOLEAN

Idle == [o \in Objects |-> "idle"]
None == [o \in Objects |-> FALSE]

Init ==
  /\ feature_use = 0 /\ begun = FALSE /\ closing = {}
  /\ device_feature_used = [c \in Clients |-> FALSE]
  /\ client_use = [c \in Clients |-> 0]
  /\ counted = [c \in Clients |-> None]
  /\ pc = [c \in Clients |-> Idle]

\* The mutex of the connection: the service handles no call of the client.
ConnectionFree(c) ==
  c \notin closing /\ \A o \in Objects : pc[c][o] \notin {"beginning", "ending"}

Return(c, o) == pc' = [pc EXCEPT ![c][o] = "idle"]

-----------------------------------------------------------------------------
(* In the process of the application. *)

\* ipc_client_system_devices_feature_inc: only the first use goes further.
Increment(c, o) ==
  /\ c \notin closing
  /\ pc[c][o] = "idle" /\ ~counted[c][o]
  /\ client_use' = [client_use EXCEPT ![c] = @ + 1]
  /\ \/ /\ client_use[c] # 0
        /\ counted' = [counted EXCEPT ![c][o] = TRUE]
        /\ UNCHANGED pc
     \/ /\ client_use[c] = 0
        /\ pc' = [pc EXCEPT ![c][o] = "begin"]
        /\ UNCHANGED counted
  /\ UNCHANGED <<feature_use, device_feature_used, closing, begun>>

\* ipc_client_system_devices_feature_dec: only the last use goes further.
Decrement(c, o) ==
  /\ c \notin closing
  /\ pc[c][o] = "idle" /\ counted[c][o]
  /\ client_use' = [client_use EXCEPT ![c] = @ - 1]
  /\ counted' = [counted EXCEPT ![c][o] = FALSE]
  /\ pc' = [pc EXCEPT ![c][o] = IF client_use[c] = 1 THEN "end" ELSE "idle"]
  /\ UNCHANGED <<feature_use, device_feature_used, closing, begun>>

\* The call failed: oxr_space.c takes the feature as counted all the same,
\* the face trackers give up without taking their use back.
BeginFailed(c, o) ==
  /\ \E kept \in BOOLEAN : counted' = [counted EXCEPT ![c][o] = kept]
  /\ Return(c, o)

-----------------------------------------------------------------------------
(* In the thread of the client in the service. *)

\* ipc_handle_system_devices_begin_feature up to the call of the device.
BeginFeature(c, o) ==
  /\ pc[c][o] = "begin" /\ ConnectionFree(c)
  /\ \/ /\ device_feature_used[c]
        /\ BeginFailed(c, o)
        /\ UNCHANGED <<feature_use, device_feature_used>>
     \/ /\ ~device_feature_used[c] /\ feature_use = 0
        /\ feature_use' = 1
        /\ pc' = [pc EXCEPT ![c][o] = "beginning"]
        /\ UNCHANGED <<counted, device_feature_used>>
     \/ /\ ~device_feature_used[c] /\ feature_use # 0
        /\ feature_use' = feature_use + 1
        /\ device_feature_used' = [device_feature_used EXCEPT ![c] = TRUE]
        /\ counted' = [counted EXCEPT ![c][o] = TRUE]
        /\ Return(c, o)
  /\ UNCHANGED <<client_use, closing, begun>>

\* feature_inc calls xrt_device_begin_feature; the one device that has the
\* features used here (psvr2.c) cannot fail to.
DeviceBegins(c, o) ==
  /\ pc[c][o] = "beginning"
  /\ begun' = TRUE
  /\ device_feature_used' = [device_feature_used EXCEPT ![c] = TRUE]
  /\ counted' = [counted EXCEPT ![c][o] = TRUE]
  /\ Return(c, o)
  /\ UNCHANGED <<feature_use, client_use, closing>>

\* Mutant of EndFeature: the client is not checked to use the feature.
EndFeatureUnchecked(c, o) ==
  /\ pc[c][o] = "end" /\ ConnectionFree(c)
  /\ \/ /\ feature_use = 1
        /\ feature_use' = 0
        /\ pc' = [pc EXCEPT ![c][o] = "ending"]
        /\ UNCHANGED device_feature_used
     \/ /\ feature_use # 1
        /\ feature_use' = feature_use - 1
        /\ device_feature_used' = [device_feature_used EXCEPT ![c] = FALSE]
        /\ Return(c, o)
  /\ UNCHANGED <<client_use, counted, closing, begun>>

\* ipc_handle_system_devices_end_feature up to the call of the device.
EndFeature(c, o) ==
  /\ pc[c][o] = "end" /\ ConnectionFree(c)
  /\ \/ /\ ~device_feature_used[c]
        /\ Return(c, o)
        /\ UNCHANGED <<feature_use, device_feature_used>>
     \/ /\ device_feature_used[c] /\ feature_use = 1
        /\ feature_use' = 0
        /\ pc' = [pc EXCEPT ![c][o] = "ending"]
        /\ UNCHANGED device_feature_used
     \/ /\ device_feature_used[c] /\ feature_use # 1
        /\ feature_use' = feature_use - 1
        /\ device_feature_used' = [device_feature_used EXCEPT ![c] = FALSE]
        /\ Return(c, o)
  /\ UNCHANGED <<client_use, counted, closing, begun>>

\* feature_dec calls xrt_device_end_feature.
DeviceEnds(c, o) ==
  /\ pc[c][o] = "ending"
  /\ begun' = FALSE
  /\ device_feature_used' = [device_feature_used EXCEPT ![c] = FALSE]
  /\ Return(c, o)
  /\ UNCHANGED <<feature_use, client_use, counted, closing>>

\* The process of the application ends; common_shutdown takes its use back.
Disconnect(c) ==
  /\ ConnectionFree(c)
  /\ \/ client_use[c] # 0 \/ device_feature_used[c]
     \/ \E o \in Objects : counted[c][o] \/ pc[c][o] # "idle"
  /\ client_use' = [client_use EXCEPT ![c] = 0]
  /\ counted' = [counted EXCEPT ![c] = None]
  /\ pc' = [pc EXCEPT ![c] = Idle]
  /\ \/ /\ device_feature_used[c]
        /\ feature_use' = feature_use - 1
        /\ closing' = IF feature_use = 1 THEN closing \union {c} ELSE closing
     \/ ~device_feature_used[c] /\ UNCHANGED <<feature_use, closing>>
  /\ device_feature_used' = [device_feature_used EXCEPT ![c] = FALSE]
  /\ UNCHANGED begun

\* Its last xrt_device_end_feature.
ShutdownEnds(c) ==
  /\ c \in closing
  /\ begun' = FALSE
  /\ closing' = closing \ {c}
  /\ UNCHANGED <<feature_use, device_feature_used, client_use, counted, pc>>

-----------------------------------------------------------------------------
Next ==
  \E c \in Clients :
    \/ \E o \in Objects :
         \/ Increment(c, o) \/ Decrement(c, o)
         \/ BeginFeature(c, o) \/ DeviceBegins(c, o)
         \/ EndFeature(c, o) \/ DeviceEnds(c, o)
    \/ Disconnect(c) \/ ShutdownEnds(c)

Spec == Init /\ [][Next]_vars

-----------------------------------------------------------------------------
(* Properties. *)

\* Clients whose call on the device is under way.
At(stage) == {c \in Clients : \E o \in Objects : pc[c][o] = stage}

NoDeviceCall == closing \union At("beginning") \union At("ending") = {}

(* feature_use counts the clients whose flag is set, and that count alone    *)
(* decides: when nobody uses the feature and no call is under way the device *)
(* has it ended, whatever calls of several clients, of several threads of    *)
(* one client and disconnects went before, and whatever of them was refused. *)
UnusedIsEnded ==
  /\ feature_use = Cardinality({c \in Clients : device_feature_used[c]}
                                 \ At("ending"))
                     + Cardinality(At("beginning"))
  /\ feature_use = 0 /\ NoDeviceCall => ~begun

(* "When the feature is used for the first time, then the feature will be    *)
(* begun." and it is ended "When the feature is not used by the current      *)
(* application any more" (xrt_system.h:325 and 334): while a client uses it  *)
(* and no call is under way, it is begun.                                    *)
UsedIsBegun ==
  feature_use # 0 /\ NoDeviceCall => begun
=============================================================================
