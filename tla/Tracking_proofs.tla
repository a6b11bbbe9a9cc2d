-------------------------- MODULE Tracking_proofs --------------------------
(***************************************************************************)
(* What is proved of the counts of feature users, of the SLAM tracker and    *)
(* of the display timing, for any number of clients, objects, cameras,       *)
(* sets of images, threads and frames, each from an inductive invariant of   *)
(* its own; the last section carries the results over to the units of        *)
(* Auxiliary, which the run checks.                                          *)
(***************************************************************************)
EXTENDS Auxiliary, FiniteSetTheorems, WellFoundedInduction, TLAPS

(* UsageCounts has its own copy of the operators on finite sets.             *)
LEMMA UsageSets ==
  ASSUME NEW S
  PROVE  /\ Usage!IsFiniteSet(S) <=> IsFiniteSet(S)
         /\ Usage!Cardinality(S) = Cardinality(S)
BY DEF Usage!IsFiniteSet, IsFiniteSet, Usage!Cardinality, Cardinality

Stages == {"idle", "begin", "beginning", "end", "ending"}

\* Clients that feature_use counts.
InUse(used, places) ==
  {c \in Clients : \/ used[c] /\ \A o \in Objects : places[c][o] # "ending"
                   \/ \E o \in Objects : places[c][o] = "beginning"}

\* Objects of a client that its client_use counts.
Using(count, places, c) ==
  {o \in Objects : count[c][o] \/ places[c][o] \in {"begin", "beginning"}}

\* The thread is in the call of the device.
InDevice(stage) == stage = "beginning" \/ stage = "ending"

PlacesInv ==
  /\ device_feature_used \in [Clients -> BOOLEAN]
  /\ counted \in [Clients -> [Objects -> BOOLEAN]]
  /\ pc \in [Clients -> [Objects -> Stages]]
  /\ closing \in SUBSET Clients
  /\ begun \in BOOLEAN
  /\ \A c \in Clients :
       /\ c \in closing => \A o \in Objects : pc[c][o] = "idle"
       /\ \A o, p \in Objects :
            InDevice(pc[c][o]) /\ InDevice(pc[c][p]) => o = p
       /\ \A o \in Objects :
            /\ pc[c][o] = "beginning" => ~device_feature_used[c]
            /\ pc[c][o] = "ending" => device_feature_used[c]

CountsInv ==
  /\ feature_use = Cardinality(InUse(device_feature_used, pc))
  /\ client_use \in [Clients -> Nat]
  /\ \A c \in Clients : client_use[c] >= Cardinality(Using(counted, pc, c))

EndedWhenUnused == feature_use = 0 /\ Usage!NoDeviceCall => ~begun

UsageInv ==
  PlacesInv /\ CountsInv /\ EndedWhenUnused
(* Sets that differ in one element at most. *)
LEMMA OneChanges ==
  ASSUME NEW U, IsFiniteSet(U), NEW A \in SUBSET U, NEW B \in SUBSET U,
         NEW c \in U,
         \A d \in U : d # c => (d \in A <=> d \in B)
  PROVE  /\ Cardinality(A) \in Nat /\ Cardinality(B) \in Nat
         /\ (c \in A <=> c \in B) => Cardinality(B) = Cardinality(A)
         /\ c \notin A /\ c \in B => Cardinality(B) = Cardinality(A) + 1
         /\ c \in A /\ c \notin B =>
              Cardinality(B) = Cardinality(A) - 1 /\ Cardinality(A) >= 1
<1>1. IsFiniteSet(A) /\ IsFiniteSet(B)
  BY FS_Subset
<1>2. Cardinality(A) \in Nat /\ Cardinality(B) \in Nat
  BY <1>1, FS_CardinalityType
<1>3. CASE c \in A <=> c \in B
  <2>1. \A d : d \in A <=> d \in B
    BY <1>3
  <2>2. A = B
    BY <2>1
  <2> QED BY <1>2, <1>3, <2>2
<1>4. CASE c \notin A /\ c \in B
  <2>1. \A d : d \in B <=> d \in A \union {c}
    BY <1>4
  <2>2. B = A \union {c}
    BY <2>1
  <2>3. Cardinality(A \union {c}) = Cardinality(A) + 1
    BY <1>1, <1>4, FS_AddElement
  <2> QED BY <1>2, <1>4, <2>2, <2>3
<1>5. CASE c \in A /\ c \notin B
  <2>1. \A d : d \in A <=> d \in B \union {c}
    BY <1>5
  <2>2. A = B \union {c}
    BY <2>1
  <2>3. Cardinality(B \union {c}) = Cardinality(B) + 1
    BY <1>1, <1>5, FS_AddElement
  <2> QED BY <1>2, <1>5, <2>2, <2>3
<1> QED BY <1>3, <1>4, <1>5

\* The thread of one object goes to another place.
LEMMA PlaceSet ==
  ASSUME NEW places \in [Clients -> [Objects -> Stages]], NEW c \in Clients,
         NEW o \in Objects,
         NEW stage \in Stages
  PROVE  LET q == [places EXCEPT ![c][o] = stage]
         IN  /\ q \in [Clients -> [Objects -> Stages]]
             /\ \A d \in Clients, p \in Objects :
                  q[d][p] = IF d = c /\ p = o THEN stage ELSE places[d][p]
OBVIOUS

\* feature_incremented of one object is set or cleared.
LEMMA CountSet ==
  ASSUME NEW count \in [Clients -> [Objects -> BOOLEAN]], NEW c \in Clients,
         NEW o \in Objects,
         NEW b \in BOOLEAN
  PROVE  LET q == [count EXCEPT ![c][o] = b]
         IN  /\ q \in [Clients -> [Objects -> BOOLEAN]]
             /\ q[c][o] = b
             /\ \A d \in Clients, p \in Objects :
                  d # c \/ p # o => q[d][p] = count[d][p]
OBVIOUS

(* A call of one client changes its own entry of feature_use only.           *)
LEMMA UseChanges ==
  ASSUME Usage!ConstantsAssumption, NEW c \in Clients, NEW used, NEW places,
         NEW used2, NEW places2,
         \A d \in Clients : d # c
           => used2[d] = used[d]
             /\ \A p \in Objects : places2[d][p] = places[d][p]
  PROVE  LET A == InUse(used, places)
             B == InUse(used2, places2)
         IN  /\ Cardinality(A) \in Nat /\ Cardinality(B) \in Nat
             /\ (c \in A <=> c \in B) => Cardinality(B) = Cardinality(A)
             /\ c \notin A /\ c \in B => Cardinality(B) = Cardinality(A) + 1
             /\ c \in A /\ c \notin B =>
                  Cardinality(B) = Cardinality(A) - 1 /\ Cardinality(A) >= 1
<1> DEFINE A == InUse(used, places)
           B == InUse(used2, places2)
<1>1. \A d \in Clients : d # c => (d \in A <=> d \in B)
  BY DEF InUse
<1>2. A \in SUBSET Clients /\ B \in SUBSET Clients
  BY DEF InUse
<1> HIDE DEF A, B
<1>3. /\ Cardinality(A) \in Nat /\ Cardinality(B) \in Nat
      /\ (c \in A <=> c \in B) => Cardinality(B) = Cardinality(A)
      /\ c \notin A /\ c \in B => Cardinality(B) = Cardinality(A) + 1
      /\ c \in A /\ c \notin B =>
           Cardinality(B) = Cardinality(A) - 1 /\ Cardinality(A) >= 1
  BY <1>1, <1>2, OneChanges, UsageSets DEF Usage!ConstantsAssumption
<1> QED BY <1>3 DEF A, B

\* What a step of object o of client c leaves alone.
OnlyObject(c, o) ==
  /\ \A d \in Clients, p \in Objects :
       d # c \/ p # o => counted'[d][p] = counted[d][p] /\ pc'[d][p] = pc[d][p]
  /\ \A d \in Clients : d # c
       => device_feature_used'[d] = device_feature_used[d]

(* An object that stops or goes on being counted changes its client's count  *)
(* by one.                                                                   *)
LEMMA UsingChanges ==
  ASSUME Usage!ConstantsAssumption, NEW c \in Clients, NEW o \in Objects,
         OnlyObject(c, o)
  PROVE  LET A == Using(counted, pc, c)
             B == Using(counted', pc', c)
         IN  /\ Cardinality(A) \in Nat /\ Cardinality(B) \in Nat
             /\ Cardinality(B) <= Cardinality(A) + 1
             /\ (o \in B => o \in A) => Cardinality(B) <= Cardinality(A)
             /\ o \in A /\ o \notin B =>
                  Cardinality(B) = Cardinality(A) - 1 /\ Cardinality(A) >= 1
<1> DEFINE A == Using(counted, pc, c)
           B == Using(counted', pc', c)
<1>1. \A p \in Objects : p # o => (p \in A <=> p \in B)
  BY DEF Using, OnlyObject
<1>2. A \in SUBSET Objects /\ B \in SUBSET Objects
  BY DEF Using
<1> HIDE DEF A, B
<1>3. /\ Cardinality(A) \in Nat /\ Cardinality(B) \in Nat
      /\ (o \in A <=> o \in B) => Cardinality(B) = Cardinality(A)
      /\ o \notin A /\ o \in B => Cardinality(B) = Cardinality(A) + 1
      /\ o \in A /\ o \notin B =>
           Cardinality(B) = Cardinality(A) - 1 /\ Cardinality(A) >= 1
  BY <1>1, <1>2, OneChanges, UsageSets DEF Usage!ConstantsAssumption
<1>4. /\ Cardinality(A) \in Nat /\ Cardinality(B) \in Nat
      /\ Cardinality(B) <= Cardinality(A) + 1
      /\ (o \in B => o \in A) => Cardinality(B) <= Cardinality(A)
      /\ o \in A /\ o \notin B =>
           Cardinality(B) = Cardinality(A) - 1 /\ Cardinality(A) >= 1
  BY <1>3
<1> QED BY <1>4 DEF A, B

\* No thread is in a call of the device, now and after the step.
LEMMA NoCall ==
  /\ Usage!NoDeviceCall <=>
       /\ closing = {}
       /\ \A c \in Clients, o \in Objects : ~InDevice(pc[c][o])
  /\ Usage!NoDeviceCall' <=>
       /\ closing' = {}
       /\ \A c \in Clients, o \in Objects : ~InDevice(pc'[c][o])
BY DEF Usage!NoDeviceCall, Usage!At, InDevice
\* A step that concerns one client keeps the counts when it keeps its own.
LEMMA ClientCounts ==
  ASSUME Usage!ConstantsAssumption, CountsInv, NEW c \in Clients,
         client_use' \in [Clients -> Nat],
         \A d \in Clients : d # c =>
           /\ client_use'[d] = client_use[d]
           /\ \A p \in Objects : counted'[d][p] = counted[d][p]
                /\ pc'[d][p] = pc[d][p],
         client_use'[c] >= Cardinality(Using(counted', pc', c)),
         feature_use' = Cardinality(InUse(device_feature_used', pc'))
  PROVE  CountsInv'
<1>1. \A d \in Clients : d # c
        => client_use'[d] >= Cardinality(Using(counted', pc', d))
  <2> SUFFICES ASSUME NEW d \in Clients, d # c
               PROVE  client_use'[d] >= Cardinality(Using(counted', pc', d))
    OBVIOUS
  <2>1. Using(counted', pc', d) = Using(counted, pc, d)
    BY DEF Using
  <2> QED BY <2>1 DEF CountsInv
<1> QED BY <1>1 DEF CountsInv

(* A step of one object keeps the places: it enters a call of the device     *)
(* only when no thread of its client is in one, and only the thread in the   *)
(* call changes device_feature_used.                                         *)
LEMMA PlacesKept ==
  ASSUME PlacesInv, NEW c \in Clients, NEW o \in Objects, OnlyObject(c, o),
         c \notin closing, UNCHANGED closing,
         counted' \in [Clients -> [Objects -> BOOLEAN]], pc'
           \in [Clients -> [Objects -> Stages]],
         device_feature_used' \in [Clients -> BOOLEAN], begun' \in BOOLEAN,
         InDevice(pc'[c][o]) => \A p \in Objects : p # o
           => ~InDevice(pc[c][p]),
         pc'[c][o] = "beginning" => ~device_feature_used'[c],
         pc'[c][o] = "ending" => device_feature_used'[c],
         device_feature_used'[c] # device_feature_used[c] =>
           \A p \in Objects : p # o => ~InDevice(pc[c][p])
  PROVE  PlacesInv'
<1>0. \A d \in Clients, p \in Objects : d # c \/ p # o => pc'[d][p] = pc[d][p]
  BY DEF OnlyObject
<1>1. ASSUME NEW d \in Clients, d \in closing', NEW p \in Objects
      PROVE pc'[d][p] = "idle"
  <2>1. d # c /\ d \in closing
    BY <1>1
  <2>2. pc'[d][p] = pc[d][p]
    BY <1>0, <2>1
  <2> QED BY <2>1, <2>2 DEF PlacesInv
<1>2. ASSUME NEW d \in Clients, NEW p \in Objects, NEW q \in Objects,
             InDevice(pc'[d][p]), InDevice(pc'[d][q])
      PROVE  p = q
  <2>1. CASE d # c
    <3>1. pc'[d][p] = pc[d][p] /\ pc'[d][q] = pc[d][q]
      BY <1>0, <2>1
    <3> QED BY <1>2, <3>1 DEF PlacesInv
  <2>2. CASE d = c /\ p # o /\ q # o
    <3>1. pc'[d][p] = pc[d][p] /\ pc'[d][q] = pc[d][q]
      BY <1>0, <2>2
    <3> QED BY <1>2, <3>1 DEF PlacesInv
  <2>3. CASE d = c /\ p = o
    BY <1>0, <1>2, <2>3
  <2>4. CASE d = c /\ q = o
    BY <1>0, <1>2, <2>4
  <2> QED BY <2>1, <2>2, <2>3, <2>4
<1>3. ASSUME NEW d \in Clients, NEW p \in Objects
      PROVE  /\ pc'[d][p] = "beginning" => ~device_feature_used'[d]
             /\ pc'[d][p] = "ending" => device_feature_used'[d]
  <2>1. CASE d = c /\ p = o
    BY <2>1
  <2>2. CASE ~(d = c /\ p = o)
    <3>1. pc'[d][p] = pc[d][p]
      BY <2>2 DEF OnlyObject
    <3>2. InDevice(pc[d][p])
            => device_feature_used'[d] = device_feature_used[d]
      BY <2>2 DEF OnlyObject
    <3> QED BY <3>1, <3>2 DEF PlacesInv, InDevice
  <2> QED BY <2>1, <2>2
<1> QED BY <1>1, <1>2, <1>3 DEF PlacesInv

\* The application counts an object that begins to use the feature.
LEMMA IncrementHolds ==
  ASSUME Usage!ConstantsAssumption, UsageInv, NEW c \in Clients,
         NEW o \in Objects, Usage!Increment(c, o)
  PROVE  UsageInv'
<1> USE DEF UsageInv
<1>1. /\ UNCHANGED <<feature_use, device_feature_used, closing, begun>>
      /\ c \notin closing /\ pc[c][o] = "idle" /\ ~counted[c][o]
      /\ client_use' = [client_use EXCEPT ![c] = @ + 1]
      /\ \/ counted' = [counted EXCEPT ![c][o] = TRUE] /\ UNCHANGED pc
         \/ pc' = [pc EXCEPT ![c][o] = "begin"] /\ UNCHANGED counted
  BY DEF Usage!Increment
<1>2. /\ counted' \in [Clients -> [Objects -> BOOLEAN]]
           /\ pc' \in [Clients -> [Objects -> Stages]]
      /\ OnlyObject(c, o) /\ pc'[c][o] \in {"idle", "begin"}
  <2>1. CASE pc' = [pc EXCEPT ![c][o] = "begin"] /\ UNCHANGED counted
    BY <1>1, <2>1, PlaceSet DEF PlacesInv, OnlyObject, Stages
  <2>2. CASE counted' = [counted EXCEPT ![c][o] = TRUE] /\ UNCHANGED pc
    <3>1. /\ counted' \in [Clients -> [Objects -> BOOLEAN]]
          /\ \A d \in Clients, p \in Objects : d # c \/ p # o
               => counted'[d][p] = counted[d][p]
      BY <2>2 DEF PlacesInv
    <3> QED BY <1>1, <2>2, <3>1 DEF PlacesInv, OnlyObject
  <2> QED BY <1>1, <2>1, <2>2
<1>3. PlacesInv'
  <2>1. ~InDevice(pc'[c][o]) /\ ~InDevice(pc[c][o])
    BY <1>1, <1>2 DEF InDevice
  <2>2. /\ device_feature_used' \in [Clients -> BOOLEAN] /\ begun' \in BOOLEAN
        /\ pc'[c][o] # "beginning" /\ pc'[c][o] # "ending"
    BY <1>1, <1>2 DEF PlacesInv
  <2> QED BY <1>1, <1>2, <2>1, <2>2, PlacesKept
<1>4. feature_use' = Cardinality(InUse(device_feature_used', pc'))
  <2>1. InUse(device_feature_used', pc') = InUse(device_feature_used, pc)
    BY <1>1, <1>2 DEF InUse, OnlyObject
  <2> QED BY <1>1, <2>1 DEF CountsInv
<1>5. client_use' \in [Clients -> Nat] /\ client_use'[c] = client_use[c] + 1
  BY <1>1 DEF CountsInv
<1>6. /\ Cardinality(Using(counted', pc', c)) <=
           Cardinality(Using(counted, pc, c)) + 1
      /\ Cardinality(Using(counted', pc', c)) \in Nat
           /\ Cardinality(Using(counted, pc, c)) \in Nat
  BY <1>2, UsingChanges
<1>7. client_use[c] \in Nat
        /\ client_use[c] >= Cardinality(Using(counted, pc, c))
  BY DEF CountsInv
<1>8. CountsInv'
  BY <1>1, <1>2, <1>4, <1>5, <1>6, <1>7, ClientCounts DEF OnlyObject, CountsInv
<1>9. Usage!NoDeviceCall' => Usage!NoDeviceCall
  <2>1. \A d \in Clients, p \in Objects : InDevice(pc[d][p])
          => InDevice(pc'[d][p])
    BY <1>1, <1>2 DEF OnlyObject, InDevice
  <2> QED BY <1>1, <2>1, NoCall
<1> QED BY <1>1, <1>3, <1>8, <1>9 DEF EndedWhenUnused
\* The application takes an object off its count.
LEMMA DecrementHolds ==
  ASSUME Usage!ConstantsAssumption, UsageInv, NEW c \in Clients,
         NEW o \in Objects, Usage!Decrement(c, o)
  PROVE  UsageInv'
<1> USE DEF UsageInv
<1>1. /\ UNCHANGED <<feature_use, device_feature_used, closing, begun>>
      /\ c \notin closing /\ pc[c][o] = "idle" /\ counted[c][o]
      /\ client_use' = [client_use EXCEPT ![c] = @ - 1]
      /\ counted' = [counted EXCEPT ![c][o] = FALSE]
      /\ pc' = [pc EXCEPT ![c][o] = IF client_use[c] =
           1 THEN "end" ELSE "idle"]
  BY DEF Usage!Decrement
<1>2. /\ pc' \in [Clients -> [Objects -> Stages]]
      /\ \A d \in Clients, p \in Objects : d # c \/ p # o
           => pc'[d][p] = pc[d][p]
      /\ pc'[c][o] \in {"end", "idle"}
  BY <1>1, PlaceSet DEF PlacesInv, Stages
<1>3. /\ counted' \in [Clients -> [Objects -> BOOLEAN]]
      /\ \A d \in Clients, p \in Objects : d # c \/ p # o
           => counted'[d][p] = counted[d][p]
      /\ ~counted'[c][o]
  BY <1>1 DEF PlacesInv
<1>4. OnlyObject(c, o)
  BY <1>1, <1>2, <1>3 DEF OnlyObject
<1>5. ~InDevice(pc'[c][o]) /\ ~InDevice(pc[c][o])
  BY <1>1, <1>2 DEF InDevice
<1>6. PlacesInv'
  <2>1. /\ device_feature_used' \in [Clients -> BOOLEAN] /\ begun' \in BOOLEAN
        /\ pc'[c][o] # "beginning" /\ pc'[c][o] # "ending"
    BY <1>1, <1>2 DEF PlacesInv
  <2> QED BY <1>1, <1>2, <1>3, <1>4, <1>5, <2>1, PlacesKept
<1>7. feature_use' = Cardinality(InUse(device_feature_used', pc'))
  <2>1. InUse(device_feature_used', pc') = InUse(device_feature_used, pc)
    BY <1>1, <1>2 DEF InUse
  <2> QED BY <1>1, <2>1 DEF CountsInv
<1>8. o \in Using(counted, pc, c) /\ o \notin Using(counted', pc', c)
  BY <1>1, <1>2, <1>3 DEF Using
<1>9. /\ Cardinality(Using(counted', pc', c)) =
           Cardinality(Using(counted, pc, c)) - 1
      /\ Cardinality(Using(counted, pc, c)) >= 1
      /\ Cardinality(Using(counted', pc', c)) \in Nat
           /\ Cardinality(Using(counted, pc, c)) \in Nat
  BY <1>4, <1>8, UsingChanges
<1>10. client_use[c] \in Nat
         /\ client_use[c] >= Cardinality(Using(counted, pc, c))
  BY DEF CountsInv
<1>11. client_use' \in [Clients -> Nat] /\ client_use'[c] = client_use[c] - 1
  BY <1>1, <1>9, <1>10 DEF CountsInv
<1>12. CountsInv'
  <2>1. client_use'[c] >= Cardinality(Using(counted', pc', c))
    BY <1>9, <1>10, <1>11
  <2>2. \A d \in Clients : d # c => client_use'[d] = client_use[d]
    BY <1>1 DEF CountsInv
  <2> QED BY <1>4, <1>7, <1>11, <2>1, <2>2, ClientCounts DEF OnlyObject
<1>13. Usage!NoDeviceCall' => Usage!NoDeviceCall
  <2>1. \A d \in Clients, p \in Objects : InDevice(pc[d][p])
          => InDevice(pc'[d][p])
    BY <1>4, <1>5 DEF OnlyObject
  <2> QED BY <1>1, <2>1, NoCall
<1> QED BY <1>1, <1>6, <1>12, <1>13 DEF EndedWhenUnused

(* Calls that leave the count of the application alone and do not add an     *)
(* object to those that it counts.                                           *)
LEMMA ServiceCounts ==
  ASSUME Usage!ConstantsAssumption, CountsInv, NEW c \in Clients,
         NEW o \in Objects, OnlyObject(c, o),
         UNCHANGED client_use,
         o \in Using(counted', pc', c) => o \in Using(counted, pc, c),
         feature_use' = Cardinality(InUse(device_feature_used', pc'))
  PROVE  CountsInv'
<1>1. /\ Cardinality(Using(counted', pc', c)) <=
           Cardinality(Using(counted, pc, c))
      /\ Cardinality(Using(counted', pc', c)) \in Nat
           /\ Cardinality(Using(counted, pc, c)) \in Nat
  BY UsingChanges
<1>2. client_use' \in [Clients -> Nat]
        /\ client_use'[c] >= Cardinality(Using(counted, pc, c))
  BY DEF CountsInv
<1>3. client_use'[c] >= Cardinality(Using(counted', pc', c))
  BY <1>1, <1>2
<1> QED BY <1>2, <1>3, ClientCounts DEF OnlyObject

\* A client's thread that is free to take a message is in no call.
LEMMA FreeConnection ==
  ASSUME NEW c \in Clients, Usage!ConnectionFree(c)
  PROVE  c \notin closing /\ \A p \in Objects : ~InDevice(pc[c][p])
BY DEF Usage!ConnectionFree, InDevice

(* ipc_handle_system_devices_begin_feature, up to the call of the device     *)
(* when the client is the first of all.                                      *)
LEMMA BeginFeatureHolds ==
  ASSUME Usage!ConstantsAssumption, UsageInv, NEW c \in Clients,
         NEW o \in Objects, Usage!BeginFeature(c, o)
  PROVE  UsageInv'
<1> USE DEF UsageInv
<1>1. /\ pc[c][o] = "begin" /\ UNCHANGED <<client_use, closing, begun>>
      /\ c \notin closing /\ \A p \in Objects : ~InDevice(pc[c][p])
  BY FreeConnection DEF Usage!BeginFeature
<1>2. o \in Using(counted, pc, c)
  BY <1>1 DEF Using
<1>3. \A d \in Clients : d # c
        => device_feature_used'[d] = device_feature_used[d]
  BY DEF Usage!BeginFeature, PlacesInv
<1>4. CASE device_feature_used[c] /\ Usage!BeginFailed(c, o)
             /\ UNCHANGED <<feature_use, device_feature_used>>
  <2>1. PICK kept \in BOOLEAN : counted' = [counted EXCEPT ![c][o] = kept]
    BY <1>4 DEF Usage!BeginFailed
  <2>2. /\ counted' \in [Clients -> [Objects -> BOOLEAN]]
        /\ \A d \in Clients, p \in Objects : d # c \/ p # o
             => counted'[d][p] = counted[d][p]
    BY <2>1, CountSet DEF PlacesInv
  <2>3. /\ pc' \in [Clients -> [Objects -> Stages]] /\ pc'[c][o] = "idle"
        /\ \A d \in Clients, p \in Objects : d # c \/ p # o
             => pc'[d][p] = pc[d][p]
    BY <1>4, PlaceSet DEF Usage!BeginFailed, Usage!Return, PlacesInv, Stages
  <2>4. OnlyObject(c, o)
    BY <1>3, <2>2, <2>3 DEF OnlyObject
  <2>5. PlacesInv'
    <3>1. device_feature_used' \in [Clients -> BOOLEAN] /\ begun' \in BOOLEAN
            /\ ~InDevice(pc'[c][o])
      BY <1>1, <1>4, <2>3 DEF PlacesInv, InDevice
    <3> QED BY <1>1, <1>4, <2>2, <2>3, <2>4, <3>1, PlacesKept
  <2>6. feature_use' = Cardinality(InUse(device_feature_used', pc'))
    <3>1. InUse(device_feature_used', pc') = InUse(device_feature_used, pc)
      BY <1>1, <1>4, <2>3 DEF InUse
    <3> QED BY <1>4, <3>1 DEF CountsInv
  <2>7. CountsInv'
    BY <1>1, <1>2, <2>4, <2>6, ServiceCounts
  <2>8. Usage!NoDeviceCall' => Usage!NoDeviceCall
    <3>1. \A d \in Clients, p \in Objects : InDevice(pc[d][p])
            => InDevice(pc'[d][p])
      BY <1>1, <2>3
    <3> QED BY <1>1, <3>1, NoCall
  <2> QED BY <1>1, <1>4, <2>5, <2>7, <2>8 DEF EndedWhenUnused
<1>5. CASE /\ ~device_feature_used[c] /\ feature_use = 0 /\ feature_use' = 1
           /\ pc' = [pc EXCEPT ![c][o] = "beginning"]
           /\ UNCHANGED <<counted, device_feature_used>>
  <2>1. /\ pc' \in [Clients -> [Objects -> Stages]] /\ pc'[c][o] = "beginning"
        /\ \A d \in Clients, p \in Objects : d # c \/ p # o
             => pc'[d][p] = pc[d][p]
    BY <1>5, PlaceSet DEF PlacesInv, Stages
  <2>2. OnlyObject(c, o)
    BY <1>3, <1>5, <2>1 DEF OnlyObject
  <2>3. PlacesInv'
    <3>1. /\ device_feature_used' \in [Clients -> BOOLEAN]
               /\ begun' \in BOOLEAN
          /\ counted' \in [Clients -> [Objects -> BOOLEAN]]
      BY <1>1, <1>5 DEF PlacesInv
    <3> QED BY <1>1, <1>5, <2>1, <2>2, <3>1, PlacesKept
  <2>4. feature_use' = Cardinality(InUse(device_feature_used', pc'))
    <3>1. c \notin InUse(device_feature_used, pc)
            /\ c \in InUse(device_feature_used', pc')
      BY <1>1, <1>5, <2>1 DEF InUse, InDevice
    <3>2. Cardinality(InUse(device_feature_used', pc')) =
            Cardinality(InUse(device_feature_used, pc)) + 1
      BY <2>2, <3>1, UseChanges DEF OnlyObject
    <3> QED BY <1>5, <3>2 DEF CountsInv
  <2>5. CountsInv'
    BY <1>1, <1>2, <2>2, <2>4, ServiceCounts
  <2> QED BY <1>5, <2>3, <2>5 DEF EndedWhenUnused
<1>6. CASE /\ ~device_feature_used[c] /\ feature_use # 0
           /\ feature_use' = feature_use + 1
           /\ device_feature_used' = [device_feature_used EXCEPT ![c] = TRUE]
           /\ counted' = [counted EXCEPT ![c][o] = TRUE]
           /\ Usage!Return(c, o)
  <2>1. /\ pc' \in [Clients -> [Objects -> Stages]] /\ pc'[c][o] = "idle"
        /\ \A d \in Clients, p \in Objects : d # c \/ p # o
             => pc'[d][p] = pc[d][p]
    BY <1>6, PlaceSet DEF Usage!Return, PlacesInv, Stages
  <2>2. /\ counted' \in [Clients -> [Objects -> BOOLEAN]]
        /\ \A d \in Clients, p \in Objects : d # c \/ p # o
             => counted'[d][p] = counted[d][p]
    BY <1>6 DEF PlacesInv
  <2>3. OnlyObject(c, o)
    BY <1>3, <2>1, <2>2 DEF OnlyObject
  <2>4. device_feature_used' \in [Clients -> BOOLEAN]
          /\ device_feature_used'[c]
    BY <1>6 DEF PlacesInv
  <2>5. PlacesInv'
    <3>1. begun' \in BOOLEAN /\ ~InDevice(pc'[c][o])
      BY <1>1, <2>1 DEF PlacesInv, InDevice
    <3> QED BY <1>1, <2>1, <2>2, <2>3, <2>4, <3>1, PlacesKept
  <2>6. /\ feature_use' = Cardinality(InUse(device_feature_used', pc'))
        /\ feature_use' # 0
    <3>1. c \notin InUse(device_feature_used, pc)
            /\ c \in InUse(device_feature_used', pc')
      BY <1>1, <1>6, <2>1, <2>4 DEF InUse, InDevice
    <3>2. /\ Cardinality(InUse(device_feature_used', pc')) =
               Cardinality(InUse(device_feature_used, pc)) + 1
          /\ Cardinality(InUse(device_feature_used, pc)) \in Nat
      BY <2>3, <3>1, UseChanges DEF OnlyObject
    <3> QED BY <1>6, <3>2 DEF CountsInv
  <2>7. CountsInv'
    BY <1>1, <1>2, <2>3, <2>6, ServiceCounts
  <2> QED BY <2>5, <2>6, <2>7 DEF EndedWhenUnused
<1> QED BY <1>4, <1>5, <1>6 DEF Usage!BeginFeature

\* The device has begun the feature, and the client is marked as a user.
LEMMA DeviceBeginsHolds ==
  ASSUME Usage!ConstantsAssumption, UsageInv, NEW c \in Clients,
         NEW o \in Objects, Usage!DeviceBegins(c, o)
  PROVE  UsageInv'
<1> USE DEF UsageInv
<1>1. /\ pc[c][o] = "beginning"
           /\ UNCHANGED <<feature_use, client_use, closing>>
      /\ device_feature_used' = [device_feature_used EXCEPT ![c] = TRUE]
      /\ counted' = [counted EXCEPT ![c][o] = TRUE]
      /\ Usage!Return(c, o)
  BY DEF Usage!DeviceBegins
<1>2. begun' \in BOOLEAN
  BY Zenon DEF Usage!DeviceBegins
<1>3. /\ pc' \in [Clients -> [Objects -> Stages]] /\ pc'[c][o] = "idle"
      /\ \A d \in Clients, p \in Objects : d # c \/ p # o
           => pc'[d][p] = pc[d][p]
  BY <1>1, PlaceSet DEF Usage!Return, PlacesInv, Stages
<1>4. /\ counted' \in [Clients -> [Objects -> BOOLEAN]]
      /\ \A d \in Clients, p \in Objects : d # c \/ p # o
           => counted'[d][p] = counted[d][p]
  BY <1>1 DEF PlacesInv
<1>5. device_feature_used' \in [Clients -> BOOLEAN] /\ device_feature_used'[c]
  BY <1>1 DEF PlacesInv
<1>6. OnlyObject(c, o)
  <2>1. \A d \in Clients : d # c
          => device_feature_used'[d] = device_feature_used[d]
    BY <1>1 DEF PlacesInv
  <2> QED BY <1>3, <1>4, <2>1 DEF OnlyObject
<1>7. InDevice(pc[c][o]) /\ ~InDevice(pc'[c][o]) /\ c \notin closing
  BY <1>1, <1>3 DEF InDevice, PlacesInv
<1>8. \A p \in Objects : p # o => ~InDevice(pc[c][p])
  BY <1>7 DEF PlacesInv
<1>9. PlacesInv'
  BY <1>1, <1>2, <1>3, <1>4, <1>5, <1>6, <1>7, <1>8, PlacesKept
<1>10. /\ feature_use' = Cardinality(InUse(device_feature_used', pc'))
       /\ feature_use' # 0
  <2>1. \A p \in Objects : pc'[c][p] # "ending"
    BY <1>3, <1>8 DEF InDevice
  <2>2. c \in InUse(device_feature_used, pc)
          /\ c \in InUse(device_feature_used', pc')
    BY <1>1, <1>5, <2>1 DEF InUse
  <2>3. /\ Cardinality(InUse(device_feature_used', pc')) =
             Cardinality(InUse(device_feature_used, pc))
        /\ Cardinality(InUse(device_feature_used, pc)) \in Nat
    BY <1>6, <2>2, UseChanges DEF OnlyObject
  <2>4. Cardinality(InUse(device_feature_used, pc)) # 0
    <3>1. IsFiniteSet(InUse(device_feature_used, pc))
      BY FS_Subset, UsageSets DEF Usage!ConstantsAssumption, InUse
    <3> QED BY <2>2, <3>1, FS_EmptySet
  <2> QED BY <1>1, <2>3, <2>4 DEF CountsInv
<1>11. o \in Using(counted, pc, c)
  BY <1>1 DEF Using
<1>12. CountsInv'
  BY <1>1, <1>6, <1>10, <1>11, ServiceCounts
<1> QED BY <1>9, <1>10, <1>12 DEF EndedWhenUnused
(* ipc_handle_system_devices_end_feature, up to the call of the device when  *)
(* the client is the last of all.                                            *)
LEMMA EndFeatureHolds ==
  ASSUME Usage!ConstantsAssumption, UsageInv, NEW c \in Clients,
         NEW o \in Objects, Usage!EndFeature(c, o)
  PROVE  UsageInv'
<1> USE DEF UsageInv
<1>1. /\ pc[c][o] = "end" /\ UNCHANGED <<client_use, counted, closing, begun>>
      /\ c \notin closing /\ \A p \in Objects : ~InDevice(pc[c][p])
  BY FreeConnection DEF Usage!EndFeature
<1>2. /\ pc' = [pc EXCEPT ![c][o] = "idle"]
           \/ pc' = [pc EXCEPT ![c][o] = "ending"]
      /\ \A d \in Clients : d # c
           => device_feature_used'[d] = device_feature_used[d]
      /\ device_feature_used' \in [Clients -> BOOLEAN]
  BY DEF Usage!EndFeature, Usage!Return, PlacesInv
<1>3. /\ pc' \in [Clients -> [Objects -> Stages]]
      /\ \A d \in Clients, p \in Objects : d # c \/ p # o
           => pc'[d][p] = pc[d][p]
      /\ pc'[c][o] \in {"idle", "ending"}
  <2>1. "idle" \in Stages /\ "ending" \in Stages
    BY DEF Stages
  <2>2. CASE pc' = [pc EXCEPT ![c][o] = "idle"]
    BY <2>1, <2>2, PlaceSet DEF PlacesInv
  <2>3. CASE pc' = [pc EXCEPT ![c][o] = "ending"]
    BY <2>1, <2>3, PlaceSet DEF PlacesInv
  <2> QED BY <1>2, <2>2, <2>3
<1>4. OnlyObject(c, o)
  BY <1>1, <1>2, <1>3 DEF OnlyObject
<1>5. o \notin Using(counted', pc', c) \/ o \in Using(counted, pc, c)
  BY <1>1, <1>3 DEF Using
<1>6. ASSUME pc'[c][o] = "ending" => device_feature_used'[c] PROVE PlacesInv'
  <2>1. begun' \in BOOLEAN /\ counted' \in [Clients -> [Objects -> BOOLEAN]]
          /\ pc'[c][o] # "beginning"
    BY <1>1, <1>3 DEF PlacesInv
  <2> QED BY <1>1, <1>2, <1>3, <1>4, <1>6, <2>1, PlacesKept
<1>7. CASE Usage!Return(c, o) /\ UNCHANGED <<feature_use, device_feature_used>>
  <2>1. pc'[c][o] = "idle"
    BY <1>7, PlaceSet DEF Usage!Return, PlacesInv, Stages
  <2>2. InUse(device_feature_used', pc') = InUse(device_feature_used, pc)
    BY <1>1, <1>3, <1>7, <2>1 DEF InUse, InDevice
  <2>3. CountsInv'
    BY <1>1, <1>4, <1>5, <1>7, <2>2, ServiceCounts DEF CountsInv
  <2>4. Usage!NoDeviceCall' => Usage!NoDeviceCall
    <3>1. \A d \in Clients, p \in Objects : InDevice(pc[d][p])
            => InDevice(pc'[d][p])
      BY <1>1, <1>3
    <3> QED BY <1>1, <3>1, NoCall
  <2> QED BY <1>1, <1>6, <1>7, <2>1, <2>3, <2>4 DEF EndedWhenUnused
<1>8. CASE /\ device_feature_used[c] /\ feature_use = 1 /\ feature_use' = 0
           /\ pc' = [pc EXCEPT ![c][o] = "ending"]
           /\ UNCHANGED device_feature_used
  <2>1. pc'[c][o] = "ending"
    BY <1>8, PlaceSet DEF PlacesInv, Stages
  <2>2. c \in InUse(device_feature_used, pc)
          /\ c \notin InUse(device_feature_used', pc')
    BY <1>1, <1>3, <1>8, <2>1 DEF InUse, InDevice
  <2>3. /\ Cardinality(InUse(device_feature_used', pc')) =
             Cardinality(InUse(device_feature_used, pc)) - 1
        /\ Cardinality(InUse(device_feature_used, pc)) \in Nat
    BY <1>4, <2>2, UseChanges DEF OnlyObject
  <2>4. feature_use' = Cardinality(InUse(device_feature_used', pc'))
    BY <1>8, <2>3 DEF CountsInv
  <2>41. CountsInv'
    BY <1>1, <1>4, <1>5, <2>4, ServiceCounts
  <2>5. ~Usage!NoDeviceCall'
    BY <2>1, NoCall DEF InDevice
  <2> QED BY <1>6, <1>8, <2>41, <2>5 DEF EndedWhenUnused
<1>9. CASE /\ device_feature_used[c] /\ feature_use # 1
           /\ feature_use' = feature_use - 1
           /\ device_feature_used' = [device_feature_used EXCEPT ![c] = FALSE]
           /\ Usage!Return(c, o)
  <2>1. pc'[c][o] = "idle"
    BY <1>9, PlaceSet DEF Usage!Return, PlacesInv, Stages
  <2>2. ~device_feature_used'[c]
    BY <1>9 DEF PlacesInv
  <2>3. c \in InUse(device_feature_used, pc)
          /\ c \notin InUse(device_feature_used', pc')
    BY <1>1, <1>3, <1>9, <2>1, <2>2 DEF InUse, InDevice
  <2>4. /\ Cardinality(InUse(device_feature_used', pc')) =
             Cardinality(InUse(device_feature_used, pc)) - 1
        /\ Cardinality(InUse(device_feature_used, pc)) \in Nat
        /\ Cardinality(InUse(device_feature_used, pc)) >= 1
    BY <1>4, <2>3, UseChanges DEF OnlyObject
  <2>5. feature_use' = Cardinality(InUse(device_feature_used', pc'))
          /\ feature_use' # 0
    BY <1>9, <2>4 DEF CountsInv
  <2>6. CountsInv'
    BY <1>1, <1>4, <1>5, <2>5, ServiceCounts
  <2> QED BY <1>6, <2>1, <2>5, <2>6 DEF EndedWhenUnused
<1> QED BY <1>7, <1>8, <1>9 DEF Usage!EndFeature

\* The device has ended the feature, and the client is no user any more.
LEMMA DeviceEndsHolds ==
  ASSUME Usage!ConstantsAssumption, UsageInv, NEW c \in Clients,
         NEW o \in Objects, Usage!DeviceEnds(c, o)
  PROVE  UsageInv'
<1> USE DEF UsageInv
<1>1. /\ pc[c][o] = "ending"
           /\ UNCHANGED <<feature_use, client_use, counted, closing>>
      /\ device_feature_used' = [device_feature_used EXCEPT ![c] = FALSE]
      /\ Usage!Return(c, o)
  BY DEF Usage!DeviceEnds
<1>2. begun' \in BOOLEAN /\ ~begun'
  BY Zenon DEF Usage!DeviceEnds
<1>3. /\ pc' \in [Clients -> [Objects -> Stages]] /\ pc'[c][o] = "idle"
      /\ \A d \in Clients, p \in Objects : d # c \/ p # o
           => pc'[d][p] = pc[d][p]
  BY <1>1, PlaceSet DEF Usage!Return, PlacesInv, Stages
<1>4. /\ device_feature_used' \in [Clients -> BOOLEAN]
           /\ ~device_feature_used'[c]
      /\ \A d \in Clients : d # c
           => device_feature_used'[d] = device_feature_used[d]
  BY <1>1 DEF PlacesInv
<1>5. OnlyObject(c, o)
  BY <1>1, <1>3, <1>4 DEF OnlyObject
<1>6. InDevice(pc[c][o]) /\ ~InDevice(pc'[c][o]) /\ c \notin closing
  BY <1>1, <1>3 DEF InDevice, PlacesInv
<1>7. \A p \in Objects : p # o => ~InDevice(pc[c][p])
  BY <1>6 DEF PlacesInv
<1>8. PlacesInv'
  <2>1. counted' \in [Clients -> [Objects -> BOOLEAN]]
    BY <1>1 DEF PlacesInv
  <2> QED BY <1>1, <1>2, <1>3, <1>4, <1>5, <1>6, <1>7, <2>1, PlacesKept
<1>9. feature_use' = Cardinality(InUse(device_feature_used', pc'))
  <2>1. \A p \in Objects : pc'[c][p] # "beginning" /\ pc[c][p] # "beginning"
    BY <1>1, <1>3, <1>7 DEF InDevice
  <2>2. c \notin InUse(device_feature_used, pc)
          /\ c \notin InUse(device_feature_used', pc')
    BY <1>1, <1>4, <2>1 DEF InUse
  <2>3. Cardinality(InUse(device_feature_used', pc')) =
          Cardinality(InUse(device_feature_used, pc))
    BY <1>5, <2>2, UseChanges DEF OnlyObject
  <2> QED BY <1>1, <2>3 DEF CountsInv
<1>10. o \in Using(counted', pc', c) => o \in Using(counted, pc, c)
  BY <1>1, <1>3 DEF Using
<1>11. CountsInv'
  BY <1>1, <1>5, <1>9, <1>10, ServiceCounts
<1> QED BY <1>2, <1>8, <1>11 DEF EndedWhenUnused

(* A client that goes away: its thread ends what the client did not, and its *)
(* objects are forgotten.                                                    *)
LEMMA DisconnectHolds ==
  ASSUME Usage!ConstantsAssumption, UsageInv, NEW c \in Clients,
         Usage!Disconnect(c)
  PROVE  UsageInv'
<1> USE DEF UsageInv
<1>1. /\ c \notin closing /\ \A p \in Objects : ~InDevice(pc[c][p])
      /\ client_use' = [client_use EXCEPT ![c] = 0]
      /\ counted' = [counted EXCEPT ![c] = Usage!None]
      /\ pc' = [pc EXCEPT ![c] = Usage!Idle]
      /\ device_feature_used' = [device_feature_used EXCEPT ![c] = FALSE]
      /\ UNCHANGED begun
  BY FreeConnection DEF Usage!Disconnect
<1>2. /\ pc' \in [Clients -> [Objects -> Stages]]
      /\ \A p \in Objects : pc'[c][p] = "idle"
      /\ \A d \in Clients : d # c => pc'[d] = pc[d]
  BY <1>1 DEF PlacesInv, Usage!Idle, Stages
<1>3. /\ counted' \in [Clients -> [Objects -> BOOLEAN]]
      /\ \A p \in Objects : ~counted'[c][p]
      /\ \A d \in Clients : d # c => counted'[d] = counted[d]
  BY <1>1 DEF PlacesInv, Usage!None
<1>4. /\ device_feature_used' \in [Clients -> BOOLEAN]
           /\ ~device_feature_used'[c]
      /\ \A d \in Clients : d # c
           => device_feature_used'[d] = device_feature_used[d]
  BY <1>1 DEF PlacesInv
<1>5. /\ client_use' \in [Clients -> Nat] /\ client_use'[c] = 0
      /\ \A d \in Clients : d # c => client_use'[d] = client_use[d]
  BY <1>1 DEF CountsInv
<1>6. closing' = closing \/ closing' = closing \union {c}
  BY DEF Usage!Disconnect
<1>7. PlacesInv'
  <2>1. \A d \in Clients : d \in closing'
          => \A o \in Objects : pc'[d][o] = "idle"
    BY <1>2, <1>6 DEF PlacesInv
  <2>2. \A d \in Clients : \A o, p \in Objects : InDevice(pc'[d][o])
          /\ InDevice(pc'[d][p]) => o = p
    <3> SUFFICES ASSUME NEW d \in Clients, NEW o \in Objects,
                        NEW p \in Objects,
                        InDevice(pc'[d][o]), InDevice(pc'[d][p])
                 PROVE  o = p
      OBVIOUS
    <3>1. d # c
      BY <1>2 DEF InDevice
    <3>2. InDevice(pc[d][o]) /\ InDevice(pc[d][p])
      BY <1>2, <3>1
    <3> QED BY <3>2 DEF PlacesInv
  <2>3. \A d \in Clients, o \in Objects :
          /\ pc'[d][o] = "beginning" => ~device_feature_used'[d]
          /\ pc'[d][o] = "ending" => device_feature_used'[d]
    BY <1>2, <1>4 DEF PlacesInv
  <2>4. closing' \in SUBSET Clients /\ begun' \in BOOLEAN
    BY <1>1, <1>6 DEF PlacesInv
  <2> QED BY <1>2, <1>3, <1>4, <2>1, <2>2, <2>3, <2>4 DEF PlacesInv
<1>8. Cardinality(Using(counted', pc', c)) = 0
  <2>1. Using(counted', pc', c) = {}
    BY <1>2, <1>3 DEF Using
  <2> QED BY <2>1, FS_EmptySet
<1>9. c \notin InUse(device_feature_used', pc')
  BY <1>2, <1>4 DEF InUse
<1>10. c \in InUse(device_feature_used, pc) <=> device_feature_used[c]
  BY <1>1 DEF InUse, InDevice
<1>11. Usage!NoDeviceCall' => Usage!NoDeviceCall
  <2>1. \A d \in Clients, p \in Objects : InDevice(pc[d][p])
          => InDevice(pc'[d][p])
    BY <1>1, <1>2
  <2> QED BY <1>6, <2>1, NoCall
<1>12. /\ Cardinality(InUse(device_feature_used, pc)) \in Nat
       /\ ~device_feature_used[c] =>
            Cardinality(InUse(device_feature_used', pc')) =
              Cardinality(InUse(device_feature_used, pc))
       /\ device_feature_used[c] =>
            Cardinality(InUse(device_feature_used', pc')) =
              Cardinality(InUse(device_feature_used, pc)) - 1
  BY <1>2, <1>4, <1>9, <1>10, UseChanges
<1>13. feature_use' = IF device_feature_used[c] THEN feature_use - 1
         ELSE feature_use
  BY DEF Usage!Disconnect
<1>14. CountsInv'
  <2>1. feature_use' = Cardinality(InUse(device_feature_used', pc'))
    BY <1>12, <1>13 DEF CountsInv
  <2>2. client_use'[c] >= Cardinality(Using(counted', pc', c))
    BY <1>5, <1>8
  <2> QED BY <1>2, <1>3, <1>5, <2>1, <2>2, ClientCounts
<1>15. EndedWhenUnused'
  <2>1. CASE device_feature_used[c] /\ feature_use = 1
    <3>1. c \in closing'
      BY <2>1 DEF Usage!Disconnect
    <3> QED BY <3>1, NoCall DEF EndedWhenUnused
  <2>2. CASE feature_use # 1 \/ ~device_feature_used[c]
    <3>1. feature_use' = 0 => feature_use = 0
      BY <1>12, <1>13, <2>2 DEF CountsInv
    <3> QED BY <1>1, <1>11, <3>1 DEF EndedWhenUnused
  <2> QED BY <2>1, <2>2
<1> QED BY <1>7, <1>14, <1>15

\* The device has ended the feature for the client that went away.
LEMMA ShutdownEndsHolds ==
  ASSUME UsageInv, NEW c \in Clients, Usage!ShutdownEnds(c)
  PROVE  UsageInv'
<1>1. /\ UNCHANGED <<feature_use, device_feature_used, client_use, counted,
                     pc>>
      /\ closing' = closing \ {c}
  BY DEF Usage!ShutdownEnds
<1>2. begun' \in BOOLEAN /\ ~begun'
  BY Zenon DEF Usage!ShutdownEnds
<1>3. PlacesInv'
  BY <1>1, <1>2 DEF UsageInv, PlacesInv
<1> QED BY <1>1, <1>2, <1>3 DEF UsageInv, CountsInv, EndedWhenUnused

\* Nobody uses the feature at first.
LEMMA UsageInitHolds ==
  ASSUME Usage!Init
  PROVE  UsageInv
<1>1. InUse(device_feature_used, pc) = {}
        /\ \A c \in Clients : Using(counted, pc, c) = {}
  BY DEF Usage!Init, InUse, Using, Usage!Idle, Usage!None
<1>2. begun \in BOOLEAN /\ ~begun
  BY Zenon DEF Usage!Init
<1>3. PlacesInv
  BY <1>2 DEF Usage!Init, PlacesInv, Stages, Usage!Idle, Usage!None, InDevice
<1>4. CountsInv
  <2>1. Cardinality({}) = 0
    BY FS_EmptySet
  <2>2. \A c \in Clients : Cardinality(Using(counted, pc, c)) = 0
    BY <1>1, <2>1
  <2>3. Cardinality(InUse(device_feature_used, pc)) = 0
    BY <1>1, <2>1
  <2>4. feature_use = 0 /\ client_use = [c \in Clients |-> 0]
    BY DEF Usage!Init
  <2> QED BY <2>2, <2>3, <2>4 DEF CountsInv
<1> QED BY <1>2, <1>3, <1>4 DEF UsageInv, EndedWhenUnused

(* u_system_devices_static::feature_use is the number of clients that use    *)
(* the feature or are in the call that begins it, and the feature is not     *)
(* running when that number is zero and no call is under way: for any number *)
(* of clients and objects, however the service's threads interleave.         *)
THEOREM UsageInvariant ==
  ASSUME Usage!ConstantsAssumption
  PROVE  Usage!Spec => []UsageInv
<1>1. UsageInv /\ [Usage!Next]_(Usage!vars) => UsageInv'
  <2> SUFFICES ASSUME UsageInv, [Usage!Next]_(Usage!vars) PROVE UsageInv'
    OBVIOUS
  <2>1. CASE UNCHANGED Usage!vars
    BY <2>1
    DEF Usage!vars, UsageInv, PlacesInv, CountsInv, EndedWhenUnused,
        Usage!NoDeviceCall, Usage!At, InUse, Using
  <2> QED
    BY <2>1, IncrementHolds, DecrementHolds, BeginFeatureHolds,
       DeviceBeginsHolds, EndFeatureHolds,
       DeviceEndsHolds, DisconnectHolds, ShutdownEndsHolds DEF Usage!Next
<1> QED BY <1>1, UsageInitHolds, PTL DEF Usage!Spec

(* So a feature nobody uses is ended in the device once no call of the       *)
(* device is under way, and no client that uses it is left out of the count. *)
THEOREM UnusedStaysEnded ==
  ASSUME Usage!ConstantsAssumption
  PROVE  Usage!Spec => []Usage!UnusedIsEnded
<1>1. UsageInv => Usage!UnusedIsEnded
  <2> SUFFICES ASSUME UsageInv PROVE Usage!UnusedIsEnded
    OBVIOUS
  <2> DEFINE A == {c \in Clients : device_feature_used[c]} \ Usage!At("ending")
             B == Usage!At("beginning")
  <2>1. InUse(device_feature_used, pc) = A \union B /\ A \cap B = {}
    BY DEF InUse, Usage!At, UsageInv, PlacesInv
  <2>2. A \in SUBSET Clients /\ B \in SUBSET Clients
    BY DEF Usage!At
  <2> HIDE DEF A, B
  <2>3. IsFiniteSet(A) /\ IsFiniteSet(B)
    BY <2>2, FS_Subset, UsageSets DEF Usage!ConstantsAssumption
  <2>4. Cardinality(A \union B) = Cardinality(A) + Cardinality(B)
    <3>1. Cardinality(A \cap B) = 0
      BY <2>1, FS_EmptySet
    <3>2. Cardinality(A \union B) =
            Cardinality(A) + Cardinality(B) - Cardinality(A \cap B)
      BY <2>3, FS_Union
    <3> QED BY <2>3, <3>1, <3>2, FS_CardinalityType
  <2>5. feature_use = Cardinality(A) + Cardinality(B)
    BY <2>1, <2>4 DEF UsageInv, CountsInv
  <2> QED BY <2>5, UsageSets
          DEF A, B, Usage!UnusedIsEnded, UsageInv, EndedWhenUnused
<1> QED BY <1>1, UsageInvariant, PTL

-----------------------------------------------------------------------------

SlamPlaces == {"idle", "pop", "timing", "push", "flushed", "send",
               "record", "cacheRelation", "cacheTime", "cached"}

Increasing(s) == \A i, j \in 1 .. Len(s) : i < j => s[i] < s[j]

\* A pose waits, is in the hands of a thread that flushes, or is as old as one
\* in the history.
Accounted(s) ==
  \/ \E i \in 1 .. Len(vit_queue) : vit_queue[i] = s
  \/ \E t \in Slam!Threads : pose[t] = s
  \/ slam_rels # <<>> /\ s <= slam_rels[Len(slam_rels)]

\* The driver's thread and the SLAM system.
DriverInv ==
  /\ set \in 1 .. MaxSets + 1 /\ cam \in Slam!Cams
  /\ tracked \in 0 .. MaxSets /\ computed \in 0 .. MaxSets
  /\ computed <= tracked /\ tracked <= set
  /\ set = MaxSets + 1 => slam_pc[Slam!Camera] = "idle"

\* The locators, and what they answer.
AnswerInv ==
  /\ slam_last_ts \in WhenTimes \union {Slam!None}
       /\ last_rel \in Slam!Relations
  /\ when \in [Locators -> WhenTimes \union {Slam!None}]
  /\ out_relation \in [Locators -> Slam!Relations]
  /\ camera_timing_by_ts \in [Slam!Sets -> SUBSET Slam!Cams]
  /\ lines \subseteq Slam!Sets \X Slam!Cams

\* The poses on their way.
PosesInv ==
  /\ vit_queue \in Seq(Slam!Sets) /\ slam_rels \in Seq(Slam!Sets)
  /\ unread \subseteq Slam!Sets
  /\ slam_pc \in [Slam!Threads -> SlamPlaces]
  /\ pose \in [Slam!Threads -> Slam!Sets \union {Slam!None}]
  /\ \A t \in Slam!Threads : pose[t] # Slam!None
       <=> slam_pc[t] \in {"timing", "push"}
  /\ Increasing(slam_rels)
  /\ \A s \in (1 .. computed) \ unread : Accounted(s)

SlamInv == DriverInv /\ AnswerInv /\ PosesInv

(* What the end of flush_poses and the rest of the calls leave alone.        *)
LEMMA PosesKept ==
  ASSUME PosesInv, UNCHANGED <<vit_queue, slam_rels, unread, computed, pose>>,
         NEW t \in Slam!Threads, NEW at \in SlamPlaces, Slam!Goto(t, at),
         slam_pc[t] \in {"timing", "push"} <=> at \in {"timing", "push"}
  PROVE  PosesInv'
<1>1. slam_pc' \in [Slam!Threads -> SlamPlaces]
  BY DEF Slam!Goto, PosesInv
<1>2. \A u \in Slam!Threads : pose'[u] # Slam!None
        <=> slam_pc'[u] \in {"timing", "push"}
  BY DEF Slam!Goto, PosesInv
<1>3. \A s \in (1 .. computed') \ unread' : Accounted(s)'
  BY DEF PosesInv, Accounted
<1> QED BY <1>1, <1>2, <1>3 DEF PosesInv, Increasing

\* flush_poses takes a pose from the SLAM system, or finds none.
LEMMA PopPoseHolds ==
  ASSUME Slam!ConstantsAssumption, SlamInv, NEW t \in Slam!Threads,
         Slam!PopPose(t)
  PROVE  SlamInv'
<1> USE DEF SlamInv
<1>1. /\ UNCHANGED <<set, cam, tracked, computed, Slam!cacheVars, when,
                     out_relation>>
      /\ UNCHANGED <<camera_timing_by_ts, lines, slam_rels>>
      /\ slam_pc[t] = "pop"
  BY DEF Slam!PopPose, Slam!FlushUnchanged, Slam!At
<1>2. AnswerInv'
  BY <1>1 DEF AnswerInv, Slam!cacheVars
<1>3. ASSUME NEW at \in SlamPlaces, Slam!Goto(t, at) PROVE DriverInv'
  BY <1>1, <1>3 DEF DriverInv, Slam!Goto, PosesInv
<1>4. CASE Slam!Goto(t, "flushed") /\ UNCHANGED <<vit_queue, unread, pose>>
  BY <1>1, <1>2, <1>3, <1>4, PosesKept DEF SlamPlaces
<1>5. CASE /\ vit_queue # <<>>
           /\ vit_queue' = Tail(vit_queue)
           /\ \/ /\ pose' = [pose EXCEPT ![t] = Head(vit_queue)]
                 /\ Slam!Goto(t, "timing")
                 /\ UNCHANGED unread
              \/ /\ unread' = unread \union {Head(vit_queue)}
                 /\ Slam!Goto(t, "flushed")
                 /\ UNCHANGED pose
  <2>1. /\ Head(vit_queue) \in Slam!Sets /\ Tail(vit_queue) \in Seq(Slam!Sets)
        /\ Len(Tail(vit_queue)) = Len(vit_queue) - 1 /\ Len(vit_queue) \in Nat
        /\ Head(vit_queue) = vit_queue[1]
        /\ \A i \in 1 .. Len(vit_queue) : i # 1 =>
             i - 1 \in 1 .. Len(Tail(vit_queue))
               /\ Tail(vit_queue)[i - 1] = vit_queue[i]
    BY <1>5 DEF PosesInv
  <2>2. pose[t] = Slam!None
    BY <1>1 DEF PosesInv
  <2>3. \/ Slam!Goto(t, "timing") \/ Slam!Goto(t, "flushed")
    BY <1>5
  <2>4. DriverInv'
    BY <1>3, <2>3 DEF SlamPlaces
  <2>5. slam_pc' \in [Slam!Threads -> SlamPlaces]
    BY <2>3 DEF Slam!Goto, PosesInv, SlamPlaces
  <2>6. /\ unread' \subseteq Slam!Sets
             /\ pose' \in [Slam!Threads -> Slam!Sets \union {Slam!None}]
        /\ unread \subseteq unread'
    BY <1>5, <2>1 DEF PosesInv
  <2>7. \A u \in Slam!Threads : pose'[u] # Slam!None
          <=> slam_pc'[u] \in {"timing", "push"}
    <3>1. Head(vit_queue) # Slam!None
      BY <2>1 DEF Slam!Sets, Slam!None
    <3> QED BY <1>1, <1>5, <2>2, <3>1 DEF PosesInv, Slam!Goto
  <2>8. ASSUME NEW s \in (1 .. computed') \ unread' PROVE Accounted(s)'
    <3>1. s \in (1 .. computed) \ unread
      BY <1>1, <2>6
    <3>2. CASE \E i \in 1 .. Len(vit_queue) : vit_queue[i] = s
      <4>1. PICK i \in 1 .. Len(vit_queue) : vit_queue[i] = s
        BY <3>2
      <4>2. CASE i # 1
        BY <1>5, <2>1, <4>1, <4>2 DEF Accounted
      <4>3. CASE i = 1
        <5>1. s = Head(vit_queue) /\ s \notin unread'
          BY <2>1, <4>1, <4>3
        <5>2. pose' = [pose EXCEPT ![t] = Head(vit_queue)]
          BY <1>5, <5>1
        <5>3. pose'[t] = s
          BY <5>1, <5>2 DEF PosesInv
        <5> QED BY <5>3 DEF Accounted
      <4> QED BY <4>2, <4>3
    <3>3. CASE \E u \in Slam!Threads : pose[u] = s
      <4>1. PICK u \in Slam!Threads : pose[u] = s
        BY <3>3
      <4>2. u # t
        BY <2>2, <4>1 DEF Slam!None
      <4>3. pose'[u] = s
        BY <1>5, <4>1, <4>2 DEF PosesInv
      <4> QED BY <4>3 DEF Accounted
    <3>4. CASE slam_rels # <<>> /\ s <= slam_rels[Len(slam_rels)]
      BY <1>1, <3>4 DEF Accounted
    <3> QED BY <3>1, <3>2, <3>3, <3>4 DEF PosesInv, Accounted
  <2>9. PosesInv'
    BY <1>1, <1>5, <2>1, <2>5, <2>6, <2>7, <2>8 DEF PosesInv, Increasing
  <2> QED BY <1>2, <2>4, <2>9
<1> QED BY <1>4, <1>5 DEF Slam!PopPose
\* The cameras recorded for the pose become lines of the timing table.
LEMMA CameraTimingHolds ==
  ASSUME Slam!ConstantsAssumption, SlamInv, NEW t \in Slam!Threads,
         Slam!create_camera_timing(t)
  PROVE  SlamInv'
<1> USE DEF SlamInv
<1>1. /\ UNCHANGED <<set, cam, tracked, computed, Slam!cacheVars, when,
                     out_relation>>
      /\ UNCHANGED <<vit_queue, unread, slam_rels, pose>>
      /\ slam_pc[t] = "timing" /\ Slam!Goto(t, "push")
      /\ lines' = lines \union ({pose[t]} \X camera_timing_by_ts[pose[t]])
      /\ camera_timing_by_ts' = [camera_timing_by_ts EXCEPT ![pose[t]] = {}]
  BY DEF Slam!create_camera_timing, Slam!FlushUnchanged, Slam!At
<1>2. pose[t] \in Slam!Sets
  BY <1>1 DEF PosesInv
<1>3. AnswerInv'
  <2>1. camera_timing_by_ts[pose[t]] \subseteq Slam!Cams
    BY <1>2 DEF AnswerInv
  <2>2. {pose[t]} \X camera_timing_by_ts[pose[t]]
          \subseteq Slam!Sets \X Slam!Cams
    BY <1>2, <2>1
  <2>3. camera_timing_by_ts' \in [Slam!Sets -> SUBSET Slam!Cams]
    BY <1>1 DEF AnswerInv
  <2> QED BY <1>1, <2>2, <2>3 DEF AnswerInv, Slam!cacheVars
<1>4. DriverInv'
  BY <1>1 DEF DriverInv, Slam!Goto, PosesInv
<1>5. PosesInv'
  BY <1>1, PosesKept DEF SlamPlaces
<1> QED BY <1>3, <1>4, <1>5

\* The newest entry of a history that is not empty.
LEMMA LastElement ==
  ASSUME Slam!ConstantsAssumption, NEW rels \in Seq(Slam!Sets), rels # <<>>
  PROVE  /\ Len(rels) \in Nat /\ Len(rels) \in 1 .. Len(rels)
         /\ rels[Len(rels)] \in Nat
<1>1. Len(rels) \in Nat /\ Len(rels) # 0
  OBVIOUS
<1>2. Len(rels) \in 1 .. Len(rels)
  BY <1>1
<1>3. rels[Len(rels)] \in Slam!Sets
  BY <1>2
<1> QED BY <1>1, <1>2, <1>3 DEF Slam!Sets, Slam!ConstantsAssumption

(* m_relation_history_push keeps the history increasing, and what it is      *)
(* given is no newer than what the history then ends with.                   *)
LEMMA PushKeepsOrder ==
  ASSUME Slam!ConstantsAssumption, NEW rels \in Seq(Slam!Sets),
         Increasing(rels), NEW ts \in Slam!Sets
  PROVE  LET after == Slam!m_relation_history_push(rels, ts)
         IN  /\ after \in Seq(Slam!Sets) /\ Increasing(after)
             /\ after # <<>> /\ ts <= after[Len(after)]
             /\ rels # <<>> => rels[Len(rels)] <= after[Len(after)]
<1> USE DEF Slam!Sets, Slam!ConstantsAssumption
<1>1. CASE rels = <<>> \/ ts > rels[Len(rels)]
  <2> DEFINE after == Append(rels, ts)
  <2>1. Slam!m_relation_history_push(rels, ts) = after
    BY <1>1 DEF Slam!m_relation_history_push, Slam!Last
  <2>2. /\ after \in Seq(Slam!Sets) /\ Len(after) = Len(rels) + 1
             /\ Len(rels) \in Nat
        /\ after[Len(rels) + 1] = ts
        /\ \A i \in 1 .. Len(rels) : after[i] = rels[i]
    OBVIOUS
  <2>3. \A i \in 1 .. Len(rels) : rels[i] < ts
    <3> SUFFICES ASSUME NEW i \in 1 .. Len(rels) PROVE rels[i] < ts
      OBVIOUS
    <3>0. rels # <<>>
      OBVIOUS
    <3>1. Len(rels) \in 1 .. Len(rels) /\ rels[i] \in Nat
            /\ rels[Len(rels)] \in Nat
      BY <3>0, LastElement
    <3>2. rels[i] <= rels[Len(rels)]
      BY <3>1 DEF Increasing
    <3> QED BY <1>1, <3>1, <3>2
  <2> HIDE DEF after
  <2>4. Increasing(after)
    <3> SUFFICES ASSUME NEW i \in 1 .. Len(after), NEW j \in 1 .. Len(after),
                        i < j
                 PROVE  after[i] < after[j]
      BY DEF Increasing
    <3>1. i \in 1 .. Len(rels)
      BY <2>2
    <3>2. CASE j \in 1 .. Len(rels)
      BY <2>2, <3>1, <3>2 DEF Increasing
    <3>3. CASE j = Len(rels) + 1
      BY <2>2, <2>3, <3>1, <3>3
    <3>4. Len(after) = Len(rels) + 1 /\ Len(rels) \in Nat
      BY <2>2
    <3>5. j \in 1 .. Len(rels) \/ j = Len(rels) + 1
      BY <3>4
    <3> QED BY <3>2, <3>3, <3>5
  <2>5. after # <<>> /\ after[Len(after)] = ts
    BY <2>2
  <2>6. rels # <<>> => rels[Len(rels)] <= ts
    <3> SUFFICES ASSUME rels # <<>> PROVE rels[Len(rels)] <= ts
      OBVIOUS
    <3>1. Len(rels) \in 1 .. Len(rels) /\ rels[Len(rels)] \in Nat
      BY LastElement
    <3> QED BY <2>3, <3>1
  <2> QED BY <2>1, <2>2, <2>4, <2>5, <2>6
<1>2. CASE ~(rels = <<>> \/ ts > rels[Len(rels)])
  <2>1. Slam!m_relation_history_push(rels, ts) = rels
    BY <1>2 DEF Slam!m_relation_history_push, Slam!Last
  <2>2. rels[Len(rels)] \in Nat
    BY <1>2, LastElement
  <2> QED BY <1>2, <2>1, <2>2
<1> QED BY <1>1, <1>2

\* flush_poses adds its pose to the history.
LEMMA PushRelationHolds ==
  ASSUME Slam!ConstantsAssumption, SlamInv, NEW t \in Slam!Threads,
         Slam!PushRelation(t)
  PROVE  SlamInv'
<1> USE DEF SlamInv
<1>1. /\ UNCHANGED <<set, cam, tracked, computed, Slam!cacheVars, when,
                     out_relation>>
      /\ UNCHANGED <<vit_queue, unread, camera_timing_by_ts, lines>>
      /\ slam_pc[t] = "push" /\ Slam!Goto(t, "pop")
      /\ slam_rels' = Slam!m_relation_history_push(slam_rels, pose[t])
      /\ pose' = [pose EXCEPT ![t] = Slam!None]
  BY DEF Slam!PushRelation, Slam!FlushUnchanged, Slam!At
<1>2. pose[t] \in Slam!Sets
  BY <1>1 DEF PosesInv
<1>3. AnswerInv'
  BY <1>1 DEF AnswerInv, Slam!cacheVars
<1>4. DriverInv'
  BY <1>1 DEF DriverInv, Slam!Goto, PosesInv
<1>5. /\ slam_rels' \in Seq(Slam!Sets) /\ Increasing(slam_rels')
      /\ slam_rels' # <<>> /\ pose[t] <= slam_rels'[Len(slam_rels')]
      /\ slam_rels # <<>>
           => slam_rels[Len(slam_rels)] <= slam_rels'[Len(slam_rels')]
  BY <1>1, <1>2, PushKeepsOrder DEF PosesInv
<1>6. /\ slam_pc' \in [Slam!Threads -> SlamPlaces]
           /\ pose' \in [Slam!Threads -> Slam!Sets \union {Slam!None}]
      /\ \A u \in Slam!Threads : pose'[u] # Slam!None
           <=> slam_pc'[u] \in {"timing", "push"}
  BY <1>1 DEF PosesInv, Slam!Goto, SlamPlaces
<1>7. ASSUME NEW s \in (1 .. computed') \ unread' PROVE Accounted(s)'
  <2>1. CASE \E i \in 1 .. Len(vit_queue) : vit_queue[i] = s
    BY <1>1, <2>1 DEF Accounted
  <2>2. CASE \E u \in Slam!Threads : pose[u] = s
    <3>1. PICK u \in Slam!Threads : pose[u] = s
      BY <2>2
    <3>2. CASE u = t
      BY <1>5, <3>1, <3>2 DEF Accounted
    <3>3. CASE u # t
      <4>1. pose'[u] = s
        BY <1>1, <3>1, <3>3 DEF PosesInv
      <4> QED BY <4>1 DEF Accounted
    <3> QED BY <3>2, <3>3
  <2>3. CASE slam_rels # <<>> /\ s <= slam_rels[Len(slam_rels)]
    <3>1. slam_rels[Len(slam_rels)] \in Nat
      BY <2>3, LastElement DEF PosesInv
    <3>2. slam_rels'[Len(slam_rels')] \in Nat
      BY <1>5, LastElement
    <3>3. s \in Nat
      BY <1>1 DEF DriverInv
    <3> QED BY <1>5, <2>3, <3>1, <3>2, <3>3 DEF Accounted
  <2>4. s \in (1 .. computed) \ unread
    BY <1>1
  <2> QED BY <2>1, <2>2, <2>3, <2>4 DEF PosesInv, Accounted
<1>8. PosesInv'
  BY <1>1, <1>5, <1>6, <1>7 DEF PosesInv
<1> QED BY <1>3, <1>4, <1>8

(* The calls of the driver's thread outside flush_poses. *)
LEMMA ReceiveHolds ==
  ASSUME Slam!ConstantsAssumption, SlamInv,
         Slam!ReceiveFrame \/ Slam!PushImage \/ Slam!RecordTiming
  PROVE  SlamInv'
<1> USE DEF SlamInv
<1>1. /\ UNCHANGED <<lines, slam_rels, Slam!cacheVars, pose, when,
                     out_relation>>
      /\ UNCHANGED <<computed, vit_queue, unread>>
  BY DEF Slam!ReceiveFrame, Slam!PushImage, Slam!RecordTiming,
     Slam!CameraUnchanged, Slam!vitVars
<1>2. Slam!Camera \in Slam!Threads
  BY DEF Slam!Threads
<1>3. PICK at \in {"pop", "send", "record", "idle"} :
        /\ Slam!Goto(Slam!Camera, at)
        /\ slam_pc[Slam!Camera] \in {"idle", "flushed", "send", "record"}
  BY DEF Slam!ReceiveFrame, Slam!PushImage, Slam!RecordTiming, Slam!At
<1>4. PosesInv'
  BY <1>1, <1>2, <1>3, PosesKept DEF SlamPlaces
<1>5. slam_pc' = [slam_pc EXCEPT ![Slam!Camera] = at]
        /\ slam_pc'[Slam!Camera] = at
  BY <1>2, <1>3 DEF Slam!Goto, PosesInv
<1>6. CASE Slam!ReceiveFrame
  <2>1. UNCHANGED <<set, cam, tracked, camera_timing_by_ts>>
          /\ set \in Slam!Sets
    BY <1>6 DEF Slam!ReceiveFrame, Slam!vitVars
  <2>2. AnswerInv'
    BY <1>1, <2>1 DEF AnswerInv, Slam!cacheVars
  <2>3. DriverInv'
    BY <1>1, <2>1 DEF DriverInv, Slam!Sets, Slam!ConstantsAssumption
  <2> QED BY <1>4, <2>2, <2>3
<1>7. CASE Slam!PushImage
  <2>1. /\ UNCHANGED <<set, cam, camera_timing_by_ts>>
        /\ tracked' = set \/ tracked' = tracked
        /\ slam_pc[Slam!Camera] # "idle"
    BY <1>7 DEF Slam!PushImage
  <2>2. AnswerInv'
    BY <1>1, <2>1 DEF AnswerInv, Slam!cacheVars
  <2>3. DriverInv'
    BY <1>1, <2>1 DEF DriverInv, Slam!ConstantsAssumption
  <2> QED BY <1>4, <2>2, <2>3
<1>8. CASE Slam!RecordTiming
  <2>1. /\ UNCHANGED tracked
        /\ camera_timing_by_ts' =
             [camera_timing_by_ts EXCEPT ![set] = @ \union {cam}]
        /\ cam' = (cam + 1) % CamCount
        /\ set' = IF cam = CamCount - 1 THEN set + 1 ELSE set
        /\ Slam!Goto(Slam!Camera, "idle") /\ slam_pc[Slam!Camera] # "idle"
    BY <1>8 DEF Slam!RecordTiming, Slam!vitVars, Slam!At
  <2>2. set \in Slam!Sets
    BY <2>1 DEF DriverInv, Slam!Sets, Slam!ConstantsAssumption
  <2>3. AnswerInv'
    <3>1. camera_timing_by_ts' \in [Slam!Sets -> SUBSET Slam!Cams]
      BY <2>1, <2>2 DEF AnswerInv, DriverInv
    <3> QED BY <1>1, <3>1 DEF AnswerInv, Slam!cacheVars
  <2>4. cam' \in Slam!Cams
    BY <2>1 DEF DriverInv, Slam!Cams, Slam!ConstantsAssumption
  <2>5. slam_pc'[Slam!Camera] = "idle"
    BY <1>2, <2>1 DEF Slam!Goto, PosesInv
  <2>6. DriverInv'
    BY <1>1, <2>1, <2>2, <2>4, <2>5
    DEF DriverInv, Slam!Sets, Slam!ConstantsAssumption
  <2> QED BY <1>4, <2>3, <2>6
<1> QED BY <1>6, <1>7, <1>8

(* The calls of a locator outside flush_poses. *)
LEMMA LocateHolds ==
  ASSUME Slam!ConstantsAssumption, SlamInv, NEW l \in Locators, Slam!Locate(l)
  PROVE  SlamInv'
<1> USE DEF SlamInv
<1>1. UNCHANGED <<set, cam, tracked, computed, vit_queue, unread,
                  camera_timing_by_ts>>
      /\ UNCHANGED <<lines, slam_rels, pose>>
  BY DEF Slam!Locate, Slam!GetTrackedPose, Slam!ReturnCached,
     Slam!predict_pose, Slam!CacheRelation, Slam!CacheTime,
         Slam!LocateUnchanged, Slam!vitVars
<1>2. l \in Slam!Threads /\ l # Slam!Camera
  BY DEF Slam!Threads, Slam!Camera, Slam!ConstantsAssumption
<1>3. PICK at \in {"idle", "cached", "pop", "cacheRelation", "cacheTime"} :
        Slam!Goto(l, at)
          /\ slam_pc[l] \in {"idle", "cached", "flushed", "cacheRelation",
               "cacheTime"}
  <2>1. CASE Slam!GetTrackedPose(l)
    BY <2>1 DEF Slam!GetTrackedPose, Slam!At
  <2>2. CASE Slam!ReturnCached(l) \/ Slam!predict_pose(l)
               \/ Slam!CacheRelation(l) \/ Slam!CacheTime(l)
    BY <2>2
    DEF Slam!ReturnCached, Slam!predict_pose, Slam!CacheRelation,
        Slam!CacheTime, Slam!At
  <2> QED BY <2>1, <2>2 DEF Slam!Locate
<1>4. PosesInv'
  BY <1>1, <1>2, <1>3, PosesKept DEF SlamPlaces
<1>5. DriverInv'
  BY <1>1, <1>2, <1>3 DEF DriverInv, Slam!Goto
<1>6. when' \in [Locators -> WhenTimes \union {Slam!None}]
  BY DEF Slam!Locate, Slam!GetTrackedPose, Slam!ReturnCached,
     Slam!predict_pose, Slam!CacheRelation, Slam!CacheTime, AnswerInv
<1>7. slam_last_ts' \in WhenTimes \union {Slam!None}
  BY DEF Slam!Locate, Slam!GetTrackedPose, Slam!ReturnCached,
     Slam!predict_pose, Slam!CacheRelation, Slam!CacheTime, Slam!cacheVars,
         AnswerInv
<1>8. out_relation' \in [Locators -> Slam!Relations]
  <2>1. CASE Slam!predict_pose(l)
    <3> DEFINE from == IF slam_rels = <<>> THEN Slam!None
          ELSE Slam!Last(slam_rels)
    <3>1. from \in Slam!Sets \union {Slam!None}
      <4>1. slam_rels # <<>> => slam_rels[Len(slam_rels)] \in Slam!Sets
        <5>1. slam_rels # <<>> => Len(slam_rels) \in 1 .. Len(slam_rels)
          BY LastElement DEF PosesInv
        <5> QED BY <5>1 DEF PosesInv
      <4> QED BY <4>1 DEF Slam!Last
    <3>2. out_relation' = [out_relation EXCEPT ![l] =
            [for |-> when[l], from |-> from]]
      BY <2>1 DEF Slam!predict_pose
    <3> HIDE DEF from
    <3>3. [for |-> when[l], from |-> from] \in Slam!Relations
      BY <3>1 DEF Slam!Relations, AnswerInv
    <3> QED BY <3>2, <3>3 DEF AnswerInv
  <2>2. CASE Slam!ReturnCached(l)
    BY <2>2 DEF Slam!ReturnCached, AnswerInv
  <2>3. CASE Slam!GetTrackedPose(l) \/ Slam!CacheRelation(l)
               \/ Slam!CacheTime(l)
    BY <2>3
    DEF Slam!GetTrackedPose, Slam!CacheRelation, Slam!CacheTime, AnswerInv
  <2> QED BY <2>1, <2>2, <2>3 DEF Slam!Locate
<1>9. last_rel' \in Slam!Relations
  BY DEF Slam!Locate, Slam!GetTrackedPose, Slam!ReturnCached,
     Slam!predict_pose, Slam!CacheRelation, Slam!CacheTime, Slam!cacheVars,
         AnswerInv
<1>10. AnswerInv'
  BY <1>1, <1>6, <1>7, <1>8, <1>9 DEF AnswerInv
<1> QED BY <1>4, <1>5, <1>10

\* The SLAM system computes the pose of a set it has complete.
LEMMA ComputeHolds ==
  ASSUME Slam!ConstantsAssumption, SlamInv, Slam!ComputePose
  PROVE  SlamInv'
<1> USE DEF SlamInv
<1>1. /\ UNCHANGED <<set, cam, tracked, unread, camera_timing_by_ts, lines>>
      /\ UNCHANGED <<slam_rels, Slam!cacheVars, slam_pc, pose, when,
                     out_relation>>
      /\ computed' = computed + 1 /\ computed < tracked
      /\ vit_queue' = Append(vit_queue, computed')
  BY DEF Slam!ComputePose
<1>2. AnswerInv'
  BY <1>1 DEF AnswerInv, Slam!cacheVars
<1>3. DriverInv'
  BY <1>1 DEF DriverInv, Slam!ConstantsAssumption
<1>4. computed' \in Slam!Sets
  BY <1>1 DEF DriverInv, Slam!Sets, Slam!ConstantsAssumption
<1>5. /\ vit_queue' \in Seq(Slam!Sets) /\ Len(vit_queue') = Len(vit_queue) + 1
      /\ Len(vit_queue) \in Nat
      /\ vit_queue'[Len(vit_queue) + 1] = computed'
      /\ \A i \in 1 .. Len(vit_queue) : vit_queue'[i] = vit_queue[i]
  BY <1>1, <1>4 DEF PosesInv
<1>6. ASSUME NEW s \in (1 .. computed') \ unread' PROVE Accounted(s)'
  <2>1. CASE s = computed'
    BY <1>5, <2>1 DEF Accounted
  <2>2. CASE s # computed'
    <3>1. s \in (1 .. computed) \ unread
      BY <1>1, <2>2 DEF DriverInv
    <3>2. Accounted(s)
      BY <3>1 DEF PosesInv
    <3> QED BY <1>1, <1>5, <3>2 DEF Accounted
  <2> QED BY <2>1, <2>2
<1>7. PosesInv'
  BY <1>1, <1>5, <1>6 DEF PosesInv
<1> QED BY <1>2, <1>3, <1>7

\* At first there is no pose and nobody is in a call.
LEMMA SlamInitHolds ==
  ASSUME Slam!ConstantsAssumption, Slam!Init
  PROVE  SlamInv
<1>1. DriverInv
  <2>1. 1 \in 1 .. MaxSets + 1 /\ 0 \in 0 .. MaxSets /\ 0 \in Slam!Cams
    BY DEF Slam!ConstantsAssumption, Slam!Cams
  <2>2. Slam!Camera \in Slam!Threads
    BY DEF Slam!Threads
  <2> QED BY <2>1, <2>2 DEF Slam!Init, DriverInv, Slam!None
<1>2. AnswerInv
  <2>1. Slam!NoRelation \in Slam!Relations
    BY DEF Slam!NoRelation, Slam!Relations
  <2> QED BY <2>1 DEF Slam!Init, AnswerInv
<1>3. PosesInv
  BY DEF Slam!Init, PosesInv, SlamPlaces, Increasing, Slam!None
<1> QED BY <1>1, <1>2, <1>3 DEF SlamInv

(* t_tracker_slam.cpp: the history of poses is increasing, and every pose    *)
(* the SLAM system computed and could hand out waits in its queue, is in the *)
(* hands of a thread in flush_poses, or is as old as one in the history; for *)
(* any number of cameras, sets of images and threads that ask for poses.     *)
THEOREM SlamInvariant ==
  ASSUME Slam!ConstantsAssumption
  PROVE  Slam!Spec => []SlamInv
<1>1. SlamInv /\ [Slam!Next]_(Slam!vars) => SlamInv'
  <2> SUFFICES ASSUME SlamInv, [Slam!Next]_(Slam!vars) PROVE SlamInv'
    OBVIOUS
  <2>1. CASE UNCHANGED Slam!vars
    <3>1. \A s \in (1 .. computed') \ unread' : Accounted(s)'
      BY <2>1 DEF Slam!vars, Slam!vitVars, SlamInv, PosesInv, Accounted
    <3> QED BY <2>1, <3>1
            DEF Slam!vars, Slam!vitVars, Slam!cacheVars, SlamInv, DriverInv,
                AnswerInv, PosesInv, Increasing
  <2> QED
    BY <2>1, PopPoseHolds, CameraTimingHolds, PushRelationHolds, ReceiveHolds,
       LocateHolds,
       ComputeHolds DEF Slam!Next, Slam!Flush
<1> QED BY <1>1, SlamInitHolds, PTL DEF Slam!Spec

(* So a thread that finds the queue empty while no other flushes has the     *)
(* latest pose in the history.                                               *)
THEOREM HistoryStaysCurrent ==
  ASSUME Slam!ConstantsAssumption
  PROVE  Slam!Spec => [](Slam!TypeOK /\ Slam!HistoryIsCurrent)
<1>1. SlamInv => Slam!TypeOK /\ Slam!HistoryIsCurrent
  <2> SUFFICES ASSUME SlamInv PROVE Slam!TypeOK /\ Slam!HistoryIsCurrent
    OBVIOUS
  <2> USE DEF SlamInv
  <2>1. Slam!TypeOK
    <3>1. {tracked, computed} \subseteq Slam!Sets \union {Slam!None}
      BY DEF DriverInv, Slam!Sets, Slam!None, Slam!ConstantsAssumption
    <3> QED BY <3>1 DEF Slam!TypeOK, DriverInv, AnswerInv, PosesInv, SlamPlaces
  <2>2. DOMAIN slam_rels = 1 .. Len(slam_rels)
    BY DEF PosesInv
  <2>3. ASSUME vit_queue = <<>>, \A t \in Slam!Threads : pose[t] = Slam!None,
               NEW s \in (1 .. computed) \ unread
        PROVE  slam_rels # <<>> /\ s <= Slam!Last(slam_rels)
    <3>1. Accounted(s)
      BY DEF PosesInv
    <3>2. ~(\E t \in Slam!Threads : pose[t] = s)
      BY <2>3 DEF Slam!None
    <3>3. ~(\E i \in 1 .. Len(vit_queue) : vit_queue[i] = s)
      BY <2>3
    <3> QED BY <3>1, <3>2, <3>3 DEF Accounted, Slam!Last
  <2> QED BY <2>1, <2>2, <2>3 DEF Slam!HistoryIsCurrent, PosesInv, Increasing
<1> QED BY <1>1, SlamInvariant, PTL

-----------------------------------------------------------------------------
(* TimingPipeline: one session, whose frames have a row each while they are  *)
(* in flight, and no pose query ahead of them.                               *)

(* TimingPipeline has its own copy of the operators on finite sets.          *)
LEMMA TimingSets ==
  ASSUME NEW S
  PROVE  Timing!Cardinality(S) = Cardinality(S)
BY DEF Timing!Cardinality, Cardinality

\* The session, when there is one.
Only == CHOOSE s \in Sessions : TRUE
Our == session[Only]

\* A mark was made for the frame f of the session.
Made(f, point) == <<<<Only, f.id>>, point>> \in marked
\* The row of a frame.
RowOf(f) == rows[f.id % RowCount]
\* The frames in flight: waited for, and begun.
Live == {Our.waited, Our.begun} \ {Timing!NoFrame}

\* The pose for f was asked for by xrLocateViews, and is not computed yet.
Asked(f) ==
  /\ f = Timing!Rendered(Only)
  /\ Our.asks > 0 \/ asking[Only] = f.display

(* The turn of the calls: the frame an application waits for is its latest,  *)
(* the one it began is that or the one before, and poses are asked for one   *)
(* of the two.                                                               *)
TurnInv ==
  /\ Our.last # Timing!NoFrame => Our.last.id > 0 /\ Our.last.display > 0
  /\ Our.waited \in {Timing!NoFrame, Our.last}
  /\ Our.waited = Timing!NoFrame => Our.begun \in {Timing!NoFrame, Our.last}
  /\ Our.waited # Timing!NoFrame /\ Our.begun # Timing!NoFrame =>
       /\ Our.begun.id > 0 /\ Our.begun.id = Our.last.id - 1
       /\ Our.begun.display > 0 /\ Our.begun.display < Our.last.display
  /\ ~Timing!InNoCall(Only) => Timing!Rendered(Only) # Timing!NoFrame
  /\ asking[Only] \in {0, Timing!Rendered(Only).display}

\* Nothing is known of a frame or a time the session has not reached.
BoundsInv ==
  /\ \A t \in Timing!Threads : asking[t] <= Our.last.display
  /\ last_ts <= Our.last.display
  /\ \A i \in Timing!Slots : /\ rows[i].display <= Our.last.display
                             /\ rows[i].frame_id <= Our.last.id
  /\ \A mark \in marked : mark[1][2] <= Our.last.id
  /\ marked # {} => Timing!Writing

(* The row of a frame in flight holds the marks that were made for it and no *)
(* others, it is the only row with the frame's display time, and its pose is *)
(* computed unless the question is still open.                               *)
RowInv(f) ==
  /\ ~Made(f, "present")
  /\ Made(f, "wait") \/ Made(f, "begin") =>
       RowOf(f).active /\ RowOf(f).frame_id = f.id
  /\ RowOf(f).active /\ RowOf(f).frame_id = f.id =>
       /\ RowOf(f).wait = IF Made(f, "wait") THEN <<Only, f.id>>
                          ELSE Timing!None
       /\ RowOf(f).begin = IF Made(f, "begin") THEN <<Only, f.id>>
                           ELSE Timing!None
       /\ ~RowOf(f).emitted
  /\ Made(f, "wait") =>
       /\ RowOf(f).display = f.display
       /\ \A i \in Timing!Slots : rows[i].active /\ rows[i].display = f.display
                             => i = f.id % RowCount
       /\ last_ts = f.display => RowOf(f).predict
       /\ Made(f, "locate") => /\ RowOf(f).locate # "unset"
                               /\ RowOf(f).predict \/ Asked(f)

\* A line holds the marks of the frame that was presented.
LineInv(line) ==
  /\ line.present \in Timing!Frames
  /\ <<line.present, "present">> \in marked
  /\ line.wait = IF <<line.present, "wait">> \in marked THEN line.present
                 ELSE Timing!None
  /\ line.begin = IF <<line.present, "begin">> \in marked THEN line.present
                  ELSE Timing!None
  /\ <<line.present, "wait">> \in marked /\
     <<line.present, "locate">> \in marked
       => line.locate # "unset" /\ line.predict

\* Each frame that was presented has one line.
CsvInv ==
  /\ \A i \in 1 .. Len(csv) : LineInv(csv[i])
  /\ \A i, j \in 1 .. Len(csv) : csv[i].present = csv[j].present => i = j
  /\ \A f \in Timing!Frames : <<f, "present">> \in marked =>
       \E i \in 1 .. Len(csv) : csv[i].present = f

\* The inductive invariant of the timing pipeline.
TimingInv ==
  /\ Timing!TypeOK /\ TurnInv /\ BoundsInv /\ CsvInv
  /\ \A f \in Live : RowInv(f)

\* A set of one element has the element CHOOSE finds in it.
LEMMA OnlyOne ==
  ASSUME NEW s, Sessions = {s}
  PROVE  Only = s /\ Sessions = {Only}
BY DEF Only

\* The types of a row, and of what a mark by display time makes of it.
LEMMA RowFields ==
  ASSUME NEW r \in Timing!DisplayRow
  PROVE  /\ r.active \in BOOLEAN /\ r.emitted \in BOOLEAN
         /\ r.frame_id \in 0 .. SessionFrames /\ r.display \in 0 .. MaxTime
         /\ r.wait \in Timing!Frames \union {Timing!None}
         /\ r.begin \in Timing!Frames \union {Timing!None}
         /\ r.present \in Timing!Frames \union {Timing!None}
         /\ r.locate \in {"unset", "call", "computed", "cached"}
         /\ r.predict \in BOOLEAN
BY DEF Timing!DisplayRow

\* U_ZERO of a row.
LEMMA UnusedRow ==
  ASSUME Timing!ConstantsAssumption
  PROVE  /\ Timing!Unused \in Timing!DisplayRow
         /\ Timing!Unused.active = FALSE /\ Timing!Unused.emitted = FALSE
         /\ Timing!Unused.frame_id = 0 /\ Timing!Unused.display = 0
         /\ Timing!Unused.wait = Timing!None
         /\ Timing!Unused.begin = Timing!None
         /\ Timing!Unused.present = Timing!None
         /\ Timing!Unused.locate = "unset" /\ Timing!Unused.predict = FALSE
BY DEF Timing!Unused, Timing!DisplayRow, Timing!ConstantsAssumption

\* The marks by display time: locate, and predict.
IsMark(column, value) ==
  \/ column = "locate" /\ value \in {"call", "computed", "cached"}
  \/ column = "predict" /\ value = TRUE

\* What such a mark makes of a row.
Given(r, time, column, value) ==
  [r EXCEPT !.active = TRUE, !.display = time, ![column] = value]

\* It changes its column, and the row has the time.
LEMMA GivenFields ==
  ASSUME NEW r \in Timing!DisplayRow, NEW time
           \in Timing!Times, Timing!ConstantsAssumption,
         NEW column, NEW value, IsMark(column, value)
  PROVE  LET g == Given(r, time, column, value)
         IN  /\ g \in Timing!DisplayRow
             /\ g.active /\ g.display = time
             /\ g.frame_id = r.frame_id /\ g.emitted = r.emitted
             /\ g.wait = r.wait /\ g.begin = r.begin
             /\ IF column = "locate" THEN g.locate = value /\ g.predict =
                  r.predict
                ELSE g.locate = r.locate /\ g.predict
<1>1. time \in 0 .. MaxTime
  BY DEF Timing!Times, Timing!ConstantsAssumption
<1>2. CASE column = "locate" /\ value \in {"call", "computed", "cached"}
  <2>1. Given(r, time, column, value) =
          [r EXCEPT !.active = TRUE, !.display = time, !.locate = value]
    BY <1>2 DEF Given
  <2> QED BY <1>1, <1>2, <2>1 DEF Timing!DisplayRow
<1>3. CASE column = "predict" /\ value = TRUE
  <2>1. Given(r, time, column, value) =
          [r EXCEPT !.active = TRUE, !.display = time, !.predict = TRUE]
    BY <1>3 DEF Given
  <2> QED BY <1>1, <1>3, <2>1 DEF Timing!DisplayRow
<1> QED BY <1>2, <1>3 DEF IsMark

\* get_display_row_by_display_time_locked finds one row at most: with the
\* time, or if there is none a free one.
\* A set of numbers that is not empty has a least one.
LEMMA LeastSlot ==
  ASSUME NEW S, S # {}, S \subseteq Nat
  PROVE  \E j \in S : \A k \in S : j <= k
<1>1. PICK j \in S : \A k \in S : <<k, j>> \notin OpToRel(<, Nat)
  BY NatLessThanWellFounded, WFMin, Zenon
<1>2. \A k \in S : ~(k < j)
  BY <1>1 DEF OpToRel
<1> QED BY <1>2

LEMMA FoundRow ==
  ASSUME NEW time, NEW i \in Timing!by_display_time(time),
           Timing!ConstantsAssumption
  PROVE  /\ Timing!by_display_time(time) = {i} /\ i \in Timing!Slots
         /\ rows[i].active => rows[i].display = time
         /\ ~rows[i].active =>
              \A j \in Timing!Slots :
                ~(rows[j].active /\ rows[j].display = time)
<1> DEFINE same == {j \in Timing!Slots : rows[j].active /\ rows[j].display =
                     time}
           free == {j \in Timing!Slots : ~rows[j].active}
           found == IF same # {} THEN same ELSE free
<1>1. Timing!by_display_time(time) = IF same \union free =
        {} THEN {} ELSE {Timing!First(found)}
  BY DEF Timing!by_display_time
<1>2. same \union free # {} /\ i = Timing!First(found)
  BY <1>1
<1>3. found # {} /\ found \subseteq Timing!Slots
  BY <1>2
<1>4. Timing!Slots \subseteq Nat
  BY DEF Timing!Slots, Timing!ConstantsAssumption
<1> HIDE DEF found
<1>5. \E j \in found : \A k \in found : j <= k
  BY <1>3, <1>4, LeastSlot
<1>6. Timing!First(found) \in found
  BY <1>5 DEF Timing!First
<1>7. Timing!by_display_time(time) = {i}
  BY <1>1, <1>2
<1> QED BY <1>2, <1>6, <1>7 DEF found

\* The only row with a display time.
OnlyRow(table, i, time) ==
  /\ table[i].active /\ table[i].display = time
  /\ \A j \in Timing!Slots : table[j].active /\ table[j].display = time
       => j = i

\* A mark by display time changes one row, and only that column of a row
\* which is in use.
LEMMA MarkTimeRows ==
  ASSUME Timing!ConstantsAssumption, rows
           \in [Timing!Slots -> Timing!DisplayRow],
         NEW time \in Timing!Times, NEW column, NEW value,
           IsMark(column, value),
         Timing!MarkTime(time, column, value)
  PROVE  /\ rows' \in [Timing!Slots -> Timing!DisplayRow]
         /\ \A i \in Timing!Slots :
              /\ rows'[i].frame_id \in {0, rows[i].frame_id}
              /\ rows'[i].display \in {time, rows[i].display}
              /\ rows'[i].active /\ rows'[i].frame_id # 0 =>
                   /\ rows[i].active /\ rows'[i].frame_id = rows[i].frame_id
                   /\ rows'[i].wait = rows[i].wait
                   /\ rows'[i].begin = rows[i].begin
                   /\ rows'[i].emitted = rows[i].emitted
              /\ rows[i].active =>
                   /\ rows'[i].active /\ rows'[i].frame_id = rows[i].frame_id
                   /\ rows'[i].display = rows[i].display
                   /\ rows[i].locate # "unset" => rows'[i].locate # "unset"
                   /\ rows[i].predict => rows'[i].predict
              /\ OnlyRow(rows, i, time) /\ Timing!Writing =>
                   IF column = "locate" THEN rows'[i].locate # "unset"
                   ELSE rows'[i].predict
         /\ \A i \in Timing!Slots, d \in Nat :
              OnlyRow(rows, i, d) => OnlyRow(rows', i, d)
<1>1. CASE ~Timing!Writing \/ Timing!by_display_time(time) = {}
  <2>1. rows' = rows
    BY <1>1 DEF Timing!MarkTime
  <2>2. \A i \in Timing!Slots : ~(OnlyRow(rows, i, time) /\ Timing!Writing)
    BY <1>1 DEF OnlyRow, Timing!by_display_time
  <2> QED BY <2>1, <2>2
<1>2. CASE Timing!Writing /\ Timing!by_display_time(time) # {}
  <2>1. PICK h \in Timing!by_display_time(time) : TRUE
    BY <1>2
  <2>2. /\ Timing!by_display_time(time) = {h} /\ h \in Timing!Slots
        /\ rows[h].active => rows[h].display = time
        /\ ~rows[h].active =>
             \A j \in Timing!Slots :
               ~(rows[j].active /\ rows[j].display = time)
    BY <2>1, FoundRow
  <2> DEFINE r == IF rows[h].active THEN rows[h] ELSE Timing!Unused
             g == Given(r, time, column, value)
  <2>3. rows' = [i \in Timing!Slots |-> IF i = h THEN g ELSE rows[i]]
    BY <1>2, <2>2 DEF Timing!MarkTime, Given
  <2>4. r \in Timing!DisplayRow
    BY <2>2, UnusedRow
  <2>5. /\ r.frame_id = IF rows[h].active THEN rows[h].frame_id ELSE 0
        /\ rows[h].active => r = rows[h]
    BY UnusedRow
  <2> HIDE DEF r
  <2>6. /\ g \in Timing!DisplayRow
        /\ g.active /\ g.display = time
        /\ g.frame_id = r.frame_id /\ g.emitted = r.emitted
        /\ g.wait = r.wait /\ g.begin = r.begin
        /\ IF column = "locate" THEN g.locate = value /\ g.predict = r.predict
           ELSE g.locate = r.locate /\ g.predict
    BY <2>4, GivenFields, Zenon
  <2> HIDE DEF g
  <2>7. rows'[h] = g /\ \A i \in Timing!Slots : i # h => rows'[i] = rows[i]
    BY <2>2, <2>3
  <2>8. rows' \in [Timing!Slots -> Timing!DisplayRow]
    BY <2>3, <2>6
  <2>9. column = "locate" => value # "unset"
    BY DEF IsMark
  <2>10. \A i \in Timing!Slots : OnlyRow(rows, i, time) => i = h
    BY <2>2 DEF OnlyRow
  <2>11. ASSUME NEW i \in Timing!Slots
         PROVE /\ rows'[i].frame_id \in {0, rows[i].frame_id}
               /\ rows'[i].display \in {time, rows[i].display}
               /\ rows'[i].active /\ rows'[i].frame_id # 0 =>
                    /\ rows[i].active /\ rows'[i].frame_id = rows[i].frame_id
                    /\ rows'[i].wait = rows[i].wait
                    /\ rows'[i].begin = rows[i].begin
                    /\ rows'[i].emitted = rows[i].emitted
               /\ rows[i].active =>
                    /\ rows'[i].active /\ rows'[i].frame_id = rows[i].frame_id
                    /\ rows'[i].display = rows[i].display
                    /\ rows[i].locate # "unset" => rows'[i].locate # "unset"
                    /\ rows[i].predict => rows'[i].predict
               /\ OnlyRow(rows, i, time) /\ Timing!Writing =>
                    IF column = "locate" THEN rows'[i].locate # "unset"
                    ELSE rows'[i].predict
    <3>1. CASE i # h
      BY <2>7, <2>10, <3>1
    <3>2. CASE i = h
      BY <2>2, <2>5, <2>6, <2>7, <2>9, <3>2
    <3> QED BY <3>1, <3>2
  <2>12. ASSUME NEW i \in Timing!Slots, NEW d \in Nat, OnlyRow(rows, i, d)
         PROVE  OnlyRow(rows', i, d)
    <3>1. rows'[i].active /\ rows'[i].display = d
      BY <2>11, <2>12 DEF OnlyRow
    <3>2. ASSUME NEW j \in Timing!Slots, rows'[j].active, rows'[j].display = d
          PROVE  j = i
      <4>1. CASE j # h
        BY <2>7, <2>12, <3>2, <4>1 DEF OnlyRow
      <4>2. CASE j = h
        BY <2>2, <2>6, <2>7, <2>12, <3>2, <4>2 DEF OnlyRow
      <4> QED BY <4>1, <4>2
    <3> QED BY <3>1, <3>2 DEF OnlyRow
  <2> QED BY <2>8, <2>11, <2>12
<1> QED BY <1>1, <1>2

\* What that means for the row of a frame in flight.
LEMMA MarkTimeKeepsRow ==
  ASSUME Timing!ConstantsAssumption, rows
           \in [Timing!Slots -> Timing!DisplayRow],
         NEW time \in Timing!Times, NEW column, NEW value,
           IsMark(column, value),
         Timing!MarkTime(time, column, value),
         NEW f \in Timing!FrameRef, f.id # 0, RowInv(f),
         Made(f, "present")' = Made(f, "present"),
         Made(f, "wait")' = Made(f, "wait"),
         Made(f, "begin")' = Made(f, "begin"),
         Made(f, "wait") => Timing!Writing,
         Made(f, "wait") /\ last_ts' = f.display => RowOf(f)'.predict,
         Made(f, "wait") /\ Made(f, "locate")' =>
           /\ RowOf(f)'.locate # "unset"
           /\ RowOf(f)'.predict \/ Asked(f)'
  PROVE  RowInv(f)'
<1> DEFINE i == f.id % RowCount
<1>1. i \in Timing!Slots /\ f.id \in Nat /\ f.display \in Nat
  BY DEF Timing!FrameRef, Timing!Slots, Timing!ConstantsAssumption
<1>2. RowOf(f) = rows[i] /\ RowOf(f)' = rows'[i]
  BY DEF RowOf
<1> HIDE DEF i
<1>3. /\ rows'[i].active /\ rows'[i].frame_id # 0 =>
           /\ rows[i].active /\ rows'[i].frame_id = rows[i].frame_id
           /\ rows'[i].wait = rows[i].wait
           /\ rows'[i].begin = rows[i].begin
           /\ rows'[i].emitted = rows[i].emitted
      /\ rows[i].active =>
           /\ rows'[i].active /\ rows'[i].frame_id = rows[i].frame_id
           /\ rows'[i].display = rows[i].display
      /\ OnlyRow(rows, i, f.display) => OnlyRow(rows', i, f.display)
  BY <1>1, MarkTimeRows
<1>4. Made(f, "wait") => OnlyRow(rows, i, f.display)
  BY <1>2 DEF RowInv, OnlyRow, i
<1>5. Made(f, "wait")' =>
        /\ RowOf(f)'.display = f.display
        /\ \A j \in Timing!Slots : rows'[j].active /\ rows'[j].display =
             f.display
                              => j = i
  BY <1>2, <1>3, <1>4 DEF OnlyRow
<1>6. RowOf(f)'.active /\ RowOf(f)'.frame_id = f.id =>
        /\ RowOf(f).active /\ RowOf(f).frame_id = f.id
        /\ RowOf(f)'.wait = RowOf(f).wait
        /\ RowOf(f)'.begin = RowOf(f).begin
        /\ RowOf(f)'.emitted = RowOf(f).emitted
  BY <1>2, <1>3
<1>7. RowOf(f).active /\ RowOf(f).frame_id = f.id =>
        RowOf(f)'.active /\ RowOf(f)'.frame_id = f.id
  BY <1>2, <1>3
<1> QED BY <1>5, <1>6, <1>7 DEF RowInv, i

\* % and \div by a number that is a parameter.
LEMMA Division ==
  ASSUME NEW a \in Int, NEW n \in Nat \ {0}
  PROVE  /\ a \div n \in Int /\ a % n \in 0 .. n - 1
         /\ a % n = a - n * (a \div n)
<1>1. a % n = a - n * (a \div n)
  BY SMTT(30)
<1> QED BY <1>1

\* Numbers less than n apart that have the same rest are the same.
LEMMA SameRest ==
  ASSUME NEW a \in Int, NEW b \in Int, NEW n \in Nat \ {0},
         a % n = b % n, a <= b, b - a < n
  PROVE  a = b
<1> DEFINE q == a \div n
           r == b \div n
           s == a % n
<1>1. q \in Int /\ r \in Int /\ s = a - n * q /\ s = b - n * r
  BY Division
<1> HIDE DEF q, r, s
<1>2. b - a = n * (r - q)
  BY <1>1
<1>3. CASE r - q >= 1
  <2>1. n * (r - q) >= n
    BY <1>1, <1>3
  <2> QED BY <1>1, <1>2, <2>1
<1>4. CASE r - q <= 0
  <2>1. n * (r - q) <= 0
    BY <1>1, <1>4
  <2> QED BY <1>1, <1>2, <2>1
<1> QED BY <1>1, <1>3, <1>4

\* What the section assumes: one session, in a table of more than one row,
\* and no pose query ahead of its frames.
Single ==
  /\ Timing!ConstantsAssumption
  /\ Sessions = {Only}
  /\ RowCount > 1
  /\ ~Ahead

\* What is remembered of a session.
SessionRecord ==
  [state: {"none", "running", "ended"}, last: Timing!FrameRef,
    waited: Timing!FrameRef,
   begun: Timing!FrameRef, asks: 0 .. 1]

\* The types of a frame.
LEMMA FrameFields ==
  ASSUME Timing!ConstantsAssumption
  PROVE  /\ Timing!NoFrame \in Timing!FrameRef /\ Timing!NoFrame.id = 0
         /\ Timing!NoFrame.display = 0
         /\ \A f \in Timing!FrameRef :
              /\ f.id \in Nat /\ f.display \in Nat
              /\ f.id <= SessionFrames /\ f.display <= MaxTime
              /\ f.id = 0 /\ f.display = 0 => f = Timing!NoFrame
BY DEF Timing!NoFrame, Timing!FrameRef, Timing!ConstantsAssumption

\* The types, for the one session.
LEMMA OurTypes ==
  ASSUME Single, Timing!TypeOK
  PROVE  /\ Only \in Sessions /\ Only \in Timing!Threads
         /\ Timing!Native \in Timing!Threads
         /\ Only # Timing!Native /\ Timing!Threads = {Only, Timing!Native}
         /\ session \in [Sessions -> SessionRecord] /\ Our \in SessionRecord
         /\ Our.last \in Timing!FrameRef /\ Our.waited \in Timing!FrameRef
         /\ Our.begun \in Timing!FrameRef /\ Our.asks \in 0 .. 1
         /\ rows \in [Timing!Slots -> Timing!DisplayRow]
         /\ asking \in [Timing!Threads -> 0 .. MaxTime]
         /\ asking[Only] \in Nat /\ asking[Timing!Native] \in Nat
         /\ last_ts \in Nat
BY DEF Single, Timing!TypeOK, Timing!ConstantsAssumption, Timing!Threads,
       Timing!Native, Our, SessionRecord

\* A frame in flight has an id and a display time that were given.
LEMMA LiveFrames ==
  ASSUME Single, Timing!TypeOK, TurnInv
  PROVE  /\ Our.last.id \in Nat /\ Our.last.display \in Nat
         /\ \A f \in Live :
              /\ f \in Timing!FrameRef /\ f.id # 0 /\ f.display # 0
              /\ f.id \in Nat /\ f.id <= Our.last.id
              /\ f.display \in Nat /\ f.display <= Our.last.display
              /\ f.display \in Timing!Times /\ <<Only, f.id>> \in Timing!Frames
         /\ Timing!Rendered(Only) \in Live \union {Timing!NoFrame}
<1>1. /\ Our.last \in Timing!FrameRef /\ Our.waited \in Timing!FrameRef
      /\ Our.begun \in Timing!FrameRef /\ Only \in Sessions
  BY OurTypes
<1>2. Timing!ConstantsAssumption /\ SessionFrames \in Nat /\ MaxTime \in Nat
  BY DEF Single, Timing!ConstantsAssumption
<1>3. /\ Our.last.id \in Nat /\ Our.last.display \in Nat
      /\ Our.last.id <= SessionFrames /\ Our.last.display <= MaxTime
  BY <1>1, <1>2, FrameFields
<1>4. ASSUME NEW f \in Live
      PROVE  /\ f \in Timing!FrameRef /\ f.id # 0 /\ f.display # 0
             /\ f.id \in Nat /\ f.id <= Our.last.id
             /\ f.display \in Nat /\ f.display <= Our.last.display
             /\ f.display \in Timing!Times /\ <<Only, f.id>> \in Timing!Frames
  <2>1. f \in Timing!FrameRef /\ f # Timing!NoFrame
    BY <1>1 DEF Live
  <2>2. /\ f.id \in Nat /\ f.display \in Nat
        /\ f.id <= SessionFrames /\ f.display <= MaxTime
    BY <1>2, <2>1, FrameFields
  <2>3. /\ f.id > 0 /\ f.display > 0
        /\ f.id <= Our.last.id /\ f.display <= Our.last.display
    <3>1. CASE f = Our.last
      BY <1>3, <2>1, <2>2, <3>1 DEF TurnInv
    <3>2. CASE f # Our.last
      <4>1. f = Our.begun /\ Our.waited # Timing!NoFrame
              /\ Our.begun # Timing!NoFrame
        BY <2>1, <3>2 DEF Live, TurnInv
      <4> QED BY <1>3, <2>2, <4>1 DEF TurnInv
    <3> QED BY <3>1, <3>2
  <2>4. f.id \in 1 .. SessionFrames /\ f.display \in 1 .. MaxTime
    BY <1>2, <2>2, <2>3
  <2> QED BY <1>1, <1>3, <2>1, <2>2, <2>3, <2>4 DEF Timing!Times, Timing!Frames
<1>5. Timing!Rendered(Only) \in Live \union {Timing!NoFrame}
  BY DEF Timing!Rendered, Live, Our
<1> QED BY <1>3, <1>4, <1>5

\* Two frames in flight have different rows.
LEMMA NextRow ==
  ASSUME Single, NEW n \in Nat
  PROVE  /\ n % RowCount \in Timing!Slots
         /\ (n + 1) % RowCount \in Timing!Slots
         /\ n % RowCount # (n + 1) % RowCount
<1>1. RowCount \in Nat \ {0} /\ RowCount > 1
  BY DEF Single, Timing!ConstantsAssumption
<1>2. \A a \in Int : a % RowCount \in 0 .. RowCount - 1
  BY <1>1
<1>3. n % RowCount # (n + 1) % RowCount
  <2> SUFFICES ASSUME n % RowCount = (n + 1) % RowCount PROVE FALSE
    OBVIOUS
  <2>1. n <= n + 1 /\ (n + 1) - n < RowCount /\ n \in Int /\ n + 1 \in Int
    BY <1>1
  <2>2. n = n + 1
    BY <1>1, <2>1, SameRest
  <2> QED BY <2>2
<1> QED BY <1>2, <1>3 DEF Timing!Slots

\* A line is not changed by marks for frames that were not presented.
LEMMA LinesKept ==
  ASSUME CsvInv, UNCHANGED csv,
         NEW f, <<f, "present">> \notin marked,
         NEW point \in {"wait", "begin", "locate"},
         marked' = marked \/ marked' = marked \union {<<f, point>>}
  PROVE  CsvInv'
<1>2. \A g, p : g # f \/ p = "present"
        => (<<g, p>> \in marked' <=> <<g, p>> \in marked)
  OBVIOUS
<1>3. ASSUME NEW i \in 1 .. Len(csv) PROVE LineInv(csv[i])'
  <2>1. LineInv(csv[i]) /\ csv[i]' = csv[i]
    BY DEF CsvInv
  <2>2. csv[i].present # f
    BY <2>1 DEF LineInv
  <2> QED BY <1>2, <2>1, <2>2 DEF LineInv
<1> QED BY <1>2, <1>3 DEF CsvInv

\* A step that leaves the table and the marks alone.
LEMMA RowKept ==
  ASSUME NEW f, RowInv(f), UNCHANGED <<rows, marked, last_ts>>,
         Asked(f) => Asked(f)' \/ RowOf(f).predict
  PROVE  RowInv(f)'
BY DEF RowInv, Made, RowOf

\* initialize_once, and the end.
LEMMA StartHolds ==
  ASSUME Single, TimingInv,
         Timing!StartInit \/ Timing!FinishInit \/ Timing!Finished
  PROVE  TimingInv'
<1>1. /\ UNCHANGED <<rows, csv, session, asking, last_ts, queries, marked>>
      /\ initialized' \in {"no", "opening", "yes"}
      /\ Timing!Writing => Timing!Writing'
  BY DEF Timing!StartInit, Timing!FinishInit, Timing!Finished, Timing!vars,
         TimingInv, Timing!TypeOK, Timing!Writing
<1>2. /\ Our' = Our /\ Live' = Live
      /\ (Timing!InNoCall(Only))' = Timing!InNoCall(Only)
      /\ (Timing!Rendered(Only))' = Timing!Rendered(Only)
  BY <1>1 DEF Our, Live, Timing!InNoCall, Timing!Rendered
<1>3. Timing!TypeOK'
  BY <1>1 DEF TimingInv, Timing!TypeOK
<1>4. TurnInv'
  BY <1>1, <1>2 DEF TimingInv, TurnInv
<1>5. BoundsInv'
  BY <1>1, <1>2 DEF TimingInv, BoundsInv
<1>6. ASSUME NEW f \in Live' PROVE RowInv(f)'
  <2>1. Asked(f)' = Asked(f) /\ RowInv(f)
    BY <1>1, <1>2 DEF Asked, TimingInv
  <2> QED BY <1>1, <2>1, RowKept
<1>7. CsvInv'
  BY <1>1 DEF TimingInv, CsvInv, LineInv
<1> QED BY <1>3, <1>4, <1>5, <1>6, <1>7 DEF TimingInv

\* Steps of the session that leave no mark.
LEMMA SessionHolds ==
  ASSUME Single, TimingInv,
         Timing!CreateSession(Only) \/ Timing!DestroySession(Only)
           \/ Timing!DiscardFrame(Only)
  PROVE  TimingInv'
<1>1. UNCHANGED <<initialized, rows, csv, asking, last_ts, queries, marked>>
  BY DEF Timing!CreateSession, Timing!DestroySession, Timing!DiscardFrame
<1>2. /\ Our \in SessionRecord /\ Only \in Sessions
      /\ session \in [Sessions -> SessionRecord]
  BY OurTypes DEF TimingInv
<1>3. Timing!NoFrame \in Timing!FrameRef /\ Timing!NoFrame.display = 0
        /\ Timing!NoFrame.id = 0
  BY FrameFields DEF Single
<1>4. /\ session' \in [Sessions -> SessionRecord]
      /\ Our'.last = Our.last /\ Our'.asks = Our.asks
      /\ \/ Our'.waited = Our.waited /\ Our'.begun = Our.begun
         \/ /\ Our'.begun = Timing!NoFrame
            /\ Our'.waited \in {Our.waited, Timing!NoFrame}
            /\ Timing!InNoCall(Only)
  <2>1. CASE Timing!CreateSession(Only)
    <3>1. session' = [session EXCEPT ![Only] =
                        [Our EXCEPT !.state = "running"]]
      BY <1>2, <2>1 DEF Timing!CreateSession, Our
    <3> QED BY <1>2, <3>1 DEF Our, SessionRecord
  <2>2. CASE Timing!DestroySession(Only)
    <3>1. session' = [session EXCEPT ![Only] =
                        [Our EXCEPT !.state = "ended",
                                    !.waited = Timing!NoFrame,
                                    !.begun = Timing!NoFrame]]
      BY <1>2, <2>2 DEF Timing!DestroySession, Our
    <3> QED BY <1>2, <1>3, <2>2, <3>1
            DEF Our, SessionRecord, Timing!DestroySession, Timing!InNoCall
  <2>3. CASE Timing!DiscardFrame(Only)
    <3>1. session' = [session EXCEPT ![Only] =
            [Our EXCEPT !.begun = Timing!NoFrame]]
      BY <1>2, <2>3 DEF Timing!DiscardFrame, Our
    <3> QED BY <1>2, <1>3, <2>3, <3>1
               DEF Our, SessionRecord, Timing!DiscardFrame
  <2> QED BY <2>1, <2>2, <2>3
<1>5. Live' \subseteq Live
  BY <1>4 DEF Live
<1>6. Timing!TypeOK'
  BY <1>1, <1>4 DEF TimingInv, Timing!TypeOK, SessionRecord
<1>7. /\ Timing!InNoCall(Only)' <=> Timing!InNoCall(Only)
      /\ \/ Timing!Rendered(Only)' = Timing!Rendered(Only)
         \/ Timing!InNoCall(Only)
  BY <1>1, <1>4 DEF Timing!InNoCall, Timing!Rendered, Our
<1>8. TurnInv'
  <2>1. asking[Only]' \in {0, Timing!Rendered(Only)'.display}
    BY <1>1, <1>7 DEF TimingInv, TurnInv, Timing!InNoCall
  <2> QED BY <1>1, <1>4, <1>7, <2>1 DEF TimingInv, TurnInv
<1>9. BoundsInv'
  BY <1>1, <1>4 DEF TimingInv, BoundsInv, Timing!Writing
<1>10. ASSUME NEW f \in Live' PROVE RowInv(f)'
  <2>1. f \in Live /\ RowInv(f)
    BY <1>5 DEF TimingInv
  <2>2. Asked(f) => ~Timing!InNoCall(Only)
    <3>1. f.display # 0
      BY <2>1, LiveFrames DEF TimingInv
    <3> QED BY <3>1 DEF Asked, Timing!InNoCall, Our
  <2>3. Asked(f) => Asked(f)'
    BY <1>1, <1>4, <1>7, <2>2 DEF Asked
  <2> QED BY <1>1, <2>1, <2>3, RowKept
<1>11. CsvInv'
  BY <1>1 DEF TimingInv, CsvInv, LineInv
<1> QED BY <1>6, <1>8, <1>9, <1>10, <1>11 DEF TimingInv

\* What get_display_row_by_frame_id_locked returns.
LEMMA RowOfFrame ==
  ASSUME Single, Timing!TypeOK, NEW id \in 1 .. SessionFrames
  PROVE  LET i == id % RowCount
             same == rows[i].active /\ rows[i].frame_id = id
         IN  /\ i \in Timing!Slots
             /\ Timing!by_frame_id(id) \in [Timing!Slots -> Timing!DisplayRow]
             /\ Timing!by_frame_id(id)[i].active
             /\ Timing!by_frame_id(id)[i].frame_id = id
             /\ same => Timing!by_frame_id(id)[i] = rows[i]
             /\ ~same => /\ Timing!by_frame_id(id)[i].display = 0
                         /\ Timing!by_frame_id(id)[i].wait = Timing!None
                         /\ Timing!by_frame_id(id)[i].begin = Timing!None
                         /\ ~Timing!by_frame_id(id)[i].emitted
             /\ \A j \in Timing!Slots : j # i
                  => Timing!by_frame_id(id)[j] = rows[j]
<1> DEFINE i == id % RowCount
           n == [Timing!Unused EXCEPT !.active = TRUE, !.frame_id = id]
<1>1. id \in Nat /\ i \in Timing!Slots
        /\ rows \in [Timing!Slots -> Timing!DisplayRow]
      /\ id \in 0 .. SessionFrames
  <2>1. id \in Nat /\ id \in 0 .. SessionFrames
    BY DEF Single, Timing!ConstantsAssumption
  <2> QED BY <2>1, NextRow, OurTypes
<1> HIDE DEF i
<1>2. /\ n \in Timing!DisplayRow /\ n.active /\ n.frame_id = id
      /\ n.display = 0 /\ n.wait = Timing!None /\ n.begin = Timing!None
      /\ ~n.emitted
  <2>1. Timing!Unused \in Timing!DisplayRow /\ Timing!Unused.emitted = FALSE
        /\ Timing!Unused.display = 0 /\ Timing!Unused.wait = Timing!None
        /\ Timing!Unused.begin = Timing!None
    BY UnusedRow DEF Single
  <2> QED BY <1>1, <2>1 DEF Timing!DisplayRow
<1> HIDE DEF n
<1>3. Timing!by_frame_id(id) = IF rows[i].active /\ rows[i].frame_id =
        id THEN rows
                               ELSE [rows EXCEPT ![i] = n]
  BY DEF Timing!by_frame_id, i, n
<1> QED BY <1>1, <1>2, <1>3 DEF i

\* xrWaitFrame: the new frame gets a row that no frame in flight has.
LEMMA WaitFrameHolds ==
  ASSUME Single, TimingInv, Timing!WaitFrame(Only)
  PROVE  TimingInv'
<1>0. PICK id : id = Our.last.id + 1
  OBVIOUS
<1> DEFINE i == id % RowCount
<1>1. PICK time \in Our.last.display + 1 .. MaxTime :
        LET frame == [id |-> id, display |-> time]
        IN  /\ session' = [session EXCEPT ![Only].last = frame,
                                          ![Only].waited = frame]
            /\ rows' = IF Timing!Writing
                       THEN [Timing!by_frame_id(id) EXCEPT
                               ![i].display = time, ![i].wait = <<Only, id>>]
                       ELSE rows
            /\ Timing!Remember(<<Only, id>>, "wait")
  BY <1>0 DEF Timing!WaitFrame, Our
<1> DEFINE frame == [id |-> id, display |-> time]
           F == <<Only, id>>
<1>2. /\ UNCHANGED <<initialized, csv, asking, last_ts, queries>>
      /\ Our.waited = Timing!NoFrame /\ Our.last.id < SessionFrames
      /\ Our.begun \in {Timing!NoFrame, Our.last}
  BY DEF Timing!WaitFrame, Our, TimingInv, TurnInv
<1>3. /\ Our \in SessionRecord /\ Only \in Sessions
      /\ session \in [Sessions -> SessionRecord]
      /\ rows \in [Timing!Slots -> Timing!DisplayRow]
      /\ Our.last.id \in Nat /\ Our.last.display \in Nat
      /\ SessionFrames \in Nat /\ MaxTime \in Nat /\ Timing!ConstantsAssumption
  BY OurTypes, LiveFrames DEF TimingInv, Single, Timing!ConstantsAssumption
<1>4. /\ id \in 1 .. SessionFrames /\ id \in Nat /\ id > Our.last.id /\ id > 0
      /\ time \in 1 .. MaxTime /\ time \in Nat /\ time > Our.last.display
      /\ i \in Timing!Slots /\ F \in Timing!Frames
  BY <1>0, <1>2, <1>3, NextRow DEF Timing!Frames
<1>5. frame \in Timing!FrameRef /\ frame.id = id /\ frame.display = time
      /\ frame # Timing!NoFrame
  BY <1>4, <1>3 DEF Timing!FrameRef, Timing!NoFrame
<1> HIDE DEF i
<1>6. /\ session' \in [Sessions -> SessionRecord]
      /\ Our'.last = frame /\ Our'.waited = frame
      /\ Our'.begun = Our.begun /\ Our'.asks = Our.asks
  <2>1. session' = [session EXCEPT ![Only] =
                      [Our EXCEPT !.last = frame, !.waited = frame]]
    BY <1>1, <1>3 DEF Our
  <2> HIDE DEF frame
  <2> QED BY <1>3, <1>5, <2>1 DEF Our, SessionRecord
<1> HIDE DEF frame
<1>7. Live' = {frame} \union ({Our.begun} \ {Timing!NoFrame})
  BY <1>5, <1>6 DEF Live
<1>8. /\ marked' = marked \/ marked' = marked \union {<<F, "wait">>}
      /\ Timing!Writing' = Timing!Writing
      /\ Timing!Writing => marked' = marked \union {<<F, "wait">>}
      /\ ~Timing!Writing => marked = {} /\ marked' = {}
  BY <1>1, <1>2 DEF Timing!Remember, Timing!Writing, TimingInv, BoundsInv
<1>9. \A point : <<F, point>> \notin marked
  <2> SUFFICES ASSUME NEW point, <<F, point>> \in marked PROVE FALSE
    OBVIOUS
  <2>1. id <= Our.last.id
    BY DEF TimingInv, BoundsInv
  <2> QED BY <1>3, <1>4, <2>1
<1>10. /\ rows' \in [Timing!Slots -> Timing!DisplayRow]
       /\ \A j \in Timing!Slots : j # i => rows'[j] = rows[j]
       /\ ~Timing!Writing => rows' = rows
       /\ Timing!Writing => /\ rows'[i].active /\ rows'[i].frame_id = id
                            /\ rows'[i].display = time /\ rows'[i].wait = F
                            /\ rows'[i].begin = Timing!None
                            /\ ~rows'[i].emitted
  <2>1. CASE Timing!Writing
    <3> DEFINE r == Timing!by_frame_id(id)[i]
               n == [r EXCEPT !.display = time, !.wait = F]
    <3>1. ~(rows[i].active /\ rows[i].frame_id = id)
      BY <1>3, <1>4 DEF TimingInv, BoundsInv
    <3>2. /\ Timing!by_frame_id(id) \in [Timing!Slots -> Timing!DisplayRow]
          /\ r.active /\ r.frame_id = id /\ r.begin = Timing!None /\ ~r.emitted
          /\ \A j \in Timing!Slots : j # i
               => Timing!by_frame_id(id)[j] = rows[j]
      BY <1>4, <3>1, RowOfFrame DEF TimingInv, i
    <3>3. rows' = [Timing!by_frame_id(id) EXCEPT ![i] = n]
      BY <1>1, <1>4, <2>1, <3>2
    <3>4. r \in Timing!DisplayRow /\ time \in 0 .. MaxTime
      BY <1>3, <1>4, <3>2
    <3> HIDE DEF r
    <3>5. /\ n \in Timing!DisplayRow /\ n.active /\ n.frame_id = id
          /\ n.display = time /\ n.wait = F /\ n.begin = Timing!None
          /\ ~n.emitted
      BY <1>4, <3>2, <3>4 DEF Timing!DisplayRow
    <3> HIDE DEF n
    <3> QED BY <1>4, <2>1, <3>2, <3>3, <3>5
  <2>2. CASE ~Timing!Writing
    BY <1>1, <1>3, <2>2
  <2> QED BY <2>1, <2>2
<1>11. Timing!TypeOK'
  <2>1. \A j \in Timing!Slots : rows'[j].frame_id # 0
          => j = rows'[j].frame_id % RowCount
    BY <1>10 DEF TimingInv, Timing!TypeOK, i
  <2>2. marked' \subseteq Timing!Frames
          \X {"wait", "begin", "locate", "present"}
    <3>1. <<F, "wait">> \in Timing!Frames
            \X {"wait", "begin", "locate", "present"}
      BY <1>4
    <3> QED BY <1>8, <3>1 DEF TimingInv, Timing!TypeOK
  <2> QED BY <1>2, <1>6, <1>10, <2>1, <2>2
             DEF TimingInv, Timing!TypeOK, SessionRecord
<1>12. \A g : g = Our.begun /\ g # Timing!NoFrame /\ Asked(g) => Asked(g)'
  BY <1>2, <1>6 DEF Asked, Timing!Rendered, Our
<1>13. TurnInv'
  <2>1. /\ Our'.last # Timing!NoFrame
             => Our'.last.id > 0 /\ Our'.last.display > 0
        /\ Our'.waited \in {Timing!NoFrame, Our'.last}
        /\ Our'.waited = Timing!NoFrame
             => Our'.begun \in {Timing!NoFrame, Our'.last}
    BY <1>4, <1>5, <1>6
  <2>2. ASSUME Our'.waited # Timing!NoFrame, Our'.begun # Timing!NoFrame
        PROVE  /\ Our'.begun.id > 0 /\ Our'.begun.id = Our'.last.id - 1
               /\ Our'.begun.display > 0
               /\ Our'.begun.display < Our'.last.display
    <3>1. Our.begun = Our.last /\ Our.last # Timing!NoFrame
      BY <1>2, <1>6, <2>2
    <3> QED BY <1>0, <1>3, <1>4, <1>5, <1>6, <3>1 DEF TimingInv, TurnInv
  <2>3. \/ Timing!Rendered(Only)' = Timing!Rendered(Only)
        \/ Timing!InNoCall(Only) /\ Timing!InNoCall(Only)'
    BY <1>2, <1>6 DEF TimingInv, TurnInv, Timing!InNoCall, Timing!Rendered, Our
  <2>4. Timing!InNoCall(Only)' <=> Timing!InNoCall(Only)
    BY <1>2, <1>6 DEF Timing!InNoCall, Our
  <2>5. asking'[Only] \in {0, Timing!Rendered(Only)'.display}
    BY <1>2, <2>3 DEF TimingInv, TurnInv, Timing!InNoCall
  <2> QED BY <2>1, <2>2, <2>3, <2>4, <2>5 DEF TimingInv, TurnInv
<1>14. BoundsInv'
  <2>1. \A t \in Timing!Threads : asking'[t] <= time
    BY <1>2, <1>3, <1>4, OurTypes DEF TimingInv, BoundsInv
  <2>2. last_ts' <= time
    BY <1>2, <1>3, <1>4, OurTypes DEF TimingInv, BoundsInv
  <2>3. ASSUME NEW j \in Timing!Slots
        PROVE  rows'[j].display <= time /\ rows'[j].frame_id <= id
    <3>1. rows[j].display \in Nat /\ rows[j].frame_id \in Nat
      BY <1>3, RowFields
    <3>2. rows[j].display <= Our.last.display /\ rows[j].frame_id <=
            Our.last.id
      BY DEF TimingInv, BoundsInv
    <3>3. CASE rows'[j] = rows[j]
      BY <1>3, <1>4, <3>1, <3>2, <3>3
    <3>4. CASE j = i /\ Timing!Writing
      BY <1>4, <1>10, <3>4
    <3> QED BY <1>10, <3>3, <3>4
  <2>4. ASSUME NEW mark \in marked' PROVE mark[1][2] <= id
    <3>1. CASE mark \in marked
      <4>1. mark \in Timing!Frames \X {"wait", "begin", "locate", "present"}
            /\ mark[1][2] <= Our.last.id
        BY <3>1 DEF TimingInv, Timing!TypeOK, BoundsInv
      <4>2. mark[1][2] \in Nat
        BY <4>1 DEF Timing!Frames
      <4> QED BY <1>3, <1>4, <4>1, <4>2
    <3>2. CASE mark = <<F, "wait">>
      BY <1>4, <3>2
    <3> QED BY <1>8, <2>4, <3>1, <3>2
  <2> QED BY <1>5, <1>6, <1>8, <2>1, <2>2, <2>3, <2>4 DEF BoundsInv
<1>15. RowInv(frame)'
  <2>1. Made(frame, "wait")' <=> Timing!Writing
    BY <1>5, <1>8 DEF Made
  <2>2. \A p \in {"begin", "locate", "present"} : ~Made(frame, p)'
    BY <1>5, <1>8, <1>9 DEF Made
  <2>3. RowOf(frame)' = rows'[i]
    BY <1>5 DEF RowOf, i
  <2>4. last_ts' # frame.display
    BY <1>2, <1>3, <1>4, <1>5, OurTypes DEF TimingInv, BoundsInv
  <2>5. CASE Timing!Writing
    <3>1. \A j \in Timing!Slots : rows'[j].active /\ rows'[j].display =
            frame.display
            => j = i
      <4> SUFFICES ASSUME NEW j \in Timing!Slots, rows'[j].display =
                            time, j # i
                   PROVE  FALSE
        BY <1>5
      <4>1. rows[j].display = time /\ rows[j].display <= Our.last.display
        BY <1>10 DEF TimingInv, BoundsInv
      <4> QED BY <1>3, <1>4, <4>1
    <3> QED BY <1>5, <1>10, <2>1, <2>2, <2>3, <2>4, <2>5, <3>1 DEF RowInv, i
  <2>6. CASE ~Timing!Writing
    <3>1. rows'[i].frame_id # id
      BY <1>3, <1>4, <1>10, <2>6 DEF TimingInv, BoundsInv
    <3> QED BY <1>5, <2>1, <2>2, <2>3, <2>6, <3>1 DEF RowInv
  <2> QED BY <2>5, <2>6
<1>16. ASSUME Our.begun # Timing!NoFrame
       PROVE  \A g : g = Our.begun => RowInv(g)'
  <2> TAKE g
  <2>0. HAVE g = Our.begun
  <2> DEFINE k == g.id % RowCount
  <2>1. /\ RowInv(g) /\ g \in Live /\ g = Our.last
    BY <1>2, <1>16, <2>0 DEF TimingInv, Live
  <2>2. /\ g.id \in Nat /\ id = g.id + 1
        /\ g.display \in Nat /\ g.display <= Our.last.display
    BY <1>0, <1>3, <2>1, LiveFrames DEF TimingInv
  <2>3. k \in Timing!Slots /\ k # i
    BY <2>2, NextRow DEF i
  <2>4. RowOf(g) = rows[k] /\ RowOf(g)' = rows'[k] /\ rows'[k] = rows[k]
    BY <1>10, <2>3 DEF RowOf
  <2>5. \A p : Made(g, p)' <=> Made(g, p)
    BY <1>3, <1>8, <2>2 DEF Made
  <2>6. \A j \in Timing!Slots : rows'[j].active /\ rows'[j].display = g.display
          => rows[j].active /\ rows[j].display = g.display
    <3>1. time # g.display
      BY <1>3, <1>4, <2>2
    <3> QED BY <1>10, <3>1
  <2>7. Asked(g) => Asked(g)'
    BY <1>12, <1>16, <2>0
  <2> HIDE DEF k
  <2> QED BY <1>2, <2>1, <2>4, <2>5, <2>6, <2>7 DEF RowInv, k
<1>17. CsvInv'
  BY <1>2, <1>8, <1>9, LinesKept DEF TimingInv
<1> QED BY <1>7, <1>11, <1>13, <1>14, <1>15, <1>16, <1>17 DEF TimingInv

\* xrBeginFrame marks the frame that was waited for.
LEMMA BeginFrameHolds ==
  ASSUME Single, TimingInv, Timing!BeginFrame(Only)
  PROVE  TimingInv'
<1>0. PICK f : f = Our.waited
  OBVIOUS
<1> DEFINE id == f.id
           i == id % RowCount
           F == <<Only, id>>
<1>1. /\ UNCHANGED <<initialized, csv, asking, last_ts, queries>>
      /\ Timing!InNoCall(Only) /\ id # 0
      /\ session' = [session EXCEPT ![Only].begun = f,
                                    ![Only].waited = Timing!NoFrame]
      /\ rows' = IF Timing!Writing
                 THEN [Timing!by_frame_id(id) EXCEPT ![i].begin = F]
                 ELSE rows
      /\ Timing!Remember(F, "begin")
  BY <1>0 DEF Timing!BeginFrame, Our
<1>2. /\ Our \in SessionRecord /\ Only \in Sessions
      /\ session \in [Sessions -> SessionRecord]
      /\ rows \in [Timing!Slots -> Timing!DisplayRow]
      /\ f \in Timing!FrameRef /\ Timing!NoFrame \in Timing!FrameRef
      /\ Timing!NoFrame.id = 0
      /\ Timing!NoFrame.display = 0 /\ Timing!ConstantsAssumption
  BY <1>0, OurTypes, FrameFields DEF TimingInv, Single
<1>3. f # Timing!NoFrame /\ f \in Live /\ RowInv(f) /\ f = Our.last
  BY <1>0, <1>1, <1>2 DEF Live, TimingInv, TurnInv
<1>4. /\ id \in 1 .. SessionFrames /\ id \in Nat /\ F \in Timing!Frames
      /\ f.display \in Nat /\ f.display # 0
      /\ Our.last.id \in Nat /\ id <= Our.last.id /\ i \in Timing!Slots
  BY <1>3, LiveFrames, NextRow DEF TimingInv, Timing!Frames
<1>5. /\ session' \in [Sessions -> SessionRecord]
      /\ Our'.last = Our.last /\ Our'.waited = Timing!NoFrame
      /\ Our'.begun = f /\ Our'.asks = Our.asks
  <2>1. session' = [session EXCEPT ![Only] =
                      [Our EXCEPT !.begun = f, !.waited = Timing!NoFrame]]
    BY <1>1, <1>2 DEF Our
  <2> QED BY <1>2, <2>1 DEF Our, SessionRecord
<1> HIDE DEF id, i
<1>6. Live' = {f}
  BY <1>3, <1>5 DEF Live
<1>7. /\ marked' = marked \/ marked' = marked \union {<<F, "begin">>}
      /\ Timing!Writing' = Timing!Writing
      /\ Timing!Writing => marked' = marked \union {<<F, "begin">>}
      /\ ~Timing!Writing => marked = {} /\ marked' = {}
  BY <1>1 DEF Timing!Remember, Timing!Writing, TimingInv, BoundsInv
<1>8. \A p : p # "begin" => (Made(f, p)' <=> Made(f, p))
  BY <1>7 DEF Made
<1>9. Made(f, "begin")' <=> Timing!Writing
  BY <1>7 DEF Made, id
<1>10. /\ rows' \in [Timing!Slots -> Timing!DisplayRow]
       /\ \A j \in Timing!Slots : j # i => rows'[j] = rows[j]
       /\ ~Timing!Writing => rows' = rows
       /\ Timing!Writing =>
            /\ rows'[i].active /\ rows'[i].frame_id = id
            /\ rows'[i].begin = F /\ ~rows'[i].emitted
            /\ IF rows[i].active /\ rows[i].frame_id = id
               THEN /\ rows'[i].display = rows[i].display
                    /\ rows'[i].wait = rows[i].wait
                    /\ rows'[i].locate = rows[i].locate
                    /\ rows'[i].predict = rows[i].predict
               ELSE rows'[i].display = 0 /\ rows'[i].wait = Timing!None
  <2>1. CASE Timing!Writing
    <3> DEFINE r == Timing!by_frame_id(id)[i]
               n == [r EXCEPT !.begin = F]
               same == rows[i].active /\ rows[i].frame_id = id
    <3>1. /\ Timing!by_frame_id(id) \in [Timing!Slots -> Timing!DisplayRow]
          /\ r.active /\ r.frame_id = id
          /\ same => r = rows[i]
          /\ ~same => r.display = 0 /\ r.wait = Timing!None /\ ~r.emitted
          /\ \A j \in Timing!Slots : j # i
               => Timing!by_frame_id(id)[j] = rows[j]
      BY <1>4, RowOfFrame DEF TimingInv, i
    <3>2. same => ~rows[i].emitted
      BY <1>3 DEF RowInv, RowOf, i, id
    <3>3. rows' = [Timing!by_frame_id(id) EXCEPT ![i] = n]
      BY <1>1, <1>4, <2>1, <3>1 DEF i, id
    <3>4. r \in Timing!DisplayRow
      BY <1>4, <3>1
    <3> HIDE DEF r, same
    <3>5. /\ n \in Timing!DisplayRow /\ n.begin = F
          /\ n.active = r.active /\ n.frame_id = r.frame_id
          /\ n.emitted = r.emitted
          /\ n.display = r.display /\ n.wait = r.wait
          /\ n.locate = r.locate /\ n.predict = r.predict
      BY <1>4, <3>4 DEF Timing!DisplayRow
    <3> HIDE DEF n
    <3>6. rows'[i] = n /\ rows' \in [Timing!Slots -> Timing!DisplayRow]
          /\ \A j \in Timing!Slots : j # i => rows'[j] = rows[j]
      BY <1>4, <3>1, <3>3, <3>5
    <3>7. CASE same
      BY <2>1, <3>1, <3>2, <3>5, <3>6, <3>7 DEF same
    <3>8. CASE ~same
      BY <2>1, <3>1, <3>5, <3>6, <3>8 DEF same
    <3> QED BY <3>7, <3>8
  <2>2. CASE ~Timing!Writing
    BY <1>1, <1>2, <2>2
  <2> QED BY <2>1, <2>2
<1>11. Timing!TypeOK'
  <2>1. \A j \in Timing!Slots : rows'[j].frame_id # 0
          => j = rows'[j].frame_id % RowCount
    BY <1>10 DEF TimingInv, Timing!TypeOK, i
  <2>2. marked' \subseteq Timing!Frames
          \X {"wait", "begin", "locate", "present"}
    <3>1. <<F, "begin">> \in Timing!Frames
            \X {"wait", "begin", "locate", "present"}
      BY <1>4
    <3> QED BY <1>7, <3>1 DEF TimingInv, Timing!TypeOK
  <2> QED BY <1>1, <1>5, <1>10, <2>1, <2>2
             DEF TimingInv, Timing!TypeOK, SessionRecord
<1>12. Timing!InNoCall(Only)' /\ Timing!Rendered(Only)' = f /\ asking'[Only] =
         0
  BY <1>1, <1>3, <1>5 DEF Timing!InNoCall, Timing!Rendered, Our
<1>13. TurnInv'
  BY <1>3, <1>5, <1>12 DEF TimingInv, TurnInv
<1>14. BoundsInv'
  <2>1. ASSUME NEW j \in Timing!Slots
        PROVE  /\ rows'[j].display <= Our.last.display
               /\ rows'[j].frame_id <= Our.last.id
    <3>1. rows[j].display <= Our.last.display /\ rows[j].frame_id <=
            Our.last.id
          /\ Our.last.display \in Nat
      BY LiveFrames DEF TimingInv, BoundsInv
    <3> QED BY <1>4, <1>10, <3>1
  <2>2. ASSUME NEW mark \in marked' PROVE mark[1][2] <= Our.last.id
    BY <1>4, <1>7, <2>2 DEF TimingInv, BoundsInv
  <2> QED BY <1>1, <1>5, <1>7, <2>1, <2>2 DEF TimingInv, BoundsInv
<1>15. RowInv(f)'
  <2>1. RowOf(f) = rows[i] /\ RowOf(f)' = rows'[i]
    BY DEF RowOf, i, id
  <2>2. ~Made(f, "present")'
    BY <1>3, <1>8 DEF RowInv
  <2>3. CASE ~Timing!Writing
    <3>1. \A p : ~Made(f, p)' /\ ~Made(f, p)
      BY <1>7, <2>3 DEF Made
    <3> QED BY <1>3, <1>10, <2>1, <2>3, <3>1 DEF RowInv
  <2>4. CASE Timing!Writing
    <3>1. Made(f, "wait") => rows[i].active /\ rows[i].frame_id = id
      BY <1>3, <2>1 DEF RowInv, id
    <3>2. rows'[i].wait = IF Made(f, "wait") THEN F ELSE Timing!None
      BY <1>3, <1>10, <2>1, <2>4, <3>1 DEF RowInv, id
    <3>3. Made(f, "wait") =>
            /\ rows'[i].display = f.display
            /\ \A j \in Timing!Slots : rows'[j].active /\ rows'[j].display =
                 f.display
                                  => j = i
            /\ last_ts' = f.display => rows'[i].predict
      <4> SUFFICES ASSUME Made(f, "wait")
                   PROVE  /\ rows'[i].display = f.display
                          /\ \A j \in Timing!Slots :
                               rows'[j].active /\ rows'[j].display = f.display
                                 => j = i
                          /\ last_ts' = f.display => rows'[i].predict
        OBVIOUS
      <4>1. /\ rows[i].display = f.display
            /\ \A j \in Timing!Slots :
                 rows[j].active /\ rows[j].display = f.display => j = i
            /\ last_ts = f.display => rows[i].predict
        BY <1>3, <2>1 DEF RowInv, id, i
      <4>2. rows'[i].display = rows[i].display
            /\ rows'[i].predict = rows[i].predict
        BY <1>10, <2>4, <3>1
      <4>3. \A j \in Timing!Slots : j # i => rows'[j] = rows[j]
        BY <1>10
      <4> QED BY <1>1, <4>1, <4>2, <4>3
    <3>4. ~Asked(f)
      BY <1>1, <1>4 DEF Asked, Timing!InNoCall, Our
    <3>5. Made(f, "wait") /\ Made(f, "locate") =>
            rows'[i].locate # "unset" /\ rows'[i].predict
      BY <1>3, <1>10, <2>1, <2>4, <3>1, <3>4 DEF RowInv
    <3> QED BY <1>8, <1>9, <1>10, <2>1, <2>2, <2>4, <3>2, <3>3, <3>5
            DEF RowInv, id, i
  <2> QED BY <2>3, <2>4
<1>16. CsvInv'
  <2>1. <<F, "present">> \notin marked
    BY <1>3 DEF RowInv, Made, id
  <2> QED BY <1>1, <1>7, <2>1, LinesKept DEF TimingInv
<1> QED BY <1>6, <1>11, <1>13, <1>14, <1>15, <1>16 DEF TimingInv

\* xrEndFrame writes the row of the frame that was begun as a line.
LEMMA PresentFrameHolds ==
  ASSUME Single, TimingInv, Timing!PresentFrame(Only)
  PROVE  TimingInv'
<1>0. PICK f : f = Our.begun
  OBVIOUS
<1> DEFINE id == f.id
           i == id % RowCount
           F == <<Only, id>>
           written == [Timing!by_frame_id(id) EXCEPT ![i].present = F]
           line == written[i]
<1>1. /\ UNCHANGED <<initialized, asking, last_ts, queries>>
      /\ Timing!InNoCall(Only) /\ id # 0
      /\ session' = [session EXCEPT ![Only].begun = Timing!NoFrame]
      /\ rows' = IF Timing!Writing THEN [written EXCEPT ![i].emitted = TRUE]
                 ELSE rows
      /\ csv' = IF Timing!Writing
           /\ ~line.emitted THEN Append(csv, line) ELSE csv
      /\ Timing!Remember(F, "present")
  <2> DEFINE Step(n) ==
        LET pr == [Timing!by_frame_id(n) EXCEPT ![n % RowCount].present =
          <<Only, n>>]
        IN  /\ n # 0
            /\ rows' = IF Timing!Writing
                       THEN [pr EXCEPT ![n % RowCount].emitted = TRUE]
                       ELSE rows
            /\ csv' = IF Timing!Writing /\ ~pr[n % RowCount].emitted
                      THEN Append(csv, pr[n % RowCount]) ELSE csv
            /\ Timing!Remember(<<Only, n>>, "present")
  <2>1. Step(session[Only].begun.id)
    BY DEF Timing!PresentFrame
  <2>2. session[Only].begun.id = id
    BY <1>0 DEF Our
  <2> HIDE DEF Step
  <2>3. Step(id)
    BY <2>1, <2>2
  <2> QED BY <2>3 DEF Timing!PresentFrame, Step
<1>2. /\ Our \in SessionRecord /\ Only \in Sessions
      /\ session \in [Sessions -> SessionRecord]
      /\ rows \in [Timing!Slots -> Timing!DisplayRow]
      /\ f \in Timing!FrameRef /\ Timing!NoFrame \in Timing!FrameRef
      /\ Timing!NoFrame.id = 0
      /\ Timing!NoFrame.display = 0 /\ Timing!ConstantsAssumption
      /\ csv \in Seq(Timing!DisplayRow)
  BY <1>0, OurTypes, FrameFields DEF TimingInv, Single, Timing!TypeOK
<1>3. f # Timing!NoFrame /\ f \in Live /\ RowInv(f)
  BY <1>0, <1>1, <1>2 DEF Live, TimingInv
<1>4. /\ id \in 1 .. SessionFrames /\ id \in Nat /\ F \in Timing!Frames
      /\ Our.last.id \in Nat /\ id <= Our.last.id /\ i \in Timing!Slots
      /\ Our.last.display \in Nat /\ f.display \in Nat /\ f.display # 0
  BY <1>3, LiveFrames, NextRow DEF TimingInv, Timing!Frames
<1>5. /\ session' \in [Sessions -> SessionRecord]
      /\ Our'.last = Our.last /\ Our'.waited = Our.waited
      /\ Our'.begun = Timing!NoFrame /\ Our'.asks = Our.asks
  <2>1. session' = [session EXCEPT ![Only] =
          [Our EXCEPT !.begun = Timing!NoFrame]]
    BY <1>1, <1>2 DEF Our
  <2> QED BY <1>2, <2>1 DEF Our, SessionRecord
<1> HIDE DEF id, i
<1>6. Live' = {Our.waited} \ {Timing!NoFrame}
  BY <1>5 DEF Live
<1>7. /\ marked' = marked \/ marked' = marked \union {<<F, "present">>}
      /\ Timing!Writing' = Timing!Writing
      /\ Timing!Writing => marked' = marked \union {<<F, "present">>}
      /\ ~Timing!Writing => marked = {} /\ marked' = {}
  BY <1>1 DEF Timing!Remember, Timing!Writing, TimingInv, BoundsInv
<1>8. <<F, "present">> \notin marked
  BY <1>3 DEF RowInv, Made, id
<1> DEFINE r == Timing!by_frame_id(id)[i]
           same == rows[i].active /\ rows[i].frame_id = id
<1>9. /\ Timing!by_frame_id(id) \in [Timing!Slots -> Timing!DisplayRow]
      /\ r \in Timing!DisplayRow /\ r.active /\ r.frame_id = id
      /\ same => r = rows[i]
      /\ ~same => /\ r.display = 0 /\ r.wait = Timing!None
                  /\ r.begin = Timing!None /\ ~r.emitted
      /\ \A j \in Timing!Slots : j # i => Timing!by_frame_id(id)[j] = rows[j]
  BY <1>4, RowOfFrame DEF TimingInv, i
<1>10. RowOf(f) = rows[i]
  BY DEF RowOf, i, id
<1>11. /\ r.wait = (IF Made(f, "wait") THEN F ELSE Timing!None)
       /\ r.begin = (IF Made(f, "begin") THEN F ELSE Timing!None)
       /\ ~r.emitted
       /\ Made(f, "wait") /\ Made(f, "locate") =>
            r.locate # "unset" /\ r.predict
  <2>1. ~Asked(f)
    BY <1>1, <1>4 DEF Asked, Timing!InNoCall, Our
  <2>2. CASE same
    BY <1>3, <1>9, <1>10, <2>1, <2>2 DEF RowInv, id
  <2>3. CASE ~same
    <3>1. ~Made(f, "wait") /\ ~Made(f, "begin")
      BY <1>3, <1>10, <2>3 DEF RowInv, id
    <3> QED BY <1>9, <2>3, <3>1
  <2> QED BY <2>2, <2>3
<1>12. /\ line \in Timing!DisplayRow /\ line.present = F
       /\ line.active = r.active /\ line.frame_id = r.frame_id
       /\ line.wait = r.wait /\ line.begin = r.begin
       /\ line.emitted = r.emitted /\ line.display = r.display
       /\ line.locate = r.locate /\ line.predict = r.predict
  <2>1. line = [r EXCEPT !.present = F]
    BY <1>4, <1>9
  <2> HIDE DEF r, line
  <2> QED BY <1>4, <1>9, <2>1 DEF Timing!DisplayRow
<1>13. /\ written \in [Timing!Slots -> Timing!DisplayRow]
       /\ \A j \in Timing!Slots : j # i => written[j] = rows[j]
  <2>1. written = [Timing!by_frame_id(id) EXCEPT ![i] = line]
    BY <1>4, <1>9
  <2> HIDE DEF line, written
  <2> QED BY <1>4, <1>9, <1>12, <2>1
<1> HIDE DEF written
<1>14. /\ rows' \in [Timing!Slots -> Timing!DisplayRow]
       /\ \A j \in Timing!Slots : j # i => rows'[j] = rows[j]
       /\ ~Timing!Writing => rows' = rows
       /\ Timing!Writing => /\ rows'[i].active /\ rows'[i].frame_id = id
                            /\ rows'[i].display = r.display
  <2>1. CASE Timing!Writing
    <3> DEFINE n == [line EXCEPT !.emitted = TRUE]
    <3>1. rows' = [written EXCEPT ![i] = n]
      BY <1>1, <1>4, <1>13, <2>1 DEF i, id
    <3> HIDE DEF line
    <3>2. /\ n \in Timing!DisplayRow /\ n.active = line.active
          /\ n.frame_id = line.frame_id /\ n.display = line.display
      BY <1>12 DEF Timing!DisplayRow
    <3> HIDE DEF n, r
    <3> QED BY <1>4, <1>9, <1>12, <1>13, <2>1, <3>1, <3>2
  <2>2. CASE ~Timing!Writing
    BY <1>1, <1>2, <2>2
  <2> QED BY <2>1, <2>2
<1> HIDE DEF line, r
<1>15. csv' = IF Timing!Writing THEN Append(csv, line) ELSE csv
  BY <1>1, <1>11, <1>12 DEF line, i, id
<1>16. Timing!TypeOK'
  <2>1. \A j \in Timing!Slots : rows'[j].frame_id # 0
          => j = rows'[j].frame_id % RowCount
    BY <1>14 DEF TimingInv, Timing!TypeOK, i
  <2>2. marked' \subseteq Timing!Frames
          \X {"wait", "begin", "locate", "present"}
    <3>1. <<F, "present">>
            \in Timing!Frames \X {"wait", "begin", "locate", "present"}
      BY <1>4
    <3> QED BY <1>7, <3>1 DEF TimingInv, Timing!TypeOK
  <2>3. csv' \in Seq(Timing!DisplayRow)
    BY <1>2, <1>12, <1>15
  <2> QED BY <1>1, <1>5, <1>14, <2>1, <2>2, <2>3
          DEF TimingInv, Timing!TypeOK, SessionRecord
<1>17. Timing!InNoCall(Only)' /\ asking'[Only] = 0
  BY <1>1, <1>5 DEF Timing!InNoCall, Our
<1>18. TurnInv'
  BY <1>5, <1>17 DEF TimingInv, TurnInv
<1>19. BoundsInv'
  <2>1. ASSUME NEW j \in Timing!Slots
        PROVE  /\ rows'[j].display <= Our.last.display
               /\ rows'[j].frame_id <= Our.last.id
    <3>1. rows[j].display <= Our.last.display /\ rows[j].frame_id <=
            Our.last.id
      BY DEF TimingInv, BoundsInv
    <3>2. r.display <= Our.last.display
      <4>1. rows[i].display <= Our.last.display
        BY <1>4 DEF TimingInv, BoundsInv
      <4> QED BY <1>4, <1>9, <4>1
    <3> QED BY <1>4, <1>14, <3>1, <3>2
  <2>2. ASSUME NEW mark \in marked' PROVE mark[1][2] <= Our.last.id
    BY <1>4, <1>7, <2>2 DEF TimingInv, BoundsInv
  <2> QED BY <1>1, <1>5, <1>7, <2>1, <2>2 DEF TimingInv, BoundsInv
<1>20. ASSUME Our.waited # Timing!NoFrame
       PROVE  \A g : g = Our.waited => RowInv(g)'
  <2> TAKE g
  <2>0. HAVE g = Our.waited
  <2> DEFINE k == g.id % RowCount
  <2>1. RowInv(g) /\ g \in Live
    BY <1>20, <2>0 DEF TimingInv, Live
  <2>2. /\ g.id \in Nat /\ g.id = id + 1
        /\ g.display \in Nat /\ g.display # 0 /\ g.display # f.display
    <3>1. g.id \in Nat /\ g.display \in Nat /\ g.display # 0
      BY <2>1, LiveFrames DEF TimingInv
    <3>2. g = Our.last /\ f.id = g.id - 1 /\ f.display < g.display
      BY <1>0, <1>3, <1>20, <2>0 DEF TimingInv, TurnInv
    <3> QED BY <1>4, <3>1, <3>2 DEF id
  <2>3. k \in Timing!Slots /\ k # i
    BY <1>4, <2>2, NextRow DEF i
  <2>4. RowOf(g) = rows[k] /\ RowOf(g)' = rows'[k] /\ rows'[k] = rows[k]
    BY <1>14, <2>3 DEF RowOf
  <2>5. \A p : Made(g, p)' <=> Made(g, p)
    BY <1>4, <1>7, <2>2 DEF Made
  <2>6. \A j \in Timing!Slots : rows'[j].active /\ rows'[j].display = g.display
          => rows[j].active /\ rows[j].display = g.display
    <3>1. Timing!Writing /\ rows'[i].display = g.display
            => rows[i].active /\ rows[i].display = g.display
      BY <1>9, <1>14, <2>2
    <3> QED BY <1>14, <3>1
  <2>7. ~Asked(g)
    BY <1>1, <2>2 DEF Asked, Timing!InNoCall, Our
  <2> HIDE DEF k
  <2> QED BY <1>1, <2>1, <2>4, <2>5, <2>6, <2>7 DEF RowInv, k
<1>21. CsvInv'
  <2>1. CASE ~Timing!Writing
    BY <1>7, <1>15, <2>1 DEF TimingInv, CsvInv, LineInv
  <2>2. CASE Timing!Writing
    <3> DEFINE n == Len(csv) + 1
    <3>1. /\ Len(csv) \in Nat /\ csv' = Append(csv, line) /\ Len(csv') = n
          /\ csv'[n] = line
          /\ \A j \in 1 .. Len(csv) : csv'[j] = csv[j]
      BY <1>2, <1>12, <1>15, <2>2
    <3>2. \A j : j \in 1 .. n <=> j \in 1 .. Len(csv) \/ j = n
      BY <3>1
    <3> HIDE DEF n
    <3>3. \A g, p : p # "present"
            => (<<g, p>> \in marked' <=> <<g, p>> \in marked)
      BY <1>7
    <3>4. ASSUME NEW j \in 1 .. Len(csv) PROVE LineInv(csv[j])'
      <4>1. LineInv(csv[j]) /\ csv'[j] = csv[j]
        BY <3>1 DEF TimingInv, CsvInv
      <4> QED BY <1>7, <3>3, <4>1 DEF LineInv
    <3>5. \A l : l = line => LineInv(l)'
      <4> TAKE l
      <4>0. HAVE l = line
      <4>1. <<F, "present">> \in marked'
        BY <1>7, <2>2
      <4>2. \A p : Made(f, p) <=> <<F, p>> \in marked
        BY DEF Made, id
      <4> QED BY <1>4, <1>11, <1>12, <3>3, <4>0, <4>1, <4>2 DEF LineInv
    <3>6. \A j \in 1 .. Len(csv) : csv'[j].present # F
      BY <1>8, <3>1 DEF TimingInv, CsvInv, LineInv
    <3>7. \A j \in 1 .. Len(csv') : LineInv(csv[j])'
      BY <3>1, <3>2, <3>4, <3>5
    <3>8. \A j, k \in 1 .. Len(csv') :
            csv'[j].present = csv'[k].present => j = k
      BY <1>12, <3>1, <3>2, <3>6 DEF TimingInv, CsvInv
    <3>9. ASSUME NEW g \in Timing!Frames, <<g, "present">> \in marked'
          PROVE  \E j \in 1 .. Len(csv') : csv'[j].present = g
      <4>1. CASE g = F
        BY <1>12, <3>1, <3>2, <4>1
      <4>2. CASE g # F
        <5>1. <<g, "present">> \in marked
          BY <1>7, <3>9, <4>2
        <5> QED BY <3>1, <3>2, <5>1 DEF TimingInv, CsvInv
      <4> QED BY <4>1, <4>2
    <3> QED BY <3>7, <3>8, <3>9 DEF CsvInv
  <2> QED BY <2>1, <2>2
<1> QED BY <1>6, <1>16, <1>18, <1>19, <1>20, <1>21 DEF TimingInv

\* What a pose query may do to the table, before its marks are made: it asks
\* for a time some frame had.
LEMMA QueryBounds ==
  ASSUME Single, TimingInv, NEW time \in Timing!Times, time <=
           Our.last.display,
         NEW column, NEW value, IsMark(column, value),
         Timing!MarkTime(time, column, value), UNCHANGED initialized,
         Our'.last = Our.last,
         \A t \in Timing!Threads : asking'[t] <= Our.last.display,
         last_ts' <= Our.last.display,
         \/ marked' = marked
         \/ Timing!Writing /\ \E f \in Live : \E p :
              marked' = marked \union {<<<<Only, f.id>>, p>>}
  PROVE  /\ rows' \in [Timing!Slots -> Timing!DisplayRow]
         /\ \A j \in Timing!Slots : rows'[j].frame_id # 0
              => j = rows'[j].frame_id % RowCount
         /\ BoundsInv'
<1>1. /\ Timing!ConstantsAssumption
      /\ rows \in [Timing!Slots -> Timing!DisplayRow]
      /\ Our.last.id \in Nat /\ Our.last.display \in Nat /\ time \in Nat
  BY OurTypes, LiveFrames DEF Single, TimingInv, Timing!Times
<1>2. /\ rows' \in [Timing!Slots -> Timing!DisplayRow]
      /\ \A j \in Timing!Slots : /\ rows'[j].frame_id \in {0, rows[j].frame_id}
                                 /\ rows'[j].display
                                      \in {time, rows[j].display}
  BY <1>1, MarkTimeRows
<1>3. \A j \in Timing!Slots : rows'[j].frame_id # 0
        => j = rows'[j].frame_id % RowCount
  BY <1>2 DEF TimingInv, Timing!TypeOK
<1>4. \A j \in Timing!Slots : /\ rows'[j].display <= Our.last.display
                              /\ rows'[j].frame_id <= Our.last.id
  BY <1>1, <1>2 DEF TimingInv, BoundsInv
<1>5. \A f \in Live : f.id <= Our.last.id
  BY LiveFrames DEF TimingInv
<1>6. \A mark \in marked' : mark[1][2] <= Our.last.id
  BY <1>5 DEF TimingInv, BoundsInv
<1>7. marked' # {} => Timing!Writing'
  BY DEF TimingInv, BoundsInv, Timing!Writing
<1> QED BY <1>2, <1>3, <1>4, <1>6, <1>7 DEF BoundsInv

\* A step of a pose query: a mark for a time some frame had, and what becomes
\* of the question it belongs to.
QueryStep(time, column, value) ==
  /\ time \in Timing!Times /\ time <= Our.last.display
  /\ IsMark(column, value) /\ Timing!MarkTime(time, column, value)
  /\ UNCHANGED <<initialized, csv>>
  /\ session' \in [Sessions -> SessionRecord]
  /\ Our'.last = Our.last /\ Our'.waited = Our.waited /\ Our'.begun = Our.begun
  /\ queries' \in 0 .. MaxQueries
  /\ asking' \in [Timing!Threads -> 0 .. MaxTime]
  /\ \A t \in Timing!Threads : asking'[t] <= Our.last.display
  /\ last_ts' \in 0 .. MaxTime /\ last_ts' <= Our.last.display
  /\ \/ marked' = marked
     \/ /\ Timing!Writing /\ Timing!Rendered(Only) # Timing!NoFrame
        /\ marked' = marked
             \union {<<<<Only, Timing!Rendered(Only).id>>, "locate">>}
        /\ column = "locate" /\ time = Timing!Rendered(Only).display
        /\ Our'.asks > 0
  /\ Timing!InNoCall(Only)' \/ Timing!Rendered(Only) # Timing!NoFrame
  /\ asking'[Only] \in {0, Timing!Rendered(Only).display}
  /\ \/ last_ts' = last_ts
     \/ column = "predict" /\ last_ts' = time
  /\ \A g \in Live : Asked(g) =>
       \/ Asked(g)' \/ last_ts = g.display
       \/ column = "predict" /\ time = g.display

LEMMA QueryHolds ==
  ASSUME Single, TimingInv, NEW time, NEW column, NEW value,
         QueryStep(time, column, value)
  PROVE  TimingInv'
<1> USE DEF QueryStep
<1>0. PICK f : f = Timing!Rendered(Only)
  OBVIOUS
<1>1. /\ rows \in [Timing!Slots -> Timing!DisplayRow]
      /\ Timing!ConstantsAssumption
      /\ Only \in Sessions
  BY OurTypes DEF TimingInv, Single
<1>2. Live' = Live /\ Timing!Rendered(Only)' = f
        /\ f \in Live \union {Timing!NoFrame}
  BY <1>0, LiveFrames DEF TimingInv, Live, Timing!Rendered, Our
<1>3. /\ rows' \in [Timing!Slots -> Timing!DisplayRow]
      /\ \A j \in Timing!Slots : rows'[j].frame_id # 0
           => j = rows'[j].frame_id % RowCount
      /\ BoundsInv'
  <2>1. \/ marked' = marked
        \/ Timing!Writing /\ \E g \in Live : \E p :
             marked' = marked \union {<<<<Only, g.id>>, p>>}
    BY <1>0, <1>2
  <2> QED BY <2>1, QueryBounds
<1>4. Timing!TypeOK'
  <2>1. marked' \subseteq Timing!Frames
          \X {"wait", "begin", "locate", "present"}
    <3>1. CASE marked' = marked
      BY <3>1 DEF TimingInv, Timing!TypeOK
    <3>2. CASE marked' # marked
      <4>1. f \in Live /\ marked' =
              marked \union {<<<<Only, f.id>>, "locate">>}
        BY <1>0, <1>2, <3>2
      <4>2. <<Only, f.id>> \in Timing!Frames
        BY <4>1, LiveFrames DEF TimingInv
      <4>3. <<<<Only, f.id>>, "locate">>
              \in Timing!Frames \X {"wait", "begin", "locate", "present"}
        BY <4>2
      <4> QED BY <4>1, <4>3 DEF TimingInv, Timing!TypeOK
    <3> QED BY <3>1, <3>2
  <2> QED BY <1>3, <2>1 DEF TimingInv, Timing!TypeOK, SessionRecord
<1>5. TurnInv'
  BY <1>0, <1>2 DEF TimingInv, TurnInv
<1>6. ASSUME NEW g \in Live PROVE RowInv(g)'
  <2> DEFINE i == g.id % RowCount
  <2>1. /\ g \in Timing!FrameRef /\ g.id \in Nat /\ g.id # 0
        /\ g.display \in Nat
        /\ RowInv(g)
    BY LiveFrames DEF TimingInv
  <2>2. i \in Timing!Slots
    BY <2>1, NextRow
  <2>3. RowOf(g) = rows[i] /\ RowOf(g)' = rows'[i]
    BY DEF RowOf
  <2> HIDE DEF i
  <2>4. /\ rows[i].active =>
             /\ rows[i].locate # "unset" => rows'[i].locate # "unset"
             /\ rows[i].predict => rows'[i].predict
        /\ OnlyRow(rows, i, time) /\ Timing!Writing =>
             IF column = "locate" THEN rows'[i].locate # "unset"
             ELSE rows'[i].predict
    BY <1>1, <2>2, MarkTimeRows
  <2>5. Made(g, "wait") => Timing!Writing /\ rows[i].active
          /\ OnlyRow(rows, i, g.display)
    <3>1. Made(g, "wait") => Timing!Writing
      BY DEF Made, TimingInv, BoundsInv
    <3> QED BY <2>1, <2>3, <3>1 DEF RowInv, OnlyRow, i
  <2>6. \A p : p # "locate" => (Made(g, p)' <=> Made(g, p))
    BY DEF Made
  <2>7. Made(g, "wait") /\ column = "predict" /\ time = g.display
          => rows'[i].predict
    BY <2>4, <2>5
  <2>8. Made(g, "wait") /\ last_ts = g.display => rows'[i].predict
    BY <2>1, <2>3, <2>4, <2>5 DEF RowInv
  <2>9. Made(g, "wait") /\ last_ts' = g.display => rows'[i].predict
    BY <2>7, <2>8
  <2>10. ASSUME Made(g, "wait"), Made(g, "locate")'
         PROVE  rows'[i].locate # "unset" /\ (rows'[i].predict \/ Asked(g)')
    <3>1. CASE Made(g, "locate")
      <4>1. rows[i].locate # "unset" /\ (rows[i].predict \/ Asked(g))
        BY <2>1, <2>3, <2>10, <3>1 DEF RowInv
      <4>2. rows'[i].locate # "unset"
        BY <2>4, <2>5, <2>10, <4>1
      <4>3. rows[i].predict => rows'[i].predict
        BY <2>4, <2>5, <2>10
      <4> QED BY <2>7, <2>8, <2>10, <4>1, <4>2, <4>3
    <3>2. CASE ~Made(g, "locate")
      <4>1. /\ f # Timing!NoFrame /\ g.id = f.id
            /\ column = "locate" /\ time = f.display /\ Our'.asks > 0
        BY <1>0, <2>10, <3>2 DEF Made
      <4>2. g = f
        <5>1. /\ g \in {Our.waited, Our.begun} /\ f \in {Our.waited, Our.begun}
              /\ g # Timing!NoFrame /\ Our.last.id \in Nat
          BY <1>2, <4>1, LiveFrames DEF Live, TimingInv
        <5> QED BY <4>1, <5>1 DEF TimingInv, TurnInv
      <4>3. rows'[i].locate # "unset"
        BY <2>4, <2>5, <2>10, <4>1, <4>2
      <4>4. Asked(g)'
        BY <1>2, <4>1, <4>2 DEF Asked
      <4> QED BY <4>3, <4>4
    <3> QED BY <3>1, <3>2
  <2>11. /\ Made(g, "present")' = Made(g, "present")
         /\ Made(g, "wait")' = Made(g, "wait")
         /\ Made(g, "begin")' = Made(g, "begin")
    BY <2>6 DEF Made
  <2> QED BY <1>1, <2>1, <2>3, <2>5, <2>9, <2>10, <2>11, MarkTimeKeepsRow
<1>7. CsvInv'
  <2>1. CASE marked' = marked
    BY <2>1 DEF TimingInv, CsvInv, LineInv
  <2>2. CASE marked' # marked
    <3>1. f \in Live /\ marked' = marked \union {<<<<Only, f.id>>, "locate">>}
      BY <1>0, <1>2, <2>2
    <3>2. <<<<Only, f.id>>, "present">> \notin marked
      BY <3>1 DEF TimingInv, RowInv, Made
    <3> QED BY <3>1, <3>2, LinesKept DEF TimingInv
  <2> QED BY <2>1, <2>2
<1> QED BY <1>2, <1>3, <1>4, <1>5, <1>6, <1>7 DEF TimingInv

\* The session's frames, when only its asks change.
LEMMA AsksOnly ==
  ASSUME Single, TimingInv, NEW n \in 0 .. 1,
         session' = [session EXCEPT ![Only].asks = n]
  PROVE  /\ session' \in [Sessions -> SessionRecord]
         /\ Our'.last = Our.last /\ Our'.waited = Our.waited
         /\ Our'.begun = Our.begun /\ Our'.asks = n
<1>1. /\ session \in [Sessions -> SessionRecord] /\ Only \in Sessions
      /\ Our \in SessionRecord
  BY OurTypes DEF TimingInv
<1>2. session' = [session EXCEPT ![Only] = [Our EXCEPT !.asks = n]]
  BY <1>1 DEF Our
<1> QED BY <1>1, <1>2 DEF Our, SessionRecord

\* xrLocateViews asks for the pose of the frame that is rendered.
LEMMA LocateViewsHolds ==
  ASSUME Single, TimingInv, Timing!LocateViews(Only)
  PROVE  TimingInv'
<1>0. PICK time : time = Timing!Rendered(Only).display
  OBVIOUS
<1>1. /\ UNCHANGED <<initialized, csv, asking, last_ts, queries>>
      /\ Timing!InNoCall(Only) /\ Timing!Rendered(Only) # Timing!NoFrame
      /\ session' = [session EXCEPT ![Only].asks = 1]
      /\ Timing!MarkTime(time, "locate", "call")
      /\ Timing!Remember(<<Only, Timing!Rendered(Only).id>>, "locate")
  BY <1>0 DEF Timing!LocateViews
<1>2. Timing!Rendered(Only) \in Live /\ time \in Timing!Times /\ time <=
        Our.last.display
  BY <1>0, <1>1, LiveFrames DEF TimingInv
<1>3. /\ session' \in [Sessions -> SessionRecord]
      /\ Our'.last = Our.last /\ Our'.waited = Our.waited
      /\ Our'.begun = Our.begun /\ Our'.asks = 1
  BY <1>1, AsksOnly
<1>4. IsMark("locate", "call")
  BY DEF IsMark
<1>5. \/ marked' = marked
      \/ /\ Timing!Writing /\ Our'.asks > 0
         /\ marked' = marked
              \union {<<<<Only, Timing!Rendered(Only).id>>, "locate">>}
  BY <1>1, <1>3 DEF Timing!Remember
<1>6. asking[Only] \in {0, time}
  BY <1>1 DEF Timing!InNoCall
<1>7. /\ queries' \in 0 .. MaxQueries
      /\ asking' \in [Timing!Threads -> 0 .. MaxTime]
      /\ last_ts' \in 0 .. MaxTime /\ last_ts' <= Our.last.display
      /\ \A t \in Timing!Threads : asking'[t] <= Our.last.display
  BY <1>1 DEF TimingInv, Timing!TypeOK, BoundsInv
<1>8. \A g \in Live : Asked(g) => Asked(g)'
  <2>1. Timing!Rendered(Only)' = Timing!Rendered(Only)
    BY <1>3 DEF Timing!Rendered, Our
  <2> QED BY <1>3, <2>1 DEF Asked
<1>9. QueryStep(time, "locate", "call")
  BY <1>0, <1>1, <1>2, <1>3, <1>4, <1>5, <1>6, <1>7, <1>8 DEF QueryStep
<1> QED BY <1>9, QueryHolds

(* Its query in the SLAM tracker: a cached answer is for the time of the pose*)
(* that was computed last, so the row has its predict mark; else the pose is *)
(* computed by this thread.                                                  *)
LEMMA AppQueryHolds ==
  ASSUME Single, TimingInv, Timing!AppQuery(Only)
  PROVE  TimingInv'
<1>0. PICK time : time = Timing!Rendered(Only).display
  OBVIOUS
<1>1. PICK value : /\ value = IF time = last_ts THEN "cached" ELSE "computed"
                   /\ Timing!MarkTime(time, "locate", value)
  BY <1>0 DEF Timing!AppQuery, Timing!AskPose
<1>2. /\ UNCHANGED <<initialized, csv, last_ts, queries, marked>>
      /\ Our.asks > 0 /\ asking[Only] = 0
      /\ session' = [session EXCEPT ![Only].asks = Our.asks - 1]
      /\ asking' = IF time = last_ts THEN asking
                   ELSE [asking EXCEPT ![Only] = time]
  BY <1>0 DEF Timing!AppQuery, Timing!AskPose, Our
<1>3. Timing!Rendered(Only) # Timing!NoFrame
  BY <1>2, OurTypes DEF TimingInv, TurnInv, Timing!InNoCall, Our
<1>4. Timing!Rendered(Only) \in Live /\ time \in Timing!Times /\ time <=
        Our.last.display
  BY <1>0, <1>3, LiveFrames DEF TimingInv
<1>5. Our.asks - 1 \in 0 .. 1
  BY <1>2, OurTypes DEF TimingInv
<1>6. /\ session' \in [Sessions -> SessionRecord]
      /\ Our'.last = Our.last /\ Our'.waited = Our.waited
      /\ Our'.begun = Our.begun /\ Our'.asks = Our.asks - 1
  BY <1>2, <1>5, AsksOnly
<1>7. IsMark("locate", value)
  BY <1>1 DEF IsMark
<1>8. /\ time \in 0 .. MaxTime /\ Only \in Timing!Threads
      /\ asking \in [Timing!Threads -> 0 .. MaxTime]
  BY <1>4, OurTypes
     DEF TimingInv, Timing!Times, Single, Timing!ConstantsAssumption
<1>9. /\ asking' \in [Timing!Threads -> 0 .. MaxTime]
      /\ \A t \in Timing!Threads : asking'[t] <= Our.last.display
      /\ asking'[Only] = IF time = last_ts THEN 0 ELSE time
  BY <1>2, <1>4, <1>8 DEF TimingInv, BoundsInv
<1>10. /\ queries' \in 0 .. MaxQueries
       /\ last_ts' \in 0 .. MaxTime /\ last_ts' <= Our.last.display
  BY <1>2 DEF TimingInv, Timing!TypeOK, BoundsInv
<1>11. Timing!Rendered(Only)' = Timing!Rendered(Only)
  BY <1>6 DEF Timing!Rendered, Our
<1>12. ASSUME NEW g \in Live, Asked(g)
       PROVE  Asked(g)' \/ last_ts = g.display
  <2>1. g.display = time
    BY <1>0, <1>12 DEF Asked
  <2> QED BY <1>9, <1>11, <1>12, <2>1 DEF Asked
<1>13. Timing!InNoCall(Only)' \/ Timing!Rendered(Only) # Timing!NoFrame
  BY <1>3
<1>14. QueryStep(time, "locate", value)
  BY <1>0, <1>1, <1>2, <1>4, <1>6, <1>7, <1>9, <1>10, <1>12, <1>13
     DEF QueryStep
<1> QED BY <1>14, QueryHolds

\* A query of the native compositor or of a device.
LEMMA OtherQueryHolds ==
  ASSUME Single, TimingInv, Timing!OtherQuery
  PROVE  TimingInv'
<1>1. PICK time \in Timing!Times : /\ time <= Our.last.display
                                   /\ Timing!AskPose(Timing!Native, time)
  BY DEF Timing!OtherQuery, Single, Our
<1>2. PICK value : /\ value = IF time = last_ts THEN "cached" ELSE "computed"
                   /\ Timing!MarkTime(time, "locate", value)
  BY <1>1 DEF Timing!AskPose
<1>3. /\ UNCHANGED <<initialized, csv, session, last_ts, marked>>
      /\ queries < MaxQueries /\ queries' = queries + 1
      /\ asking' = IF time = last_ts THEN asking
                   ELSE [asking EXCEPT ![Timing!Native] = time]
  BY <1>1 DEF Timing!OtherQuery, Timing!AskPose
<1>4. /\ session' \in [Sessions -> SessionRecord] /\ Our' = Our
      /\ Timing!Rendered(Only)' = Timing!Rendered(Only)
  BY <1>3, OurTypes DEF TimingInv, Our, Timing!Rendered
<1>5. IsMark("locate", value)
  BY <1>2 DEF IsMark
<1>6. /\ time \in 0 .. MaxTime /\ Only # Timing!Native
      /\ Only \in Timing!Threads
      /\ asking \in [Timing!Threads -> 0 .. MaxTime]
  BY <1>1, OurTypes
     DEF TimingInv, Timing!Times, Single, Timing!ConstantsAssumption
<1>7. /\ asking' \in [Timing!Threads -> 0 .. MaxTime]
      /\ \A t \in Timing!Threads : asking'[t] <= Our.last.display
      /\ asking'[Only] = asking[Only]
  BY <1>1, <1>3, <1>6 DEF TimingInv, BoundsInv
<1>8. /\ queries' \in 0 .. MaxQueries
      /\ last_ts' \in 0 .. MaxTime /\ last_ts' <= Our.last.display
  BY <1>3
     DEF TimingInv, Timing!TypeOK, BoundsInv, Single,
         Timing!ConstantsAssumption
<1>9. \A g \in Live : Asked(g) => Asked(g)'
  BY <1>4, <1>7 DEF Asked
<1>10. /\ asking'[Only] \in {0, Timing!Rendered(Only).display}
       /\ Timing!InNoCall(Only)' \/ Timing!Rendered(Only) # Timing!NoFrame
  BY <1>3, <1>7 DEF TimingInv, TurnInv, Timing!InNoCall
<1>11. QueryStep(time, "locate", value)
  BY <1>1, <1>2, <1>3, <1>4, <1>5, <1>7, <1>8, <1>9, <1>10 DEF QueryStep
<1> QED BY <1>11, QueryHolds

\* The pose is computed, for whoever asked.
LEMMA AnswerPoseHolds ==
  ASSUME Single, TimingInv, NEW t \in Timing!Threads, Timing!AnswerPose(t)
  PROVE  TimingInv'
<1>0. PICK time : time = asking[t]
  OBVIOUS
<1>1. /\ UNCHANGED <<initialized, csv, session, queries, marked>>
      /\ time # 0 /\ Timing!MarkTime(time, "predict", TRUE)
      /\ last_ts' = time /\ asking' = [asking EXCEPT ![t] = 0]
  BY <1>0 DEF Timing!AnswerPose
<1>2. /\ asking \in [Timing!Threads -> 0 .. MaxTime] /\ Only \in Timing!Threads
      /\ MaxTime \in Nat /\ Our.last.display \in Nat
  BY OurTypes, LiveFrames DEF TimingInv, Single, Timing!ConstantsAssumption
<1>3. time \in Timing!Times /\ time \in 0 .. MaxTime /\ time <=
        Our.last.display
  BY <1>0, <1>1, <1>2 DEF Timing!Times, TimingInv, BoundsInv
<1>4. /\ session' \in [Sessions -> SessionRecord] /\ Our' = Our
      /\ Timing!Rendered(Only)' = Timing!Rendered(Only)
  BY <1>1, OurTypes DEF TimingInv, Our, Timing!Rendered
<1>5. IsMark("predict", TRUE)
  BY DEF IsMark
<1>6. /\ asking' \in [Timing!Threads -> 0 .. MaxTime]
      /\ \A u \in Timing!Threads : asking'[u] <= Our.last.display
      /\ asking'[Only] = IF t = Only THEN 0 ELSE asking[Only]
  BY <1>1, <1>2 DEF TimingInv, BoundsInv
<1>7. queries' \in 0 .. MaxQueries
  BY <1>1 DEF TimingInv, Timing!TypeOK
<1>8. /\ asking'[Only] \in {0, Timing!Rendered(Only).display}
      /\ Timing!InNoCall(Only)' \/ Timing!Rendered(Only) # Timing!NoFrame
  BY <1>1, <1>6 DEF TimingInv, TurnInv, Timing!InNoCall
<1>9. ASSUME NEW g \in Live, Asked(g)
      PROVE  Asked(g)' \/ time = g.display
  BY <1>0, <1>4, <1>6, <1>9 DEF Asked
<1>10. QueryStep(time, "predict", TRUE)
  BY <1>1, <1>3, <1>4, <1>5, <1>6, <1>7, <1>8, <1>9 DEF QueryStep
<1> QED BY <1>10, QueryHolds

\* At first there are no marks.
LEMMA TimingStart ==
  ASSUME Single, Timing!Init
  PROVE  TimingInv
<1>1. /\ initialized = "no" /\ csv = <<>> /\ marked = {}
      /\ rows = [i \in Timing!Slots |-> Timing!Unused]
      /\ asking = [t \in Timing!Threads |-> 0] /\ last_ts = 0 /\ queries = 0
      /\ session = [s \in Sessions |->
           [state |-> "none", last |-> Timing!NoFrame, waited |->
             Timing!NoFrame,
            begun |-> Timing!NoFrame, asks |-> 0]]
  BY DEF Timing!Init
<1>2. /\ Timing!ConstantsAssumption /\ Only \in Sessions
      /\ Only \in Timing!Threads
      /\ Timing!NoFrame \in Timing!FrameRef /\ Timing!NoFrame.id = 0
      /\ Timing!NoFrame.display = 0
      /\ MaxTime \in Nat /\ MaxQueries \in Nat
      /\ Timing!Unused \in Timing!DisplayRow /\ Timing!Unused.frame_id = 0
      /\ Timing!Unused.display = 0
  BY FrameFields, UnusedRow
     DEF Single, Timing!ConstantsAssumption, Timing!Threads
<1>3. /\ Our.last = Timing!NoFrame /\ Our.waited = Timing!NoFrame
      /\ Our.begun = Timing!NoFrame
      /\ Our.asks = 0 /\ asking[Only] = 0
  BY <1>1, <1>2 DEF Our
<1>4. Timing!TypeOK
  <2>1. rows \in [Timing!Slots -> Timing!DisplayRow]
        /\ \A i \in Timing!Slots : rows[i].frame_id = 0 /\ rows[i].display = 0
    BY <1>1, <1>2
  <2>2. session \in [Sessions -> [state: {"none", "running", "ended"},
                                  last: Timing!FrameRef,
                                    waited: Timing!FrameRef,
                                  begun: Timing!FrameRef, asks: 0 .. 1]]
    BY <1>1, <1>2
  <2>3. asking \in [Timing!Threads -> 0 .. MaxTime]
          /\ csv \in Seq(Timing!DisplayRow)
    BY <1>1, <1>2
  <2> QED BY <1>1, <1>2, <2>1, <2>2, <2>3 DEF Timing!TypeOK
<1>5. TurnInv
  BY <1>3 DEF TurnInv, Timing!InNoCall, Our
<1>6. BoundsInv
  BY <1>1, <1>2, <1>3 DEF BoundsInv
<1>7. Live = {}
  BY <1>3 DEF Live
<1>8. CsvInv
  BY <1>1 DEF CsvInv
<1> QED BY <1>4, <1>5, <1>6, <1>7, <1>8 DEF TimingInv

\* No step breaks the invariant.
LEMMA TimingStep ==
  ASSUME Single, TimingInv, [Timing!Next]_(Timing!vars)
  PROVE  TimingInv'
<1>1. CASE Timing!StartInit \/ Timing!FinishInit \/ Timing!Finished
  BY <1>1, StartHolds
<1>2. ASSUME NEW s \in Sessions,
             \/ Timing!CreateSession(s) \/ Timing!DestroySession(s)
             \/ Timing!WaitFrame(s) \/ Timing!BeginFrame(s)
                  \/ Timing!PresentFrame(s)
             \/ Timing!DiscardFrame(s) \/ Timing!LocateViews(s)
                  \/ Timing!AppQuery(s)
      PROVE  TimingInv'
  <2>1. s = Only
    BY DEF Single
  <2> QED BY <1>2, <2>1, SessionHolds, WaitFrameHolds, BeginFrameHolds,
             PresentFrameHolds, LocateViewsHolds, AppQueryHolds
<1>3. CASE Timing!OtherQuery
  BY <1>3, OtherQueryHolds
<1>4. CASE \E t \in Timing!Threads : Timing!AnswerPose(t)
  BY <1>4, AnswerPoseHolds
<1>5. CASE UNCHANGED Timing!vars
  <2>1. UNCHANGED <<rows, csv, session, asking, last_ts, queries, marked,
                    initialized>>
    BY <1>5 DEF Timing!vars
  <2>2. /\ Our' = Our /\ Live' = Live
        /\ Timing!Rendered(Only)' = Timing!Rendered(Only)
        /\ Timing!InNoCall(Only)' <=> Timing!InNoCall(Only)
    BY <2>1 DEF Our, Live, Timing!InNoCall, Timing!Rendered
  <2>3. Timing!TypeOK' /\ TurnInv' /\ BoundsInv' /\ CsvInv'
    BY <2>1, <2>2
       DEF TimingInv, Timing!TypeOK, TurnInv, BoundsInv, CsvInv, LineInv,
                      Timing!Writing
  <2>4. ASSUME NEW f \in Live PROVE RowInv(f)'
    <3>1. Asked(f)' <=> Asked(f)
      BY <2>1, <2>2 DEF Asked
    <3> QED BY <2>1, <3>1, RowKept DEF TimingInv
  <2> QED BY <2>2, <2>3, <2>4 DEF TimingInv
<1> QED BY <1>1, <1>2, <1>3, <1>4, <1>5 DEF Timing!Next

\* What that says of the lines.
LEMMA LinesFollow ==
  ASSUME Single, TimingInv
  PROVE  Timing!LinesAreComplete
<1>1. \A line \in Timing!Lines : LineInv(line)
  BY DEF TimingInv, CsvInv, Timing!Lines
<1>2. Timing!JoinKeyIsAFrame
  BY <1>1 DEF Timing!JoinKeyIsAFrame, LineInv
<1>3. Timing!WaitBridgesTheTwo
  BY <1>1 DEF Timing!WaitBridgesTheTwo, LineInv
<1>4. Timing!PresentedIsWritten
  <2> SUFFICES ASSUME NEW frame \in Timing!Frames, <<frame, "present">>
                        \in marked
               PROVE  Timing!Cardinality({i \in 1 .. Len(csv) :
                                            csv[i].present = frame}) = 1
    BY DEF Timing!PresentedIsWritten
  <2>1. PICK i \in 1 .. Len(csv) : csv[i].present = frame
    BY DEF TimingInv, CsvInv
  <2>2. {j \in 1 .. Len(csv) : csv[j].present = frame} = {i}
    BY <2>1 DEF TimingInv, CsvInv
  <2> QED BY <2>2, FS_Singleton, TimingSets
<1> QED BY <1>2, <1>3, <1>4 DEF Timing!LinesAreComplete, TimingInv

(* u_timing_pipeline.c, one session in a table of more than one row: every   *)
(* frame that is presented has one line, which holds the marks that were made*)
(* for that frame and no others, with the query for its pose; whatever the   *)
(* number of frames, the display times and the queries of the native         *)
(* compositor and of devices in between.                                     *)
THEOREM TimingLines ==
  ASSUME Timing!ConstantsAssumption, \E s : Sessions =
           {s}, RowCount > 1, ~Ahead
  PROVE  Timing!Spec => []Timing!LinesAreComplete
<1>1. Single
  BY OnlyOne DEF Single
<1>2. Timing!Init => TimingInv
  BY <1>1, TimingStart
<1>3. TimingInv /\ [Timing!Next]_(Timing!vars) => TimingInv'
  BY <1>1, TimingStep
<1>4. TimingInv => Timing!LinesAreComplete
  BY <1>1, LinesFollow
<1> QED BY <1>2, <1>3, <1>4, PTL DEF Timing!Spec

-----------------------------------------------------------------------------
(* The units side by side. *)

(* While another unit is at work a unit stays as it is: what holds of a unit *)
(* by itself holds when it is one of the six.                                *)
LEMMA EachAtWork ==
  UnitsSpec => Usage!Spec /\ Slam!Spec /\ Timing!Spec
<1>1. UnitsInit => Usage!Init /\ Slam!Init /\ Timing!Init
  BY DEF UnitsInit
<1>2. [UnitsNext]_auxiliaryVars => [Usage!Next]_(Usage!vars)
  <2> SUFFICES ASSUME [UnitsNext]_auxiliaryVars
               PROVE  Usage!Next \/ UNCHANGED usageVars
    BY DEF usageVars, Usage!vars
  <2> QED BY DEF UnitsNext, auxiliaryVars
<1>3. [UnitsNext]_auxiliaryVars => [Slam!Next]_(Slam!vars)
  <2> SUFFICES ASSUME [UnitsNext]_auxiliaryVars
               PROVE  Slam!Next \/ UNCHANGED slamVars
    BY DEF slamVars, Slam!vars, Slam!vitVars, Slam!cacheVars
  <2> QED BY DEF UnitsNext, auxiliaryVars
<1>4. [UnitsNext]_auxiliaryVars => [Timing!Next]_(Timing!vars)
  <2> SUFFICES ASSUME [UnitsNext]_auxiliaryVars
               PROVE  Timing!Next \/ UNCHANGED timingVars
    BY DEF timingVars, Timing!vars
  <2> QED BY DEF UnitsNext, auxiliaryVars
<1> QED BY <1>1, <1>2, <1>3, <1>4, PTL
        DEF UnitsSpec, Usage!Spec, Slam!Spec, Timing!Spec

(* The service counts the clients that use a feature of the device right,    *)
(* and ends the feature when there are none.                                 *)
THEOREM FeatureEnds == UnitsSpec => []UnusedIsEnded
<1>1. UsageInv => Usage!TypeOK
  <2> SUFFICES ASSUME UsageInv PROVE Usage!TypeOK
    OBVIOUS
  <2>1. Cardinality(InUse(device_feature_used, pc)) \in Nat
    <3>1. InUse(device_feature_used, pc) \in SUBSET Clients
      BY DEF InUse
    <3> QED BY <3>1, FS_Subset, FS_CardinalityType, UsageSets, UnitsAssumption
            DEF Usage!ConstantsAssumption
  <2> QED BY <2>1 DEF UsageInv, PlacesInv, CountsInv, Usage!TypeOK, Stages
<1> QED BY <1>1, EachAtWork, UsageInvariant, UnusedStaysEnded, UnitsAssumption,
           PTL DEF UnusedIsEnded

(* The history of poses is in order and ends with the latest one.            *)
THEOREM HistoryEndsWithLatest == UnitsSpec => []HistoryIsCurrent
BY EachAtWork, HistoryStaysCurrent, UnitsAssumption, PTL DEF HistoryIsCurrent

(* One session in a table of more than one row, and no pose query ahead of   *)
(* its frames: a frame that is presented has one line, which is complete.    *)
THEOREM LinesComplete ==
  ASSUME \E s : Sessions = {s}, RowCount > 1, ~Ahead
  PROVE  UnitsSpec => []LinesAreComplete
BY EachAtWork, TimingLines, UnitsAssumption, PTL DEF LinesAreComplete
=============================================================================
