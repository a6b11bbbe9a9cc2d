------------------------- MODULE Compositor_proofs -------------------------
(***************************************************************************)
(* What is proved of a swapchain and of the frame of the native            *)
(* compositor, for any number of images, slots and frames and any times,   *)
(* each from an inductive invariant of its own; the last section carries   *)
(* the results over to the units of Auxiliary, which the run checks.       *)
(***************************************************************************)
EXTENDS Auxiliary, FiniteSetTheorems, WellFoundedInduction, TLAPS

(* Swapchain has its own copy of the operators on finite sets.              *)
LEMMA ImagesSets ==
  ASSUME NEW S
  PROVE  /\ Images!IsFiniteSet(S) <=> IsFiniteSet(S)
         /\ Images!Cardinality(S) = Cardinality(S)
BY DEF Images!IsFiniteSet, IsFiniteSet, Images!Cardinality, Cardinality

\* Each element of a sequence is in it once.
Distinct(s) == \A i, j \in 1 .. Len(s) : s[i] = s[j] => i = j
Occurs(s, x) == \E i \in 1 .. Len(s) : s[i] = x

\* Where an image is, its state says.
ImagesInv ==
  /\ is_static \in BOOLEAN
  /\ fifo \in Seq(Images!Images) /\ acquired \in Seq(Images!Images)
  /\ inflight \in Images!Images \union {Images!None}
       /\ released \in Images!Images \union {Images!None}
  /\ num \in Nat
  /\ state \in [Images!Images -> {"READY", "ACQUIRED", "WAITED"}]
  /\ Distinct(fifo) /\ Distinct(acquired)
  /\ \A x \in Images!Images : /\ state[x] = "READY" <=> Occurs(fifo, x)
                              /\ state[x] = "ACQUIRED" <=> Occurs(acquired, x)
                              /\ state[x] = "WAITED" <=> inflight = x
  /\ num = Len(acquired) + IF inflight = Images!None THEN 0 ELSE 1
  /\ Len(fifo) + num = Images!Cardinality(Images!Images)
  /\ released # Images!None => fifo # <<>> /\ released = fifo[Len(fifo)]
  /\ failed = FALSE

\* Who refers to the swapchain.
ReferencesInv ==
  /\ handle \in BOOLEAN /\ garbage \in BOOLEAN /\ freed \in BOOLEAN
  /\ slot \in [Images!SlotNames -> Images!Images \union {Images!None}]
  /\ drawing \in Images!Images \union {Images!None}
  /\ garbage <=> ~handle /\ \A s \in Images!SlotNames : slot[s] = Images!None
  /\ freed => garbage /\ drawing = Images!None

SwapchainInv == ImagesInv /\ ReferencesInv
\* A push at the back of a FIFO.
LEMMA AppendDistinct ==
  ASSUME NEW S, NEW s \in Seq(S), NEW x \in S
  PROVE  /\ Append(s, x) \in Seq(S)
         /\ Len(Append(s, x)) = Len(s) + 1 /\ Len(s) \in Nat
         /\ Append(s, x) # <<>> /\ Append(s, x)[Len(Append(s, x))] = x
         /\ \A y : Occurs(Append(s, x), y) <=> Occurs(s, y) \/ y = x
         /\ Distinct(s) /\ ~Occurs(s, x) => Distinct(Append(s, x))
<1> DEFINE r == Append(s, x)
<1>1. /\ r \in Seq(S) /\ Len(r) = Len(s) + 1 /\ Len(s) \in Nat
      /\ r[Len(s) + 1] = x
      /\ \A i \in 1 .. Len(s) : r[i] = s[i]
  OBVIOUS
<1> HIDE DEF r
<1>2. \A i : i \in 1 .. Len(r) <=> i \in 1 .. Len(s) \/ i = Len(s) + 1
  BY <1>1
<1>3. ASSUME NEW y PROVE Occurs(r, y) <=> Occurs(s, y) \/ y = x
  BY <1>1, <1>2 DEF Occurs
<1>4. ASSUME Distinct(s), ~Occurs(s, x) PROVE Distinct(r)
  <2> SUFFICES ASSUME NEW i \in 1 .. Len(r), NEW j \in 1 .. Len(r), r[i] = r[j]
               PROVE i = j
    BY DEF Distinct
  <2>1. CASE i \in 1 .. Len(s) /\ j \in 1 .. Len(s)
    BY <1>1, <1>4, <2>1 DEF Distinct
  <2>2. CASE i \in 1 .. Len(s) /\ j = Len(s) + 1
    BY <1>1, <1>4, <2>2 DEF Occurs
  <2>3. CASE i = Len(s) + 1 /\ j \in 1 .. Len(s)
    BY <1>1, <1>4, <2>3 DEF Occurs
  <2> QED BY <1>2, <2>1, <2>2, <2>3
<1>5. r # <<>> /\ r[Len(r)] = x
  BY <1>1
<1> QED BY <1>1, <1>3, <1>4, <1>5 DEF r

\* A pop at the front of a FIFO.
LEMMA TailDistinct ==
  ASSUME NEW S, NEW s \in Seq(S), s # <<>>, Distinct(s)
  PROVE  /\ Tail(s) \in Seq(S) /\ Head(s) \in S /\ Occurs(s, Head(s))
         /\ Len(Tail(s)) = Len(s) - 1 /\ Len(s) \in Nat /\ Len(s) >= 1
         /\ Distinct(Tail(s))
         /\ \A y : Occurs(Tail(s), y) <=> Occurs(s, y) /\ y # Head(s)
         /\ s[Len(s)] # Head(s)
              => Tail(s) # <<>> /\ Tail(s)[Len(Tail(s))] = s[Len(s)]
<1> DEFINE r == Tail(s)
           h == Head(s)
<1>1. /\ r \in Seq(S) /\ Len(r) = Len(s) - 1 /\ Len(s) \in Nat /\ Len(s) >= 1
      /\ h \in S /\ h = s[1]
      /\ \A i \in 1 .. Len(r) : r[i] = s[i + 1]
  OBVIOUS
<1> HIDE DEF r, h
<1>2. 1 \in 1 .. Len(s) /\ \A i \in 1 .. Len(r) : i + 1 \in 1 .. Len(s)
        /\ i + 1 # 1
  BY <1>1
<1>3. \A i \in 1 .. Len(s) : i # 1 => i - 1 \in 1 .. Len(r) /\ r[i - 1] = s[i]
  BY <1>1
<1>4. Occurs(s, h)
  BY <1>1, <1>2 DEF Occurs
<1>5. Distinct(r)
  BY <1>1, <1>2 DEF Distinct
<1>6. ASSUME NEW y PROVE Occurs(r, y) <=> Occurs(s, y) /\ y # h
  <2>1. ASSUME Occurs(r, y) PROVE Occurs(s, y) /\ y # h
    <3>1. PICK i \in 1 .. Len(r) : r[i] = y
      BY <2>1 DEF Occurs
    <3>2. s[i + 1] = y /\ i + 1 \in 1 .. Len(s) /\ i + 1 # 1
      BY <1>1, <1>2, <3>1
    <3>3. y # s[1]
      BY <1>2, <3>2 DEF Distinct
    <3> QED BY <1>1, <3>2, <3>3 DEF Occurs
  <2>2. ASSUME Occurs(s, y), y # h PROVE Occurs(r, y)
    <3>1. PICK i \in 1 .. Len(s) : s[i] = y
      BY <2>2 DEF Occurs
    <3>2. i # 1
      BY <1>1, <2>2, <3>1
    <3> QED BY <1>3, <3>1, <3>2 DEF Occurs
  <2> QED BY <2>1, <2>2
<1>7. ASSUME s[Len(s)] # h PROVE r # <<>> /\ r[Len(r)] = s[Len(s)]
  <2>1. Len(s) # 1
    BY <1>1, <1>7
  <2>2. Len(s) \in 1 .. Len(s)
    BY <1>1
  <2>3. r[Len(s) - 1] = s[Len(s)] /\ Len(s) - 1 \in 1 .. Len(r)
    BY <1>3, <2>1, <2>2
  <2>4. r # <<>>
    BY <1>1, <2>1
  <2> QED BY <1>1, <2>3, <2>4
<1> QED BY <1>1, <1>4, <1>5, <1>6, <1>7 DEF r, h

\* A swapchain has an image at least, and as many as were asked for.
LEMMA ImageCountFinite ==
  ASSUME Images!ConstantsAssumption
  PROVE  Images!Cardinality(Images!Images) \in Nat \ {0}
<1>1. Images!Images = 0 .. IF is_static THEN 0 ELSE ImageCount - 1
  BY DEF Images!Images
<1>2. (IF is_static THEN 0 ELSE ImageCount - 1) \in Nat
  BY DEF Images!ConstantsAssumption
<1>3. Images!Cardinality(Images!Images) =
        (IF is_static THEN 0 ELSE ImageCount - 1) + 1
  BY <1>1, <1>2, FS_Interval, ImagesSets
<1> QED BY <1>2, <1>3

\* xrAcquireSwapchainImage takes the image at the front of both FIFOs.
LEMMA AcquireHolds ==
  ASSUME Images!ConstantsAssumption, SwapchainInv, Images!Acquire
  PROVE  SwapchainInv'
<1> USE DEF SwapchainInv
<1>1. UNCHANGED <<is_static, inflight, handle, slot, garbage, drawing, freed>>
      /\ num < Images!Cardinality(Images!Images)
  BY DEF Images!Acquire, Images!slotVars
<1>2. ReferencesInv'
  BY <1>1 DEF ReferencesInv, Images!Images
<1>3. fifo # <<>>
  <2>1. Len(fifo) # 0
    BY <1>1, ImageCountFinite DEF ImagesInv
  <2> QED BY <2>1
<1> DEFINE h == Head(fifo)
<1>4. /\ Tail(fifo) \in Seq(Images!Images) /\ h \in Images!Images
           /\ Occurs(fifo, h)
      /\ Len(Tail(fifo)) = Len(fifo) - 1 /\ Len(fifo) \in Nat /\ Len(fifo) >= 1
      /\ Distinct(Tail(fifo))
      /\ \A y : Occurs(Tail(fifo), y) <=> Occurs(fifo, y) /\ y # h
      /\ fifo[Len(fifo)] # h =>
           Tail(fifo) # <<>> /\ Tail(fifo)[Len(Tail(fifo))] = fifo[Len(fifo)]
  BY <1>3, TailDistinct DEF ImagesInv
<1>5. state[h] = "READY"
  BY <1>4 DEF ImagesInv
<1>6. /\ fifo' = Tail(fifo) /\ num' = num + 1
      /\ acquired' = Append(acquired, h)
      /\ state' = [state EXCEPT ![h] = "ACQUIRED"]
      /\ released' = IF released = h THEN Images!None ELSE released
      /\ UNCHANGED failed
  BY <1>3, <1>5 DEF Images!Acquire
<1>7. ~Occurs(acquired, h) /\ inflight # h
  BY <1>4, <1>5 DEF ImagesInv
<1>8. /\ acquired' \in Seq(Images!Images) /\ Distinct(acquired')
      /\ Len(acquired') = Len(acquired) + 1 /\ Len(acquired) \in Nat
      /\ \A y : Occurs(acquired', y) <=> Occurs(acquired, y) \/ y = h
  BY <1>4, <1>6, <1>7, AppendDistinct DEF ImagesInv
<1>9. Images!Images' = Images!Images
  BY <1>1 DEF Images!Images
<1> HIDE DEF h
<1>10. /\ state' \in [Images!Images -> {"READY", "ACQUIRED", "WAITED"}]
       /\ state'[h] = "ACQUIRED"
       /\ \A y \in Images!Images : y # h => state'[y] = state[y]
  BY <1>4, <1>6 DEF ImagesInv
<1>11. \A x \in Images!Images : /\ state'[x] = "READY" <=> Occurs(fifo', x)
                                /\ state'[x] = "ACQUIRED"
                                     <=> Occurs(acquired', x)
                                /\ state'[x] = "WAITED" <=> inflight' = x
  <2> SUFFICES ASSUME NEW x \in Images!Images
               PROVE  /\ state'[x] = "READY" <=> Occurs(fifo', x)
                      /\ state'[x] = "ACQUIRED" <=> Occurs(acquired', x)
                      /\ state'[x] = "WAITED" <=> inflight' = x
    OBVIOUS
  <2>1. CASE x = h
    BY <1>1, <1>4, <1>6, <1>7, <1>8, <1>10, <2>1
  <2>2. CASE x # h
    BY <1>1, <1>4, <1>6, <1>8, <1>10, <2>2 DEF ImagesInv
  <2> QED BY <2>1, <2>2
<1>12. /\ num' \in Nat /\ Len(fifo') + num' = Images!Cardinality(Images!Images)
       /\ num' = Len(acquired') + IF inflight' = Images!None THEN 0 ELSE 1
  BY <1>1, <1>4, <1>6, <1>8 DEF ImagesInv
<1>13. /\ released' \in Images!Images \union {Images!None}
       /\ released' # Images!None
            => fifo' # <<>> /\ released' = fifo'[Len(fifo')]
  BY <1>4, <1>6 DEF ImagesInv
<1>14. ImagesInv'
  BY <1>1, <1>4, <1>6, <1>8, <1>9, <1>10, <1>11, <1>12, <1>13 DEF ImagesInv
<1> QED BY <1>2, <1>14

\* xrWaitSwapchainImage takes the image that was acquired first.
LEMMA WaitHolds ==
  ASSUME Images!ConstantsAssumption, SwapchainInv, Images!Wait
  PROVE  SwapchainInv'
<1> USE DEF SwapchainInv
<1> DEFINE h == Head(acquired)
<1>1. /\ UNCHANGED <<is_static, fifo, num, released, handle, slot, garbage,
                     drawing, freed, failed>>
      /\ inflight = Images!None /\ acquired # <<>>
      /\ inflight' = h /\ acquired' = Tail(acquired)
      /\ state' = [state EXCEPT ![h] = "WAITED"]
  BY DEF Images!Wait, Images!slotVars
<1>2. ReferencesInv'
  BY <1>1 DEF ReferencesInv, Images!Images
<1>3. /\ acquired' \in Seq(Images!Images) /\ h \in Images!Images
           /\ Occurs(acquired, h)
      /\ Len(acquired') = Len(acquired) - 1 /\ Len(acquired) \in Nat
           /\ Len(acquired) >= 1
      /\ Distinct(acquired')
      /\ \A y : Occurs(acquired', y) <=> Occurs(acquired, y) /\ y # h
  BY <1>1, TailDistinct DEF ImagesInv
<1>4. h # Images!None /\ ~Occurs(fifo, h)
  BY <1>3 DEF ImagesInv, Images!None, Images!Images
<1>5. Images!Images' = Images!Images
  BY <1>1 DEF Images!Images
<1> HIDE DEF h
<1>6. /\ state' \in [Images!Images -> {"READY", "ACQUIRED", "WAITED"}]
      /\ state'[h] = "WAITED"
      /\ \A y \in Images!Images : y # h => state'[y] = state[y]
  BY <1>1, <1>3 DEF ImagesInv
<1>7. \A x \in Images!Images : /\ state'[x] = "READY" <=> Occurs(fifo', x)
                               /\ state'[x] = "ACQUIRED"
                                    <=> Occurs(acquired', x)
                               /\ state'[x] = "WAITED" <=> inflight' = x
  <2> SUFFICES ASSUME NEW x \in Images!Images
               PROVE  /\ state'[x] = "READY" <=> Occurs(fifo', x)
                      /\ state'[x] = "ACQUIRED" <=> Occurs(acquired', x)
                      /\ state'[x] = "WAITED" <=> inflight' = x
    OBVIOUS
  <2>1. CASE x = h
    BY <1>1, <1>3, <1>4, <1>6, <2>1
  <2>2. CASE x # h
    <3>1. state[x] # "WAITED"
      BY <1>1 DEF ImagesInv, Images!None, Images!Images
    <3> QED BY <1>1, <1>3, <1>6, <2>2, <3>1 DEF ImagesInv
  <2> QED BY <2>1, <2>2
<1>8. /\ num' \in Nat /\ Len(fifo') + num' = Images!Cardinality(Images!Images)
      /\ num' = Len(acquired') + IF inflight' = Images!None THEN 0 ELSE 1
  BY <1>1, <1>3, <1>4 DEF ImagesInv
<1>9. ImagesInv'
  BY <1>1, <1>3, <1>5, <1>6, <1>7, <1>8 DEF ImagesInv
<1> QED BY <1>2, <1>9

\* xrReleaseSwapchainImage gives the image back to the compositor.
LEMMA ReleaseHolds ==
  ASSUME Images!ConstantsAssumption, SwapchainInv, Images!Release
  PROVE  SwapchainInv'
<1> USE DEF SwapchainInv
<1>1. /\ UNCHANGED <<is_static, acquired, handle, slot, garbage, drawing,
                     freed, failed>>
      /\ inflight # Images!None
      /\ fifo' = Append(fifo, inflight) /\ num' = num - 1
      /\ released' = inflight /\ inflight' = Images!None
      /\ state' = [state EXCEPT ![inflight] = "READY"]
  BY DEF Images!Release, Images!slotVars
<1>2. ReferencesInv'
  BY <1>1 DEF ReferencesInv, Images!Images
<1>3. inflight \in Images!Images /\ state[inflight] = "WAITED"
        /\ ~Occurs(fifo, inflight)
      /\ ~Occurs(acquired, inflight)
  BY <1>1 DEF ImagesInv
<1>4. /\ fifo' \in Seq(Images!Images) /\ Distinct(fifo')
      /\ Len(fifo') = Len(fifo) + 1 /\ Len(fifo) \in Nat
      /\ fifo' # <<>> /\ fifo'[Len(fifo')] = inflight
      /\ \A y : Occurs(fifo', y) <=> Occurs(fifo, y) \/ y = inflight
  BY <1>1, <1>3, AppendDistinct DEF ImagesInv
<1>5. Images!Images' = Images!Images
  BY <1>1 DEF Images!Images
<1>6. /\ state' \in [Images!Images -> {"READY", "ACQUIRED", "WAITED"}]
      /\ state'[inflight] = "READY"
      /\ \A y \in Images!Images : y # inflight => state'[y] = state[y]
  BY <1>1, <1>3 DEF ImagesInv
<1>7. \A x \in Images!Images : /\ state'[x] = "READY" <=> Occurs(fifo', x)
                               /\ state'[x] = "ACQUIRED"
                                    <=> Occurs(acquired', x)
                               /\ state'[x] = "WAITED" <=> inflight' = x
  <2> SUFFICES ASSUME NEW x \in Images!Images
               PROVE  /\ state'[x] = "READY" <=> Occurs(fifo', x)
                      /\ state'[x] = "ACQUIRED" <=> Occurs(acquired', x)
                      /\ state'[x] = "WAITED" <=> inflight' = x
    OBVIOUS
  <2>0. x # Images!None
    BY DEF Images!None, Images!Images
  <2>1. CASE x = inflight
    BY <1>1, <1>3, <1>4, <1>6, <2>0, <2>1
  <2>2. CASE x # inflight
    BY <1>1, <1>4, <1>6, <2>0, <2>2 DEF ImagesInv
  <2> QED BY <2>1, <2>2
<1>8. /\ num' \in Nat /\ Len(fifo') + num' = Images!Cardinality(Images!Images)
      /\ num' = Len(acquired') + IF inflight' = Images!None THEN 0 ELSE 1
  <2>1. Len(acquired) \in Nat /\ Images!Cardinality(Images!Images) \in Nat
    BY ImageCountFinite DEF ImagesInv
  <2> QED BY <1>1, <1>4, <2>1 DEF ImagesInv
<1>9. ImagesInv'
  BY <1>1, <1>3, <1>4, <1>5, <1>6, <1>7, <1>8 DEF ImagesInv
<1> QED BY <1>2, <1>9

(* A slot of the client keeps a reference, or lets go of one. *)
LEMMA ReferencesHold ==
  ASSUME SwapchainInv,
         NEW slots \in
           [Images!SlotNames -> Images!Images \union {Images!None}],
         NEW has_handle \in BOOLEAN, handle' = has_handle,
         Images!SetReferences(slots, has_handle),
         garbage => ~has_handle
           /\ \A s \in Images!SlotNames : slots[s] = Images!None,
         UNCHANGED <<is_static, fifo, acquired, num, inflight, released,
                     state, drawing, freed, failed>>
  PROVE  SwapchainInv'
<1> USE DEF SwapchainInv
<1>1. Images!Images' = Images!Images
  BY DEF Images!Images
<1>2. ImagesInv'
  BY <1>1 DEF ImagesInv
<1>3. /\ slot' = slots
      /\ garbage' =
           (garbage \/ (/\ ~has_handle
                        /\ \A s \in Images!SlotNames :
                             slots[s] = Images!None))
  BY DEF Images!SetReferences
<1>4. garbage' \in BOOLEAN
  BY <1>3, Zenon
<1>5. garbage' <=> ~has_handle
        /\ \A s \in Images!SlotNames : slots[s] = Images!None
  BY <1>3, Zenon
<1>6. garbage => garbage'
  BY <1>3, Zenon
<1>7. ReferencesInv'
  BY <1>1, <1>3, <1>4, <1>5, <1>6 DEF ReferencesInv
<1> QED BY <1>2, <1>7

(* xrEndFrame, and a frame that moves on or is cleared in its slot.          *)
LEMMA SlotsHold ==
  ASSUME Images!ConstantsAssumption, SwapchainInv,
         \/ Images!EndFrame \/ Images!DestroyHandle
              \/ Images!Move("progress", "scheduled")
         \/ Images!Move("scheduled", "delivered")
              \/ \E s \in Images!SlotNames : Images!Clear(s)
  PROVE  SwapchainInv'
<1>1. /\ handle \in BOOLEAN
      /\ slot \in [Images!SlotNames -> Images!Images \union {Images!None}]
      /\ released \in Images!Images \union {Images!None}
      /\ garbage => ~handle
           /\ \A s \in Images!SlotNames : slot[s] = Images!None
      /\ Images!None \in Images!Images \union {Images!None}
      /\ {"progress", "scheduled", "delivered"} \subseteq Images!SlotNames
  BY DEF SwapchainInv, ImagesInv, ReferencesInv, Images!SlotNames
<1>2. CASE Images!EndFrame
  <2>1. [slot EXCEPT !["progress"] = released]
          \in [Images!SlotNames -> Images!Images \union {Images!None}]
    BY <1>1
  <2>2. Images!SetReferences([slot EXCEPT !["progress"] = released], handle)
        /\ handle /\ UNCHANGED <<is_static, fifo, Images!appVars, drawing,
                                 freed, failed>>
    BY <1>2 DEF Images!EndFrame
  <2> QED BY <1>1, <2>1, <2>2, ReferencesHold DEF Images!appVars
<1>3. CASE Images!DestroyHandle
  <2>1. /\ Images!SetReferences(slot, FALSE) /\ handle' = FALSE
        /\ UNCHANGED <<is_static, fifo, acquired, num, inflight, released,
                       state, drawing, freed, failed>>
    BY <1>3 DEF Images!DestroyHandle
  <2> QED BY <1>1, <2>1, ReferencesHold
<1>4. ASSUME NEW from \in Images!SlotNames, NEW to \in Images!SlotNames,
             Images!Move(from, to)
      PROVE  SwapchainInv'
  <2> DEFINE slots == [slot EXCEPT ![to] = slot[from], ![from] = Images!None]
  <2>1. slots \in [Images!SlotNames -> Images!Images \union {Images!None}]
    BY <1>1
  <2>2. /\ slot[from] # Images!None /\ Images!SetReferences(slots, handle)
        /\ UNCHANGED <<is_static, fifo, Images!appVars, drawing, freed,
                       failed>>
    BY <1>4 DEF Images!Move
  <2>3. ~garbage
    BY <1>1, <2>2
  <2> HIDE DEF slots
  <2> QED BY <1>1, <2>1, <2>2, <2>3, ReferencesHold DEF Images!appVars
<1>5. ASSUME NEW s \in Images!SlotNames, Images!Clear(s) PROVE SwapchainInv'
  <2> DEFINE slots == [slot EXCEPT ![s] = Images!None]
  <2>1. slots \in [Images!SlotNames -> Images!Images \union {Images!None}]
    BY <1>1
  <2>2. /\ slot[s] # Images!None /\ Images!SetReferences(slots, handle)
        /\ UNCHANGED <<is_static, fifo, Images!appVars, drawing, freed,
                       failed>>
    BY <1>5 DEF Images!Clear
  <2>3. ~garbage
    BY <1>1, <2>2
  <2> HIDE DEF slots
  <2> QED BY <1>1, <2>1, <2>2, <2>3, ReferencesHold DEF Images!appVars
<1> QED BY <1>1, <1>2, <1>3, <1>4, <1>5

(* The render loop takes the layers up and collects; or nothing happens.     *)
LEMMA RenderHolds ==
  ASSUME Images!ConstantsAssumption, SwapchainInv,
         Images!Draw \/ Images!Collect \/ UNCHANGED Images!vars
  PROVE  SwapchainInv'
<1>1. /\ UNCHANGED <<is_static, fifo, acquired, num, inflight, released, state,
                     handle, slot, garbage, failed>>
      /\ \/ drawing' = slot["delivered"] /\ drawing' # Images!None
           /\ freed' = freed
         \/ drawing' = Images!None /\ freed' = garbage
         \/ drawing' = drawing /\ freed' = freed
  BY DEF Images!Draw, Images!Collect, Images!vars, Images!appVars,
     Images!slotVars
<1>2. Images!Images' = Images!Images
  BY <1>1 DEF Images!Images
<1>3. ImagesInv'
  BY <1>1, <1>2 DEF SwapchainInv, ImagesInv
<1>4. "delivered" \in Images!SlotNames
  BY DEF Images!SlotNames
<1>5. drawing' \in Images!Images \union {Images!None} /\ freed' \in BOOLEAN
  BY <1>1, <1>4 DEF SwapchainInv, ReferencesInv
<1>6. freed' => garbage /\ drawing' = Images!None
  BY <1>1, <1>4 DEF SwapchainInv, ReferencesInv
<1>7. ReferencesInv'
  BY <1>1, <1>2, <1>5, <1>6 DEF SwapchainInv, ReferencesInv
<1> QED BY <1>3, <1>7 DEF SwapchainInv

(* A new swapchain has all its images in the FIFO.                           *)
LEMMA ImagesInitHolds ==
  ASSUME Images!ConstantsAssumption, Images!Init PROVE SwapchainInv
<1> DEFINE last == IF is_static THEN 0 ELSE ImageCount - 1
           n == Images!Cardinality(Images!Images)
<1>1. last \in Nat /\ Images!Images = 0 .. last
  BY DEF Images!ConstantsAssumption, Images!Images
<1> HIDE DEF last
<1>2. n = last + 1
  BY <1>1, FS_Interval, ImagesSets
<1>3. n \in Nat /\ \A i \in 1 .. n : i - 1 \in Images!Images
  BY <1>1, <1>2
<1>4. \A x \in Images!Images : x + 1 \in 1 .. n /\ (x + 1) - 1 = x
        /\ x # Images!None
  <2> SUFFICES ASSUME NEW x \in Images!Images
               PROVE  x + 1 \in 1 .. n /\ (x + 1) - 1 = x /\ x # Images!None
    OBVIOUS
  <2>1. x \in 0 .. last
    BY <1>1
  <2> HIDE DEF n
  <2> QED BY <1>1, <1>2, <2>1 DEF Images!None
<1>5. fifo = [i \in 1 .. n |-> i - 1]
  BY DEF Images!Init
<1> HIDE DEF n
<1>6. fifo \in Seq(Images!Images) /\ Len(fifo) = n
  BY <1>3, <1>5
<1>7. Distinct(fifo)
  BY <1>5, <1>6, <1>3 DEF Distinct
<1>8. \A x \in Images!Images : Occurs(fifo, x)
  BY <1>4, <1>5, <1>6 DEF Occurs
<1>9. /\ is_static \in BOOLEAN /\ acquired = <<>> /\ num = 0
      /\ inflight = Images!None /\ released = Images!None
      /\ state = [i \in Images!Images |-> "READY"] /\ failed = FALSE
  BY DEF Images!Init
<1>10. \A x : ~Occurs(acquired, x)
  BY <1>9 DEF Occurs
<1>11. acquired \in Seq(Images!Images) /\ Distinct(acquired)
         /\ Len(acquired) = 0
  BY <1>9 DEF Distinct
<1>12. ImagesInv
  BY <1>3, <1>4, <1>6, <1>7, <1>8, <1>9, <1>10, <1>11 DEF ImagesInv, n
<1>13. ReferencesInv
  BY DEF Images!Init, ReferencesInv
<1> QED BY <1>12, <1>13 DEF SwapchainInv

(* comp_swapchain.c and oxr_swapchain.c: the state of an image tells which   *)
(* FIFO it is in, each image is in one place, and the swapchain is garbage   *)
(* when nobody refers to it any more; for any number of images.              *)
THEOREM SwapchainInvariant ==
  ASSUME Images!ConstantsAssumption PROVE Images!Spec => []SwapchainInv
<1>1. Images!Init => SwapchainInv
  BY ImagesInitHolds
<1>2. SwapchainInv /\ [Images!Next]_(Images!vars) => SwapchainInv'
  <2> SUFFICES ASSUME SwapchainInv, [Images!Next]_(Images!vars)
               PROVE SwapchainInv'
    OBVIOUS
  <2>1. \/ Images!Acquire \/ Images!Wait \/ Images!Release
        \/ Images!EndFrame \/ Images!DestroyHandle
             \/ Images!Move("progress", "scheduled")
        \/ Images!Move("scheduled", "delivered")
             \/ (\E s \in Images!SlotNames : Images!Clear(s))
        \/ Images!Draw \/ Images!Collect \/ UNCHANGED Images!vars
    BY DEF Images!Next, Images!Finished
  <2> QED BY <2>1, AcquireHolds, WaitHolds, ReleaseHolds, SlotsHold,
             RenderHolds
<1> QED BY <1>1, <1>2, PTL DEF Images!Spec

(* What the invariant says of the two FIFOs taken together.                  *)
LEMMA Accounted ==
  ASSUME Images!ConstantsAssumption, SwapchainInv
  PROVE Images!ImagesAreAccountedFor
<1> DEFINE held == acquired
                      \o (IF inflight = Images!None THEN <<>>
                                                    ELSE <<inflight>>)
           all == fifo \o held
<1> USE DEF SwapchainInv
<1>1. /\ fifo \in Seq(Images!Images) /\ acquired \in Seq(Images!Images)
      /\ inflight \in Images!Images \union {Images!None}
  BY DEF ImagesInv
<1>2. /\ held \in Seq(Images!Images)
      /\ Len(held) = Len(acquired) + IF inflight = Images!None THEN 0 ELSE 1
      /\ \A i \in 1 .. Len(acquired) : held[i] = acquired[i]
      /\ inflight # Images!None => held[Len(acquired) + 1] = inflight
  <2>1. CASE inflight = Images!None
    <3>1. held = acquired
      BY <1>1, <2>1
    <3> QED BY <1>1, <2>1, <3>1
  <2>2. CASE inflight # Images!None
    <3>1. held = acquired \o <<inflight>>
      BY <2>2
    <3> HIDE DEF held
    <3> QED BY <1>1, <2>2, <3>1
  <2> QED BY <2>1, <2>2
<1>3. num = Len(held) /\ Len(held) \in Nat /\ Len(fifo) \in Nat
        /\ Len(acquired) \in Nat
  BY <1>1, <1>2 DEF ImagesInv
<1> HIDE DEF held
<1>4. /\ all \in Seq(Images!Images) /\ Len(all) = Len(fifo) + Len(held)
      /\ \A i \in 1 .. Len(fifo) : all[i] = fifo[i]
      /\ \A i \in 1 .. Len(held) : all[Len(fifo) + i] = held[i]
  <2>1. fifo \in Seq(Images!Images) /\ held \in Seq(Images!Images)
    BY <1>1, <1>2
  <2>2. all \in Seq(Images!Images) /\ Len(all) = Len(fifo) + Len(held)
    BY <2>1
  <2>3. ASSUME NEW i \in 1 .. Len(fifo) PROVE all[i] = fifo[i]
    BY <2>1
  <2>4. ASSUME NEW i \in 1 .. Len(held) PROVE all[Len(fifo) + i] = held[i]
    <3>1. /\ Len(fifo) \in Nat /\ Len(held) \in Nat /\ i \in Nat /\ i >= 1
          /\ i <= Len(held)
      BY <2>1
    <3> QED BY <2>1, <3>1
  <2> QED BY <2>2, <2>3, <2>4
<1> HIDE DEF all
<1>5. \A i \in 1 .. Len(held) : \/ i \in 1 .. Len(acquired)
                                \/ i = Len(acquired) + 1
                                     /\ inflight # Images!None
  BY <1>2, <1>3
<1>6. \A i \in 1 .. Len(all) : \/ i \in 1 .. Len(fifo)
                               \/ i - Len(fifo) \in 1 .. Len(held)
  BY <1>3, <1>4
<1>7. Distinct(held)
  <2> SUFFICES ASSUME NEW i \in 1 .. Len(held), NEW j \in 1 .. Len(held),
                      held[i] = held[j]
               PROVE  i = j
    BY DEF Distinct
  <2>1. inflight # Images!None => ~Occurs(acquired, inflight)
    BY <1>1 DEF ImagesInv
  <2>2. CASE i \in 1 .. Len(acquired) /\ j \in 1 .. Len(acquired)
    BY <1>2, <2>2 DEF ImagesInv, Distinct
  <2>3. CASE i \in 1 .. Len(acquired) /\ j = Len(acquired) + 1
               /\ inflight # Images!None
    BY <1>2, <2>1, <2>3 DEF Occurs
  <2>4. CASE j \in 1 .. Len(acquired) /\ i = Len(acquired) + 1
               /\ inflight # Images!None
    BY <1>2, <2>1, <2>4 DEF Occurs
  <2> QED BY <1>5, <2>2, <2>3, <2>4
<1>8. \A x \in Images!Images : Occurs(held, x) <=> state[x] # "READY"
  <2> SUFFICES ASSUME NEW x \in Images!Images
               PROVE Occurs(held, x) <=> state[x] # "READY"
    OBVIOUS
  <2>1. Occurs(held, x)
          <=> Occurs(acquired, x) \/ (inflight # Images!None /\ inflight = x)
    <3>1. ASSUME Occurs(held, x)
          PROVE  Occurs(acquired, x)
                   \/ (inflight # Images!None /\ inflight = x)
      BY <1>2, <1>5, <3>1 DEF Occurs
    <3>2. ASSUME Occurs(acquired, x) PROVE Occurs(held, x)
      <4>1. PICK i \in 1 .. Len(acquired) : acquired[i] = x
        BY <3>2 DEF Occurs
      <4>2. i \in 1 .. Len(held) /\ held[i] = x
        BY <1>2, <1>3, <4>1
      <4> QED BY <4>2 DEF Occurs
    <3>3. ASSUME inflight # Images!None, inflight = x PROVE Occurs(held, x)
      <4>1. Len(acquired) + 1 \in 1 .. Len(held)
        BY <1>2, <1>3, <3>3
      <4> QED BY <1>2, <3>3, <4>1 DEF Occurs
    <3> QED BY <3>1, <3>2, <3>3
  <2>2. x # Images!None
    BY DEF Images!Images, Images!None
  <2>3. state[x] \in {"READY", "ACQUIRED", "WAITED"}
    BY DEF ImagesInv
  <2> QED BY <2>1, <2>2, <2>3 DEF ImagesInv
<1>9. Distinct(all)
  <2> SUFFICES ASSUME NEW i \in 1 .. Len(all), NEW j \in 1 .. Len(all),
                      all[i] = all[j]
               PROVE  i = j
    BY DEF Distinct
  <2>1. ASSUME NEW a \in 1 .. Len(fifo), NEW b \in 1 .. Len(held)
        PROVE  fifo[a] # held[b]
    <3>1. fifo[a] \in Images!Images /\ Occurs(fifo, fifo[a])
      BY <1>1 DEF Occurs
    <3>2. state[fifo[a]] = "READY"
      BY <3>1 DEF ImagesInv
    <3>3. ~Occurs(held, fifo[a])
      BY <1>8, <3>1, <3>2
    <3> QED BY <3>3 DEF Occurs
  <2>2. \A k \in 1 .. Len(all) :
           \/ k \in 1 .. Len(fifo) /\ all[k] = fifo[k]
           \/ k - Len(fifo) \in 1 .. Len(held) /\ all[k] = held[k - Len(fifo)]
    <3> SUFFICES ASSUME NEW k \in 1 .. Len(all)
                 PROVE  \/ k \in 1 .. Len(fifo) /\ all[k] = fifo[k]
                        \/ /\ k - Len(fifo) \in 1 .. Len(held)
                           /\ all[k] = held[k - Len(fifo)]
      OBVIOUS
    <3>1. Len(fifo) + (k - Len(fifo)) = k
      BY <1>3
    <3> QED BY <1>4, <1>6, <3>1
  <2>3. CASE i \in 1 .. Len(fifo) /\ all[i] = fifo[i]
             /\ j \in 1 .. Len(fifo) /\ all[j] = fifo[j]
    BY <2>3 DEF ImagesInv, Distinct
  <2>4. CASE /\ i - Len(fifo) \in 1 .. Len(held)
                  /\ all[i] = held[i - Len(fifo)]
             /\ j - Len(fifo) \in 1 .. Len(held)
                  /\ all[j] = held[j - Len(fifo)]
    <3>1. i - Len(fifo) = j - Len(fifo)
      BY <1>7, <2>4 DEF Distinct
    <3> QED BY <1>3, <3>1
  <2> QED BY <2>1, <2>2, <2>3, <2>4
<1>10. Images!IsInjective(all)
  <2>1. DOMAIN all = 1 .. Len(all)
    BY <1>4
  <2> QED BY <1>9, <2>1 DEF Images!IsInjective, Distinct
<1>11. Images!ToSet(all) = Images!Images
  <2>1. Images!ToSet(all) \subseteq Images!Images
    BY <1>4 DEF Images!ToSet
  <2>2. ASSUME NEW x \in Images!Images PROVE x \in Images!ToSet(all)
    <3>1. Occurs(fifo, x) \/ Occurs(held, x)
      BY <1>8 DEF ImagesInv
    <3>2. CASE Occurs(fifo, x)
      <4>1. PICK i \in 1 .. Len(fifo) : fifo[i] = x
        BY <3>2 DEF Occurs
      <4>2. i \in DOMAIN all /\ all[i] = x
        BY <1>3, <1>4, <4>1
      <4> QED BY <4>2 DEF Images!ToSet
    <3>3. CASE Occurs(held, x)
      <4>1. PICK i \in 1 .. Len(held) : held[i] = x
        BY <3>3 DEF Occurs
      <4>2. Len(fifo) + i \in DOMAIN all /\ all[Len(fifo) + i] = x
        BY <1>3, <1>4, <4>1
      <4> QED BY <4>2 DEF Images!ToSet
    <3> QED BY <3>1, <3>2, <3>3
  <2> QED BY <2>1, <2>2
<1>12. \A s \in Seq(Images!Images) : \A x : x \in Images!ToSet(s)
         <=> Occurs(s, x)
  BY DEF Images!ToSet, Occurs
<1>13. \A i \in Images!Images :
         state[i] = CASE i \in Images!ToSet(fifo) -> "READY"
                      [] i \in Images!ToSet(acquired) -> "ACQUIRED"
                      [] i = inflight -> "WAITED"
  <2> SUFFICES ASSUME NEW x \in Images!Images
               PROVE  state[x] = CASE x \in Images!ToSet(fifo) -> "READY"
                                   [] x \in Images!ToSet(acquired) ->
                                        "ACQUIRED"
                                   [] x = inflight -> "WAITED"
    OBVIOUS
  <2>1. state[x] \in {"READY", "ACQUIRED", "WAITED"}
        /\ (state[x] = "READY" <=> x \in Images!ToSet(fifo))
        /\ (state[x] = "ACQUIRED" <=> x \in Images!ToSet(acquired))
        /\ (state[x] = "WAITED" <=> x = inflight)
    BY <1>1, <1>12 DEF ImagesInv
  <2>2. CASE state[x] = "READY"
    BY <2>1, <2>2
  <2>3. CASE state[x] = "ACQUIRED"
    BY <2>1, <2>3
  <2>4. CASE state[x] = "WAITED"
    BY <2>1, <2>4
  <2> QED BY <2>1, <2>2, <2>3, <2>4
<1>14. Images!TypeOK
  <2>1. num \in 0 .. Images!Cardinality(Images!Images)
    BY <1>3, ImageCountFinite DEF ImagesInv
  <2> QED BY <2>1 DEF Images!TypeOK, ImagesInv, ReferencesInv
<1>15. released # Images!None => fifo # <<>> /\ released = Images!Last(fifo)
  BY DEF ImagesInv, Images!Last
<1>16. garbage <=> Images!References = {}
  <2>1. Images!References = {}
          <=> ~handle /\ \A s \in Images!SlotNames : slot[s] = Images!None
    BY DEF Images!References
  <2> QED BY <2>1 DEF ReferencesInv
<1>17. (freed => garbage /\ drawing = Images!None) /\ ~failed
  BY DEF ImagesInv, ReferencesInv
<1> QED
  BY <1>3, <1>10, <1>11, <1>13, <1>14, <1>15, <1>16, <1>17
  DEF Images!ImagesAreAccountedFor, held, all

(* So no image is lost or handed out twice, no call fails because of one,    *)
(* and the images are freed only when neither the application nor a frame of *)
(* the client nor the render loop uses them.                                 *)
THEOREM ImagesAccounted ==
  ASSUME Images!ConstantsAssumption
  PROVE Images!Spec => []Images!ImagesAreAccountedFor
<1>1. SwapchainInv => Images!ImagesAreAccountedFor
  BY Accounted
<1> QED BY <1>1, SwapchainInvariant, PTL

-----------------------------------------------------------------------------

CurrentId == IF next_frame_id = 0 THEN Native!Invalid ELSE next_frame_id

\* The state of the frame that is being made, while there is one.
StageOf == [p \in {"sleep", "draw", "render", "present"} |->
              CASE p = "sleep" -> Native!PREDICTED [] p = "draw" -> Native!WOKE
                [] p = "render" -> Native!BEGAN
                [] p = "present" -> Native!SUBMITTED]

\* What the places of the render loop say of the ids.
PlaceInv ==
  /\ current_frame_id = CurrentId
  /\ place # "predict" => next_frame_id > 0

\* While no submission has failed, the frame that is being made is the newest
\* one, its slot of the pacer is its own, and it is not reported on yet.
StageInv ==
  ~submit_failed =>
    /\ display_aborted = FALSE
    /\ waited = IF place \in {"sleep", "draw"} THEN next_frame_id
         ELSE Native!Invalid
    /\ rendering = IF place \in {"render", "present"} THEN next_frame_id
         ELSE Native!Invalid
    /\ place \in DOMAIN StageOf =>
         /\ Native!get_frame(next_frame_id).frame_id = next_frame_id
         /\ Native!get_frame(next_frame_id).state = StageOf[place]
         /\ next_frame_id \notin presented
    /\ \A id \in presented : /\ id <= next_frame_id
                             /\ Native!Remembered(id)
                                  => Native!get_frame(id).state =
                                    Native!SUBMITTED

FrameInv == Native!TypeOK /\ PlaceInv /\ StageInv

-----------------------------------------------------------------------------
\* Max and Min of FiniteSetsExt, of two integers.
LEMMA MaxOfTwo ==
  ASSUME NEW a \in Int, NEW b \in Int
  PROVE  /\ Native!Max({a, b}) \in {a, b} /\ Native!Max({a, b}) >= a
              /\ Native!Max({a, b}) >= b
         /\ Native!Min({a, b}) \in {a, b}
<1>1. \E x \in {a, b} : \A y \in {a, b} : x >= y
  OBVIOUS
<1>2. \E x \in {a, b} : \A y \in {a, b} : x =< y
  OBVIOUS
<1> QED BY <1>1, <1>2 DEF Native!Max, Native!Min

\* Ids in a bounded range have a largest one.
LEMMA MaxOfIds ==
  ASSUME Native!ConstantsAssumption, NEW S \in SUBSET Native!Ids, S # {}
  PROVE  Native!Max(S) \in S /\ \A id \in S : Native!Max(S) >= id
<1>1. DisplayFrames \in Nat /\ \A id \in S : id \in Nat
        /\ DisplayFrames - id \in Nat
  BY DEF Native!ConstantsAssumption, Native!Ids
<1> DEFINE Mirror == {n \in Nat : \E id \in S : n = DisplayFrames - id}
<1>2. \A id \in S : DisplayFrames - id \in Mirror
  BY <1>1
<1>3. Mirror \subseteq Nat /\ Mirror # {}
  BY <1>2
<1>4. \A m \in Mirror : \E id \in S : m = DisplayFrames - id
  OBVIOUS
<1> HIDE DEF Mirror
<1>5. PICK n \in Mirror : \A m \in Mirror : <<m, n>> \notin OpToRel(<, Nat)
  BY <1>3, NatLessThanWellFounded, WFMin, Zenon
<1>6. \A m \in Mirror : ~(m < n)
  BY <1>3, <1>5, Zenon DEF OpToRel
<1>7. PICK top \in S : n = DisplayFrames - top
  BY <1>4
<1>8. \A id \in S : top >= id
  BY <1>1, <1>2, <1>6, <1>7
<1> QED BY <1>8 DEF Native!Max

\* The first multiple of the period after a time, or one period.
LEMMA FirstPeriod ==
  ASSUME NEW P \in Nat \ {0}, NEW d \in Int
  PROVE  \E k \in 1 .. Native!Max({1, d + 1}) : /\ k * P > d
                                                /\ k = 1 \/ (k - 1) * P <= d
<1>1. Native!Max({1, d + 1}) \in Int /\ Native!Max({1, d + 1}) >= 1
        /\ Native!Max({1, d + 1}) >= d + 1
  BY MaxOfTwo
<1> DEFINE top == Native!Max({1, d + 1})
<1> HIDE DEF top
<1>2. CASE d < P
  <2>1. 1 \in 1 .. top /\ 1 * P > d
    BY <1>1, <1>2 DEF top
  <2> QED BY <2>1 DEF top
<1>3. CASE d >= P
  <2> DEFINE Later == {k \in Nat : k * P > d}
  <2>1. d + 1 \in Nat /\ d \in Nat
    BY <1>3
  <2>2. (d + 1) * P > d
    <3>1. (d + 1) * P = d * P + P /\ d * P >= d
      BY <2>1
    <3> QED BY <2>1, <3>1
  <2>3. Later \subseteq Nat /\ d + 1 \in Later
    BY <2>1, <2>2
  <2>4. \A k : k \in Later <=> k \in Nat /\ k * P > d
    OBVIOUS
  <2> HIDE DEF Later
  <2>5. PICK k \in Later : \A m \in Later : <<m, k>> \notin OpToRel(<, Nat)
    BY <2>3, NatLessThanWellFounded, WFMin, Zenon
  <2>6. \A m \in Later : ~(m < k)
    BY <2>3, <2>5, Zenon DEF OpToRel
  <2>7. k \in Nat /\ k * P > d /\ k <= d + 1
    BY <2>1, <2>3, <2>4, <2>6
  <2>8. k # 0
    <3>1. 0 * P = 0
      OBVIOUS
    <3> QED BY <2>1, <2>7, <3>1
  <2>9. k - 1 \in Nat /\ k - 1 < k
    BY <2>7, <2>8
  <2>10. ~((k - 1) * P > d)
    BY <2>4, <2>6, <2>9
  <2>11. (k - 1) * P <= d
    BY <2>1, <2>9, <2>10
  <2>12. k \in 1 .. top
    BY <1>1, <2>1, <2>7, <2>8 DEF top
  <2> QED BY <2>7, <2>11, <2>12 DEF top
<1>4. d < P \/ d >= P
  OBVIOUS
<1> QED BY <1>2, <1>3, <1>4, Zenon

\* The slot of an id, and the types of what is in it.
LEMMA SlotOfId ==
  ASSUME Native!ConstantsAssumption, NEW id \in Int
  PROVE  id % NumFrames \in Native!Slots
<1>1. NumFrames \in Nat /\ NumFrames > 0
  BY DEF Native!ConstantsAssumption
<1>2. id % NumFrames \in 0 .. NumFrames - 1
  BY <1>1
<1> QED BY <1>2 DEF Native!Slots

\* The slot of an id holds a frame.
LEMMA FrameTypes ==
  ASSUME Native!ConstantsAssumption, Native!TypeOK, NEW id \in Int
  PROVE  /\ Native!get_frame(id) \in Native!Frames
              /\ Native!get_frame(id).desired \in Nat
         /\ Native!get_frame(id).display \in Nat
              /\ Native!get_frame(id).earliest \in Nat
BY SlotOfId DEF Native!TypeOK, Native!get_frame, Native!Frames

\* walk_forward_through_frames gives a time.
LEMMA WalkForward ==
  ASSUME Native!ConstantsAssumption, Native!TypeOK, NEW last \in Nat
  PROVE  Native!walk_forward(last) \in Nat
<1> DEFINE from == display_now + Native!calc_total_comp_time
           top == Native!Max({1, from - last + 1})
           periods == CHOOSE k \in 1 .. top :
                        /\ last + k * Period > from
                        /\ k = 1 \/ last + (k - 1) * Period <= from
<1>1. from \in Int /\ Period \in Nat \ {0}
  BY DEF Native!TypeOK, Native!ConstantsAssumption, Native!calc_total_comp_time
<1> HIDE DEF from
<1>a. from - last \in Int
  BY <1>1
<1>b. top \in Int
  <2>1. 1 \in Int /\ from - last + 1 \in Int
    BY <1>1
  <2>2. Native!Max({1, from - last + 1}) \in {1, from - last + 1}
    BY <2>1, MaxOfTwo
  <2> QED BY <2>1, <2>2
<1>2. PICK k \in 1 .. top : /\ k * Period > from - last
                            /\ k = 1 \/ (k - 1) * Period <= from - last
  BY <1>1, <1>a, FirstPeriod
<1>3. top \in Int
  BY <1>b
<1> HIDE DEF top
<1>4. last + k * Period > from
  BY <1>1, <1>2, <1>3
<1>5. k = 1 \/ last + (k - 1) * Period <= from
  BY <1>1, <1>2, <1>3
<1>6. periods \in 1 .. top
  BY <1>4, <1>5
<1> HIDE DEF periods
<1>7. periods \in Nat /\ last + periods * Period \in Nat
  BY <1>1, <1>3, <1>6
<1> QED BY <1>7 DEF Native!walk_forward, periods, top, from

\* get_latest_frame_with_state_at_least returns the newest, or none.
LEMMA LatestFrame ==
  ASSUME Native!ConstantsAssumption, Native!TypeOK,
         NEW stage \in Native!PREDICTED .. Native!INFO
  PROVE  \/ Native!get_latest(stage) = Native!Invalid
              /\ Native!WithStateAtLeast(stage) = {}
         \/ /\ Native!get_latest(stage) \in Native!Ids
            /\ Native!get_latest(stage) \in Native!WithStateAtLeast(stage)
            /\ \A id \in Native!WithStateAtLeast(stage) :
                 Native!get_latest(stage) >= id
<1>1. Native!WithStateAtLeast(stage) \in SUBSET Native!Ids
  BY DEF Native!WithStateAtLeast, Native!Recent
<1> QED BY <1>1, MaxOfIds DEF Native!get_latest

\* predict_next_frame gives a time.
LEMMA DesiredIsATime ==
  ASSUME Native!ConstantsAssumption, Native!TypeOK
  PROVE Native!DesiredPresent \in Nat
<1> DEFINE predicted == Native!get_latest(Native!PREDICTED)
           completed == Native!get_latest(Native!INFO)
<1>1. Native!PREDICTED \in Native!PREDICTED .. Native!INFO
        /\ Native!INFO \in Native!PREDICTED .. Native!INFO
  BY DEF Native!PREDICTED, Native!INFO
<1>2. Native!WithStateAtLeast(Native!INFO)
        \subseteq Native!WithStateAtLeast(Native!PREDICTED)
  <2> SUFFICES ASSUME NEW id \in Native!WithStateAtLeast(Native!INFO)
               PROVE  id \in Native!WithStateAtLeast(Native!PREDICTED)
    OBVIOUS
  <2>1. id \in Native!Recent /\ Native!get_frame(id).frame_id = id
          /\ Native!get_frame(id).state >= Native!INFO
    BY DEF Native!WithStateAtLeast
  <2>2. Native!get_frame(id).state \in Native!CLEARED .. Native!INFO
    BY <2>1, FrameTypes DEF Native!Recent, Native!Ids, Native!Frames
  <2>3. Native!get_frame(id).state >= Native!PREDICTED
    BY <2>1, <2>2 DEF Native!PREDICTED, Native!INFO, Native!CLEARED
  <2> QED BY <2>1, <2>3 DEF Native!WithStateAtLeast
<1>3. /\ predicted \in Native!Ids \union {Native!Invalid}
           /\ completed \in Native!Ids \union {Native!Invalid}
      /\ completed # Native!Invalid
           => predicted # Native!Invalid /\ predicted >= completed
  <2>1. \/ predicted = Native!Invalid
             /\ Native!WithStateAtLeast(Native!PREDICTED) = {}
        \/ /\ predicted \in Native!Ids
           /\ \A id \in Native!WithStateAtLeast(Native!PREDICTED) :
                predicted >= id
    BY <1>1, LatestFrame
  <2>2. \/ completed = Native!Invalid
        \/ completed \in Native!Ids
             /\ completed \in Native!WithStateAtLeast(Native!INFO)
    BY <1>1, LatestFrame
  <2>3. Native!Invalid \notin Native!Ids
    BY DEF Native!Ids, Native!Invalid
  <2> HIDE DEF predicted, completed
  <2> QED BY <1>2, <2>1, <2>2, <2>3
<1>4. \A id \in Native!Ids : /\ Native!get_frame(id).earliest \in Nat
                             /\ Native!get_frame(id).display \in Nat
  BY FrameTypes DEF Native!Ids
<1>5. display_now \in Nat /\ Period \in Nat
  BY DEF Native!TypeOK, Native!ConstantsAssumption
<1>6. Native!Ids \subseteq Nat /\ Native!Invalid \notin Native!Ids
  BY DEF Native!Ids, Native!Invalid
<1>7. Native!DesiredPresent =
        CASE predicted = Native!Invalid -> display_now + 10 * Period
          [] predicted # Native!Invalid /\ completed = predicted ->
               Native!walk_forward(Native!get_frame(completed).earliest)
          [] completed \notin {Native!Invalid, predicted} ->
               Native!walk_forward(Native!get_frame(completed).earliest
                                   + (predicted - completed) * Period)
          [] predicted # Native!Invalid /\ completed = Native!Invalid ->
               Native!walk_forward(Native!get_frame(predicted).display)
  BY DEF Native!DesiredPresent
<1> HIDE DEF predicted, completed
<1>8. CASE predicted = Native!Invalid
  <2>1. completed = Native!Invalid
    BY <1>3, <1>8
  <2>2. Native!DesiredPresent = display_now + 10 * Period
    BY <1>7, <1>8, <2>1
  <2> QED BY <1>5, <2>2
<1>9. CASE predicted # Native!Invalid /\ completed = predicted
  <2>1. Native!DesiredPresent =
          Native!walk_forward(Native!get_frame(completed).earliest)
    BY <1>7, <1>9
  <2> QED BY <1>3, <1>4, <1>9, <2>1, WalkForward
<1>10. CASE completed \notin {Native!Invalid, predicted}
  <2>1. Native!DesiredPresent =
          Native!walk_forward(Native!get_frame(completed).earliest
                                + (predicted - completed) * Period)
    BY <1>3, <1>7, <1>10
  <2>2. predicted - completed \in Nat
          /\ Native!get_frame(completed).earliest \in Nat
    BY <1>3, <1>4, <1>6, <1>10
  <2>3. (predicted - completed) * Period \in Nat
    BY <1>5, <2>2
  <2>4. Native!get_frame(completed).earliest
          + (predicted - completed) * Period \in Nat
    BY <2>2, <2>3
  <2> QED BY <2>1, <2>4, WalkForward
<1>11. CASE predicted # Native!Invalid /\ completed = Native!Invalid
  <2>1. Native!DesiredPresent =
          Native!walk_forward(Native!get_frame(predicted).display)
    BY <1>7, <1>11
  <2> QED BY <1>3, <1>4, <1>11, <2>1, WalkForward
<1> QED BY <1>8, <1>9, <1>10, <1>11

-----------------------------------------------------------------------------
\* pc_mark_point moves a frame that is in its slot on.
LEMMA MarkTypes ==
  ASSUME Native!ConstantsAssumption, Native!TypeOK, NEW id \in Int, NEW from,
         NEW to \in Native!CLEARED .. Native!INFO,
         Native!Mark(id, from, to)
  PROVE  display_frames' \in [Native!Slots -> Native!Frames]
           /\ display_aborted' \in BOOLEAN
<1>1. CASE Native!get_frame(id).frame_id # id
  BY <1>1 DEF Native!Mark, Native!TypeOK
<1>2. CASE Native!get_frame(id).frame_id = id
  <2>1. /\ display_frames' =
             [display_frames EXCEPT ![id % NumFrames].state = to]
        /\ display_aborted' = (Native!get_frame(id).state # from)
    BY <1>2 DEF Native!Mark
  <2>2. id % NumFrames \in Native!Slots
    BY SlotOfId
  <2>3. display_frames' \in [Native!Slots -> Native!Frames]
    BY <2>1, <2>2 DEF Native!TypeOK, Native!Frames
  <2>4. display_aborted' \in BOOLEAN
    BY <2>1, Zenon
  <2> QED BY <2>3, <2>4
<1> QED BY <1>1, <1>2

\* pc_mark_point in the state it asserts: nothing fails, one slot is written.
LEMMA MarkMoves ==
  ASSUME Native!ConstantsAssumption, Native!TypeOK, NEW id \in Int, NEW from,
         NEW to \in Native!CLEARED .. Native!INFO,
         Native!get_frame(id).frame_id = id, Native!get_frame(id).state = from,
         Native!Mark(id, from, to)
  PROVE  /\ display_aborted' = FALSE
         /\ Native!get_frame(id)'.frame_id = id
              /\ Native!get_frame(id)'.state = to
         /\ \A other \in Int :
                 \/ Native!get_frame(other)' = Native!get_frame(other)
                 \/ /\ Native!get_frame(other)'.frame_id = id
                    /\ Native!get_frame(other)'.state = to
<1>1. /\ display_frames' = [display_frames EXCEPT ![id % NumFrames].state = to]
      /\ display_aborted' = (Native!get_frame(id).state # from)
  BY DEF Native!Mark
<1>2. \A other \in Int : other % NumFrames \in Native!Slots
  BY SlotOfId
<1>3. display_aborted' = FALSE
  BY <1>1, Zenon
<1>4. display_frames \in [Native!Slots -> Native!Frames]
  BY DEF Native!TypeOK
<1>5. /\ display_frames'[id % NumFrames].frame_id =
           display_frames[id % NumFrames].frame_id
      /\ display_frames'[id % NumFrames].state = to
      /\ \A s \in Native!Slots : s # id % NumFrames
           => display_frames'[s] = display_frames[s]
  BY <1>1, <1>2, <1>4 DEF Native!Frames
<1> QED BY <1>2, <1>3, <1>5 DEF Native!get_frame

-----------------------------------------------------------------------------
\* pc_info changes a frame that was presented, if it is remembered at all.
LEMMA UpdateTimingsHolds ==
  ASSUME Native!ConstantsAssumption, FrameInv, Native!UpdateTimings
  PROVE FrameInv'
<1>1. PICK id \in presented, late \in Late, margin \in {0, 2 * DisplayMargin} :
        /\ Native!info(id, Native!get_frame(id).desired + late, margin)
        /\ presented' = presented \ {id}
  BY DEF Native!UpdateTimings
<1>2. UNCHANGED <<next_frame_id, current_frame_id, waited, rendering, place,
                  display_now, submit_failed>>
  BY DEF Native!UpdateTimings, Native!frameVars
<1>3. id \in Native!Ids /\ id \in Int /\ id % NumFrames \in Native!Slots
  BY SlotOfId DEF FrameInv, Native!TypeOK, Native!Ids
<1>4. PlaceInv'
  BY <1>2 DEF FrameInv, PlaceInv, CurrentId
<1>5. \A other \in Int : other % NumFrames \in Native!Slots
  BY SlotOfId
<1>6. CASE ~Native!Remembered(id)
  <2>1. UNCHANGED <<display_frames, comp_time, display_aborted>>
    BY <1>1, <1>6 DEF Native!info
  <2>2. Native!TypeOK'
    BY <1>1, <1>2, <2>1 DEF FrameInv, Native!TypeOK
  <2>3. StageInv'
    BY <1>1, <1>2, <2>1
    DEF FrameInv, StageInv, Native!get_frame, Native!Remembered
  <2> QED BY <1>4, <2>2, <2>3 DEF FrameInv
<1>7. CASE Native!Remembered(id)
  <2> DEFINE actual == Native!get_frame(id).desired + late
  <2>1. /\ display_aborted' = (Native!get_frame(id).state # Native!SUBMITTED)
        /\ display_frames' =
             [display_frames EXCEPT ![id % NumFrames].state = Native!INFO,
                                    ![id % NumFrames].earliest = actual]
        /\ comp_time' = Native!AdjustedCompTime(Native!get_frame(id).desired,
             actual, margin)
    BY <1>1, <1>7 DEF Native!info
  <2>2. Native!get_frame(id).desired \in Nat /\ actual \in Nat
    <3>1. Native!TypeOK
      BY DEF FrameInv
    <3>2. Native!get_frame(id).desired \in Nat
      BY <1>3, <3>1, FrameTypes
    <3>3. late \in Nat
      BY DEF Native!ConstantsAssumption
    <3> QED BY <3>2, <3>3
  <2> HIDE DEF actual
  <2>3. display_frames \in [Native!Slots -> Native!Frames] /\ comp_time \in Int
    BY DEF FrameInv, Native!TypeOK
  <2>4. display_frames' \in [Native!Slots -> Native!Frames]
    BY <1>3, <2>1, <2>2, <2>3 DEF Native!Frames, Native!INFO, Native!CLEARED
  <2>5. /\ display_frames'[id % NumFrames].frame_id =
             display_frames[id % NumFrames].frame_id
        /\ \A s \in Native!Slots : s # id % NumFrames
             => display_frames'[s] = display_frames[s]
    BY <1>3, <2>1, <2>3 DEF Native!Frames
  <2>6. comp_time' \in Int
    <3>1. /\ AdjustMissed \in Int /\ AdjustNonMiss \in Int
               /\ CompTimeMax \in Int
      BY DEF Native!ConstantsAssumption
    <3>2. Native!Min({comp_time + AdjustMissed, CompTimeMax}) \in Int
      <4>1. comp_time + AdjustMissed \in Int
        BY <2>3, <3>1
      <4>2. Native!Min({comp_time + AdjustMissed, CompTimeMax})
              \in {comp_time + AdjustMissed, CompTimeMax}
        BY <3>1, <4>1, MaxOfTwo
      <4> QED BY <3>1, <4>1, <4>2
    <3>3. /\ comp_time - AdjustNonMiss \in Int
               /\ comp_time + AdjustNonMiss \in Int
      BY <2>3, <3>1
    <3> DEFINE missed == Native!Min({comp_time + AdjustMissed, CompTimeMax})
               above == margin > DisplayMargin
               c1 == /\ actual > Native!get_frame(id).desired
                     /\ ~Native!Within(actual, Native!get_frame(id).desired,
                          Slop)
               c2 == /\ \/ actual <= Native!get_frame(id).desired
                        \/ Native!Within(actual, Native!get_frame(id).desired,
                             Slop)
                     /\ Native!Within(margin, DisplayMargin, AdjustNonMiss)
    <3>4. comp_time' = CASE c1 -> missed [] c2 -> comp_time
                         [] OTHER -> IF above THEN comp_time - AdjustNonMiss
                                     ELSE comp_time + AdjustNonMiss
      BY <2>1 DEF Native!AdjustedCompTime
    <3>5. ~(c1 /\ c2)
      BY <2>2
    <3> HIDE DEF missed, above, c1, c2
    <3>6. missed \in Int
      BY <3>2 DEF missed
    <3> QED BY <2>3, <3>3, <3>4, <3>5, <3>6
  <2>7. display_aborted' \in BOOLEAN
    BY <2>1, Zenon
  <2>8. Native!TypeOK'
    BY <1>1, <1>2, <2>4, <2>6, <2>7 DEF FrameInv, Native!TypeOK
  <2>9. ASSUME ~submit_failed
        PROVE  /\ display_aborted' = FALSE
               /\ place \in DOMAIN StageOf =>
                    /\ Native!get_frame(next_frame_id)'.frame_id =
                         next_frame_id
                    /\ Native!get_frame(next_frame_id)'.state = StageOf[place]
                    /\ next_frame_id \notin presented'
               /\ \A o \in presented' : /\ o <= next_frame_id
                                        /\ Native!get_frame(o)'.frame_id = o =>
                                             Native!get_frame(o)'.state =
                                               Native!SUBMITTED
    <3>1. Native!get_frame(id).state = Native!SUBMITTED
      BY <1>7, <2>9 DEF FrameInv, StageInv
    <3>2. display_aborted' = FALSE
      BY <2>1, <3>1, Zenon
    <3>3. \A o \in Int : \/ Native!get_frame(o)' = Native!get_frame(o)
                         \/ Native!get_frame(o).frame_id = id
                              /\ Native!get_frame(o)'.frame_id = id
      BY <1>5, <1>7, <2>5 DEF Native!get_frame, Native!Remembered
    <3>4. ASSUME place \in DOMAIN StageOf
          PROVE  /\ Native!get_frame(next_frame_id)'.frame_id = next_frame_id
                 /\ Native!get_frame(next_frame_id)'.state = StageOf[place]
                 /\ next_frame_id \notin presented'
      <4>1. /\ Native!get_frame(next_frame_id).frame_id = next_frame_id
            /\ Native!get_frame(next_frame_id).state = StageOf[place]
            /\ next_frame_id \notin presented
        BY <2>9, <3>4 DEF FrameInv, StageInv
      <4>2. next_frame_id # id /\ next_frame_id \in Int
        BY <4>1 DEF FrameInv, Native!TypeOK
      <4>3. Native!get_frame(next_frame_id)' = Native!get_frame(next_frame_id)
        <5>1. next_frame_id \in Int /\ next_frame_id' = next_frame_id
          BY <1>2, <4>2
        <5>2. display_frames'[next_frame_id % NumFrames] =
                display_frames[next_frame_id % NumFrames]
          BY <1>5, <1>7, <2>5, <4>1, <4>2
          DEF Native!get_frame, Native!Remembered
        <5> QED BY <5>1, <5>2 DEF Native!get_frame
      <4> QED BY <1>1, <1>2, <4>1, <4>3
    <3>5. ASSUME NEW o \in presented'
          PROVE  /\ o <= next_frame_id
                 /\ Native!get_frame(o)'.frame_id = o
                      => Native!get_frame(o)'.state = Native!SUBMITTED
      <4>1. o \in presented /\ o # id /\ o \in Int
        BY <1>1, <3>5 DEF FrameInv, Native!TypeOK, Native!Ids
      <4> QED BY <2>9, <3>3, <4>1 DEF FrameInv, StageInv, Native!Remembered
    <3> QED BY <3>2, <3>4, <3>5
  <2>10. StageInv'
    BY <1>2, <2>9 DEF FrameInv, StageInv, Native!Remembered, Native!get_frame
  <2> QED BY <1>4, <2>8, <2>10 DEF FrameInv
<1> QED BY <1>6, <1>7

\* compositor_predict_frame takes the slot of the oldest frame for a new one.
LEMMA PredictFrameHolds ==
  ASSUME Native!ConstantsAssumption, FrameInv, Native!PredictFrame
  PROVE FrameInv'
<1> DEFINE id == next_frame_id + 1
           at == id % NumFrames
<1>1. /\ ~display_aborted /\ place = "predict" /\ next_frame_id < DisplayFrames
      /\ display_aborted' = (waited # Native!Invalid)
      /\ next_frame_id' = id /\ current_frame_id' = id /\ waited' = id
      /\ display_frames' =
           [display_frames EXCEPT
              ![at].frame_id = id, ![at].state = Native!PREDICTED,
              ![at].desired = Native!DesiredPresent,
              ![at].display = Native!DesiredPresent + PresentToDisplay]
      /\ place' = "sleep"
      /\ UNCHANGED <<comp_time, rendering, presented, display_now,
                     submit_failed>>
  BY DEF Native!PredictFrame, Native!At
<1>2. /\ next_frame_id \in 0 .. DisplayFrames /\ DisplayFrames \in Nat
      /\ display_frames \in [Native!Slots -> Native!Frames]
           /\ PresentToDisplay \in Nat
  BY DEF FrameInv, Native!TypeOK, Native!ConstantsAssumption
<1>3. id \in Native!Ids /\ id \in Int /\ id \in 0 .. DisplayFrames
        /\ id > next_frame_id /\ id # 0
  BY <1>1, <1>2 DEF Native!Ids
<1>4. at \in Native!Slots
        /\ \A other \in Int : other % NumFrames \in Native!Slots
  BY <1>3, SlotOfId
<1>5. Native!DesiredPresent \in Nat
  BY DesiredIsATime DEF FrameInv
<1>6. Native!DesiredPresent + PresentToDisplay \in Nat
  BY <1>2, <1>5
<1> HIDE DEF at
<1>7. /\ display_frames' \in [Native!Slots -> Native!Frames]
      /\ display_frames'[at].frame_id = id
           /\ display_frames'[at].state = Native!PREDICTED
      /\ \A s \in Native!Slots : s # at
           => display_frames'[s] = display_frames[s]
  <2> DEFINE f == [display_frames[at] EXCEPT
                      !.frame_id = id, !.state = Native!PREDICTED,
                      !.desired = Native!DesiredPresent,
                      !.display = Native!DesiredPresent + PresentToDisplay]
  <2>1. display_frames' = [display_frames EXCEPT ![at] = f]
    BY <1>1, <1>2, <1>4
  <2>2. display_frames[at] \in Native!Frames
          /\ Native!PREDICTED \in Native!CLEARED .. Native!INFO
    BY <1>2, <1>4 DEF Native!PREDICTED, Native!CLEARED, Native!INFO
  <2>3. f \in Native!Frames /\ f.frame_id = id /\ f.state = Native!PREDICTED
    BY <1>3, <1>5, <1>6, <2>2 DEF Native!Frames
  <2> HIDE DEF f
  <2> QED BY <1>2, <1>4, <2>1, <2>3
<1>8. display_aborted' \in BOOLEAN
  BY <1>1, Zenon
<1>9. Native!TypeOK'
  BY <1>1, <1>3, <1>7, <1>8 DEF FrameInv, Native!TypeOK
<1>10. PlaceInv'
  BY <1>1, <1>2, <1>3 DEF PlaceInv, CurrentId
<1>11. ASSUME ~submit_failed
       PROVE  /\ display_aborted' = FALSE /\ rendering = Native!Invalid
                   /\ id \notin presented
              /\ Native!get_frame(next_frame_id)'.frame_id = id
              /\ Native!get_frame(next_frame_id)'.state = Native!PREDICTED
              /\ \A o \in presented' : /\ o <= id
                                       /\ Native!get_frame(o)'.frame_id = o =>
                                            Native!get_frame(o)'.state =
                                              Native!SUBMITTED
  <2>1. /\ waited = Native!Invalid /\ rendering = Native!Invalid
        /\ \A o \in presented : o <= next_frame_id
             /\ (Native!get_frame(o).frame_id = o
                  => Native!get_frame(o).state = Native!SUBMITTED)
    BY <1>1, <1>11 DEF FrameInv, StageInv, Native!Remembered
  <2>2. display_aborted' = FALSE
    BY <1>1, <2>1, Zenon
  <2>3. id \notin presented
    BY <1>2, <1>3, <2>1
  <2>4. Native!get_frame(next_frame_id)' = display_frames'[at]
    BY <1>1 DEF Native!get_frame, at
  <2>5. ASSUME NEW o \in presented
        PROVE  /\ o <= id
               /\ Native!get_frame(o)'.frame_id = o
                    => Native!get_frame(o)'.state = Native!SUBMITTED
    <3>1. o \in Native!Ids /\ o \in Int /\ o <= next_frame_id /\ o # id
      BY <1>2, <1>3, <2>1 DEF FrameInv, Native!TypeOK, Native!Ids
    <3>2. CASE o % NumFrames = at
      <4>1. Native!get_frame(o)'.frame_id = id
        BY <1>7, <3>2 DEF Native!get_frame
      <4> QED BY <1>2, <1>3, <3>1, <4>1
    <3>3. CASE o % NumFrames # at
      <4>1. Native!get_frame(o)' = Native!get_frame(o)
        BY <1>4, <1>7, <3>1, <3>3 DEF Native!get_frame
      <4> QED BY <1>2, <1>3, <2>1, <3>1, <4>1
    <3> QED BY <3>2, <3>3
  <2> QED BY <1>1, <1>7, <2>1, <2>2, <2>3, <2>4, <2>5
<1>12. StageInv'
  <2> SUFFICES ASSUME ~submit_failed PROVE StageInv'
    BY <1>1 DEF StageInv
  <2>1. "sleep" \in DOMAIN StageOf /\ StageOf["sleep"] = Native!PREDICTED
    BY DEF StageOf
  <2> QED BY <1>1, <1>11, <2>1
          DEF StageInv, Native!Remembered, Native!get_frame
<1> QED BY <1>9, <1>10, <1>12 DEF FrameInv

\* A step that moves the frame that is being made from one state to the next.
LEMMA FrameMovesOn ==
  ASSUME Native!ConstantsAssumption, FrameInv, ~submit_failed, ~submit_failed',
         place \in DOMAIN StageOf,
         NEW to \in Native!CLEARED .. Native!INFO,
         Native!Mark(next_frame_id, StageOf[place], to),
         UNCHANGED <<next_frame_id, presented>>
  PROVE  /\ display_aborted' = FALSE
         /\ Native!get_frame(next_frame_id)'.frame_id = next_frame_id
         /\ Native!get_frame(next_frame_id)'.state = to
         /\ next_frame_id \notin presented
         /\ \A o \in presented : /\ o <= next_frame_id
                                 /\ Native!get_frame(o)'.frame_id = o =>
                                      Native!get_frame(o)'.state =
                                        Native!SUBMITTED
<1>1. /\ Native!get_frame(next_frame_id).frame_id = next_frame_id
      /\ Native!get_frame(next_frame_id).state = StageOf[place]
      /\ next_frame_id \notin presented
      /\ \A o \in presented : o <= next_frame_id
           /\ (Native!get_frame(o).frame_id = o
                => Native!get_frame(o).state = Native!SUBMITTED)
  BY DEF FrameInv, StageInv, Native!Remembered
<1>2. next_frame_id \in Int /\ Native!TypeOK /\ presented \subseteq Native!Ids
        /\ Native!Ids \subseteq Int
  BY DEF FrameInv, Native!TypeOK, Native!Ids
<1> DEFINE id == next_frame_id
<1>3. /\ display_aborted' = FALSE
      /\ display_frames'[id % NumFrames].frame_id = id
           /\ display_frames'[id % NumFrames].state = to
      /\ \A other \in Int :
              \/ Native!get_frame(other)' = Native!get_frame(other)
              \/ Native!get_frame(other)'.frame_id = id
  <2>1. ASSUME NEW n \in Int, n = next_frame_id
        PROVE  /\ display_aborted' = FALSE
               /\ display_frames'[n % NumFrames].frame_id = n
                    /\ display_frames'[n % NumFrames].state = to
               /\ \A other \in Int :
                       \/ Native!get_frame(other)' = Native!get_frame(other)
                       \/ Native!get_frame(other)'.frame_id = n
    <3>1. /\ Native!get_frame(n).frame_id = n
               /\ Native!get_frame(n).state = StageOf[place]
          /\ Native!Mark(n, StageOf[place], to)
      BY <1>1, <2>1
    <3>2. /\ display_aborted' = FALSE /\ Native!get_frame(n)'.frame_id = n
               /\ Native!get_frame(n)'.state = to
          /\ \A other \in Int :
                  \/ Native!get_frame(other)' = Native!get_frame(other)
                  \/ Native!get_frame(other)'.frame_id = n
      BY <1>2, <3>1, MarkMoves
    <3> QED BY <3>2 DEF Native!get_frame
  <2> QED BY <1>2, <2>1
<1> HIDE DEF id
<1>4. /\ Native!get_frame(next_frame_id)'.frame_id = next_frame_id
      /\ Native!get_frame(next_frame_id)'.state = to
  BY <1>3 DEF Native!get_frame, id
<1>5. ASSUME NEW o \in presented
      PROVE  /\ o <= next_frame_id
             /\ Native!get_frame(o)'.frame_id = o
                  => Native!get_frame(o)'.state = Native!SUBMITTED
  BY <1>1, <1>2, <1>3 DEF id
<1> QED BY <1>1, <1>3, <1>4, <1>5

\* The render loop wakes up for the frame it waited for.
LEMMA WokeUpHolds ==
  ASSUME Native!ConstantsAssumption, FrameInv, Native!WokeUp PROVE FrameInv'
<1>1. /\ ~display_aborted /\ place = "sleep"
           /\ Native!Mark(waited, Native!PREDICTED, Native!WOKE)
                /\ place' = "draw"
      /\ UNCHANGED <<next_frame_id, comp_time, current_frame_id, waited,
                     rendering, presented, submit_failed>>
  BY DEF Native!WokeUp, Native!At, Native!frameVars
<1>2. display_now' \in Nat
  <2>1. PICK late \in Late :
          display_now' = Native!Max({display_now,
            Native!get_frame(waited).desired - Native!calc_total_comp_time})
              + late
    BY DEF Native!WokeUp
  <2>2. waited \in Int /\ display_now \in Nat /\ comp_time \in Int
          /\ DisplayMargin \in Nat /\ late \in Nat
    BY DEF FrameInv, Native!TypeOK, Native!ConstantsAssumption, Native!Ids,
       Native!Invalid
  <2>3. Native!get_frame(waited).desired \in Nat
    BY <2>2, FrameTypes DEF FrameInv
  <2> DEFINE wake == Native!get_frame(waited).desired
                       - Native!calc_total_comp_time
  <2>4. wake \in Int /\ display_now \in Int
    BY <2>2, <2>3 DEF Native!calc_total_comp_time
  <2> HIDE DEF wake
  <2>5. Native!Max({display_now, wake}) \in {display_now, wake}
          /\ Native!Max({display_now, wake}) >= display_now
    BY <2>4, MaxOfTwo
  <2>6. Native!Max({display_now, wake}) \in Nat
    BY <2>2, <2>4, <2>5
  <2>7. Native!Max({display_now, wake}) + late \in Nat
    BY <2>2, <2>6
  <2> QED BY <2>1, <2>7 DEF wake
<1>3. Native!WOKE \in Native!CLEARED .. Native!INFO /\ waited \in Int
  BY DEF Native!WOKE, Native!CLEARED, Native!INFO, FrameInv, Native!TypeOK,
     Native!Ids, Native!Invalid
<1>4. display_frames' \in [Native!Slots -> Native!Frames]
        /\ display_aborted' \in BOOLEAN
  BY <1>1, <1>3, MarkTypes DEF FrameInv
<1>5. Native!TypeOK'
  BY <1>1, <1>2, <1>4 DEF FrameInv, Native!TypeOK
<1>6. PlaceInv'
  BY <1>1 DEF FrameInv, PlaceInv, CurrentId
<1>7. /\ "sleep" \in DOMAIN StageOf /\ StageOf["sleep"] = Native!PREDICTED
      /\ "draw" \in DOMAIN StageOf /\ StageOf["draw"] = Native!WOKE
  BY DEF StageOf
<1>8. StageInv'
  <2> SUFFICES ASSUME ~submit_failed PROVE StageInv'
    BY <1>1 DEF StageInv
  <2>1. waited = next_frame_id /\ rendering = Native!Invalid
    BY <1>1 DEF FrameInv, StageInv
  <2>2. /\ display_aborted' = FALSE
        /\ Native!get_frame(next_frame_id)'.frame_id = next_frame_id
        /\ Native!get_frame(next_frame_id)'.state = Native!WOKE
        /\ next_frame_id \notin presented
        /\ \A o \in presented : /\ o <= next_frame_id
                                /\ Native!get_frame(o)'.frame_id = o =>
                                     Native!get_frame(o)'.state =
                                       Native!SUBMITTED
    BY <1>1, <1>3, <1>7, <2>1, FrameMovesOn
  <2> QED BY <1>1, <1>7, <2>1, <2>2
          DEF StageInv, Native!Remembered, Native!get_frame
<1> QED BY <1>5, <1>6, <1>8 DEF FrameInv

\* The frame is submitted.
LEMMA SubmitHolds ==
  ASSUME Native!ConstantsAssumption, FrameInv, Native!Submit PROVE FrameInv'
<1>1. /\ ~display_aborted /\ place = "render"
           /\ Native!Mark(rendering, Native!BEGAN, Native!SUBMITTED)
      /\ place' = "present"
      /\ UNCHANGED <<next_frame_id, comp_time, current_frame_id, waited,
                     rendering, presented, display_now, submit_failed>>
  BY DEF Native!Submit, Native!At
<1>3. Native!SUBMITTED \in Native!CLEARED .. Native!INFO /\ rendering \in Int
  BY DEF Native!SUBMITTED, Native!CLEARED, Native!INFO, FrameInv,
     Native!TypeOK, Native!Ids, Native!Invalid
<1>4. display_frames' \in [Native!Slots -> Native!Frames]
        /\ display_aborted' \in BOOLEAN
  BY <1>1, <1>3, MarkTypes DEF FrameInv
<1>5. Native!TypeOK'
  BY <1>1, <1>4 DEF FrameInv, Native!TypeOK
<1>6. PlaceInv'
  BY <1>1 DEF FrameInv, PlaceInv, CurrentId
<1>7. /\ "render" \in DOMAIN StageOf /\ StageOf["render"] = Native!BEGAN
      /\ "present" \in DOMAIN StageOf /\ StageOf["present"] = Native!SUBMITTED
  BY DEF StageOf
<1>8. StageInv'
  <2> SUFFICES ASSUME ~submit_failed PROVE StageInv'
    BY <1>1 DEF StageInv
  <2>1. rendering = next_frame_id /\ waited = Native!Invalid
    BY <1>1 DEF FrameInv, StageInv
  <2>2. /\ display_aborted' = FALSE
        /\ Native!get_frame(next_frame_id)'.frame_id = next_frame_id
        /\ Native!get_frame(next_frame_id)'.state = Native!SUBMITTED
        /\ next_frame_id \notin presented
        /\ \A o \in presented : /\ o <= next_frame_id
                                /\ Native!get_frame(o)'.frame_id = o =>
                                     Native!get_frame(o)'.state =
                                       Native!SUBMITTED
    BY <1>1, <1>3, <1>7, <2>1, FrameMovesOn
  <2> QED BY <1>1, <1>7, <2>1, <2>2
          DEF StageInv, Native!Remembered, Native!get_frame
<1> QED BY <1>5, <1>6, <1>8 DEF FrameInv

\* The submission fails: from here on the invariant promises less.
LEMMA SubmitFailsHolds ==
  ASSUME Native!ConstantsAssumption, FrameInv, Native!SubmitFails
  PROVE FrameInv'
<1>1. /\ \/ Native!Mark(rendering, Native!BEGAN, Native!SUBMITTED)
         \/ UNCHANGED <<display_frames, display_aborted>>
      /\ submit_failed' = TRUE /\ place' = "predict"
      /\ UNCHANGED <<next_frame_id, comp_time, current_frame_id, waited,
                     rendering, presented, display_now>>
  BY DEF Native!SubmitFails
<1>3. Native!SUBMITTED \in Native!CLEARED .. Native!INFO /\ rendering \in Int
  BY DEF Native!SUBMITTED, Native!CLEARED, Native!INFO, FrameInv,
     Native!TypeOK, Native!Ids, Native!Invalid
<1>4. display_frames' \in [Native!Slots -> Native!Frames]
        /\ display_aborted' \in BOOLEAN
  <2>1. CASE Native!Mark(rendering, Native!BEGAN, Native!SUBMITTED)
    BY <1>3, <2>1, MarkTypes DEF FrameInv
  <2>2. CASE UNCHANGED <<display_frames, display_aborted>>
    BY <2>2 DEF FrameInv, Native!TypeOK
  <2> QED BY <1>1, <2>1, <2>2
<1>5. Native!TypeOK'
  BY <1>1, <1>4 DEF FrameInv, Native!TypeOK
<1>6. PlaceInv'
  BY <1>1 DEF FrameInv, PlaceInv, CurrentId
<1>7. StageInv'
  BY <1>1 DEF StageInv
<1> QED BY <1>5, <1>6, <1>7 DEF FrameInv

\* The frame that was waited for is rendered next, when the target is ready.
LEMMA BeginDrawHolds ==
  ASSUME Native!ConstantsAssumption, FrameInv, Native!BeginDraw PROVE FrameInv'
<1> DEFINE ok == /\ waited # Native!Invalid /\ rendering = Native!Invalid
                 /\ Native!get_frame(waited).state = Native!WOKE
           began == /\ rendering' = waited /\ place' = "render"
                    /\ display_frames' =
                         [display_frames EXCEPT ![waited % NumFrames].state =
                           Native!BEGAN]
           mark == /\ rendering' = Native!Invalid /\ place' = "predict"
                   /\ display_frames' =
                        [display_frames EXCEPT ![waited % NumFrames].state =
                          Native!SUBMITTED]
<1>1. /\ ~display_aborted /\ place = "draw"
      /\ display_aborted' = ~ok /\ waited' = Native!Invalid
      /\ began \/ mark
      /\ UNCHANGED <<next_frame_id, comp_time, current_frame_id, presented,
                     display_now, submit_failed>>
  BY DEF Native!BeginDraw, Native!At
<1>2. /\ waited \in Native!Ids \union {Native!Invalid} /\ waited \in Int
      /\ display_frames \in [Native!Slots -> Native!Frames]
  BY DEF FrameInv, Native!TypeOK, Native!Ids, Native!Invalid
<1>3. waited % NumFrames \in Native!Slots
        /\ \A o \in Int : o % NumFrames \in Native!Slots
  BY <1>2, SlotOfId
<1>4. PICK to \in {Native!BEGAN, Native!SUBMITTED} :
        /\ display_frames' =
             [display_frames EXCEPT ![waited % NumFrames].state = to]
        /\ IF to = Native!BEGAN THEN rendering' = waited /\ place' = "render"
                                ELSE rendering' = Native!Invalid
                                  /\ place' = "predict"
  BY <1>1 DEF Native!BEGAN, Native!SUBMITTED
<1>5. /\ display_frames' \in [Native!Slots -> Native!Frames]
      /\ display_frames'[waited % NumFrames].frame_id =
           display_frames[waited % NumFrames].frame_id
      /\ display_frames'[waited % NumFrames].state = to
      /\ \A s \in Native!Slots : s # waited % NumFrames
           => display_frames'[s] = display_frames[s]
  <2>1. to \in Native!CLEARED .. Native!INFO
    BY <1>4 DEF Native!BEGAN, Native!SUBMITTED, Native!CLEARED, Native!INFO
  <2>2. \A s \in Native!Slots : display_frames[s] \in Native!Frames
    BY <1>2
  <2>3. [display_frames[waited % NumFrames] EXCEPT !.state = to]
          \in Native!Frames
    BY <1>3, <2>1, <2>2 DEF Native!Frames
  <2>4. display_frames' = [display_frames EXCEPT ![waited % NumFrames] =
                     [display_frames[waited % NumFrames] EXCEPT !.state = to]]
    BY <1>2, <1>3, <1>4
  <2>5. display_frames' \in [Native!Slots -> Native!Frames]
    BY <1>2, <1>3, <2>3, <2>4
  <2> QED BY <1>2, <1>3, <1>4, <2>2, <2>5 DEF Native!Frames
<1>6. display_aborted' \in BOOLEAN
  BY <1>1, Zenon
<1>7. Native!TypeOK'
  BY <1>1, <1>2, <1>4, <1>5, <1>6 DEF FrameInv, Native!TypeOK
<1>8. PlaceInv'
  BY <1>1, <1>4 DEF FrameInv, PlaceInv, CurrentId
<1>9. StageInv'
  <2> SUFFICES ASSUME ~submit_failed PROVE StageInv'
    BY <1>1 DEF StageInv
  <2>1. /\ "draw" \in DOMAIN StageOf /\ StageOf["draw"] = Native!WOKE
        /\ "render" \in DOMAIN StageOf /\ StageOf["render"] = Native!BEGAN
        /\ "predict" \notin DOMAIN StageOf
    BY DEF StageOf
  <2>2. /\ waited = next_frame_id /\ rendering = Native!Invalid
        /\ Native!get_frame(waited).frame_id = waited
             /\ Native!get_frame(waited).state = Native!WOKE
        /\ waited \notin presented
        /\ \A o \in presented : o <= waited
             /\ (Native!get_frame(o).frame_id = o
                  => Native!get_frame(o).state = Native!SUBMITTED)
    BY <1>1, <2>1 DEF FrameInv, StageInv, Native!Remembered
  <2>3. ok
    <3>1. next_frame_id # Native!Invalid
      BY DEF FrameInv, Native!TypeOK, Native!Invalid
    <3> QED BY <2>2, <3>1
  <2>4. display_aborted' = FALSE
    BY <1>1, <2>3, Zenon
  <2> HIDE DEF ok, began, mark
  <2>5. ASSUME NEW o \in presented
        PROVE  /\ o <= next_frame_id
               /\ Native!get_frame(o)'.frame_id = o
                    => Native!get_frame(o)'.state = Native!SUBMITTED
    <3>1. o \in Int /\ o # waited
      BY <2>2 DEF FrameInv, Native!TypeOK, Native!Ids
    <3>2. CASE o % NumFrames = waited % NumFrames
      <4>1. Native!get_frame(o)'.frame_id = waited
        BY <1>5, <2>2, <3>2 DEF Native!get_frame
      <4> QED BY <2>2, <3>1, <4>1
    <3>3. CASE o % NumFrames # waited % NumFrames
      <4>1. Native!get_frame(o)' = Native!get_frame(o)
        BY <1>3, <1>5, <3>1, <3>3 DEF Native!get_frame
      <4> QED BY <2>2, <4>1
    <3> QED BY <3>2, <3>3
  <2>6. /\ display_frames'[waited % NumFrames].frame_id = waited
        /\ display_frames'[waited % NumFrames].state = to
    BY <1>5, <2>2 DEF Native!get_frame
  <2>7. CASE to = Native!BEGAN
    <3>1. rendering' = next_frame_id /\ place' = "render"
            /\ waited' = Native!Invalid
      BY <1>1, <1>4, <2>2, <2>7
    <3>2. Native!get_frame(next_frame_id)'.frame_id = next_frame_id'
          /\ Native!get_frame(next_frame_id)'.state = Native!BEGAN
      BY <1>1, <2>2, <2>6, <2>7 DEF Native!get_frame
    <3> QED BY <1>1, <2>1, <2>2, <2>4, <2>5, <3>1, <3>2
            DEF StageInv, Native!Remembered, Native!get_frame
  <2>8. CASE to # Native!BEGAN
    <3>1. rendering' = Native!Invalid /\ place' = "predict"
            /\ waited' = Native!Invalid
      BY <1>1, <1>4, <2>8
    <3> QED BY <1>1, <2>1, <2>4, <2>5, <3>1
            DEF StageInv, Native!Remembered, Native!get_frame
  <2> QED BY <2>7, <2>8
<1> QED BY <1>7, <1>8, <1>9 DEF FrameInv

\* The submitted frame is presented, and its timing may come later.
LEMMA PresentHolds ==
  ASSUME Native!ConstantsAssumption, FrameInv, Native!Present PROVE FrameInv'
<1>1. /\ ~display_aborted /\ place = "present" /\ place' = "presented"
           /\ rendering' = Native!Invalid
      /\ \/ presented' = presented \union {current_frame_id}
         \/ UNCHANGED presented
      /\ display_now' = Native!Max({display_now,
           Native!get_frame(rendering).desired})
      /\ UNCHANGED <<display_frames, next_frame_id, comp_time,
                     current_frame_id, waited, display_aborted, submit_failed>>
  BY DEF Native!Present, Native!At, Native!pacerVars
<1>2. next_frame_id > 0 /\ current_frame_id = next_frame_id
  BY <1>1 DEF FrameInv, PlaceInv, CurrentId
<1>3. current_frame_id \in Native!Ids
  BY <1>2 DEF FrameInv, Native!TypeOK, Native!Ids, Native!Invalid
<1>4. display_now' \in Nat
  <2>1. rendering \in Int /\ display_now \in Nat
    BY DEF FrameInv, Native!TypeOK, Native!Ids, Native!Invalid
  <2>2. Native!get_frame(rendering).desired \in Nat
    BY <2>1, FrameTypes DEF FrameInv
  <2> DEFINE desired == Native!get_frame(rendering).desired
  <2> HIDE DEF desired
  <2>3. display_now' = Native!Max({display_now, desired}) /\ desired \in Nat
    BY <1>1, <2>2 DEF desired
  <2>4. Native!Max({display_now, desired}) \in {display_now, desired}
    BY <2>1, <2>3, MaxOfTwo
  <2> QED BY <2>1, <2>3, <2>4
<1>5. Native!TypeOK'
  BY <1>1, <1>3, <1>4 DEF FrameInv, Native!TypeOK
<1>6. PlaceInv'
  BY <1>1, <1>2 DEF FrameInv, PlaceInv, CurrentId
<1>7. StageInv'
  <2> SUFFICES ASSUME ~submit_failed PROVE StageInv'
    BY <1>1 DEF StageInv
  <2>1. /\ "present" \in DOMAIN StageOf
             /\ StageOf["present"] = Native!SUBMITTED
        /\ "presented" \notin DOMAIN StageOf
    BY DEF StageOf
  <2>2. /\ display_aborted = FALSE /\ waited = Native!Invalid
        /\ Native!get_frame(next_frame_id).state = Native!SUBMITTED
        /\ \A o \in presented : o <= next_frame_id
             /\ (Native!get_frame(o).frame_id = o
                  => Native!get_frame(o).state = Native!SUBMITTED)
    BY <1>1, <2>1 DEF FrameInv, StageInv, Native!Remembered
  <2>3. \A o \in presented' : /\ o <= next_frame_id
                              /\ Native!get_frame(o).frame_id = o =>
                                   Native!get_frame(o).state = Native!SUBMITTED
    <3>1. next_frame_id <= next_frame_id
      BY DEF FrameInv, Native!TypeOK
    <3> QED BY <1>1, <1>2, <2>2, <3>1
  <2> QED BY <1>1, <2>1, <2>2, <2>3
          DEF StageInv, Native!Remembered, Native!get_frame
<1> QED BY <1>5, <1>6, <1>7 DEF FrameInv

\* The end of comp_renderer_draw, and a step of another unit.
LEMMA EndDrawHolds ==
  ASSUME FrameInv, Native!EndDraw \/ UNCHANGED Native!vars PROVE FrameInv'
<1>1. /\ UNCHANGED <<display_frames, next_frame_id, comp_time,
                     current_frame_id, waited, rendering, presented,
                     display_now, display_aborted, submit_failed>>
      /\ \/ place = "presented" /\ place' = "predict"
         \/ place' = place
  BY DEF Native!EndDraw, Native!At, Native!vars, Native!pacerVars,
     Native!frameVars
<1>2. Native!TypeOK'
  BY <1>1 DEF FrameInv, Native!TypeOK
<1>3. PlaceInv'
  BY <1>1 DEF FrameInv, PlaceInv, CurrentId
<1>4. "predict" \notin DOMAIN StageOf
  BY DEF StageOf
<1>5. StageInv'
  BY <1>1, <1>4 DEF FrameInv, StageInv, Native!Remembered, Native!get_frame
<1> QED BY <1>2, <1>3, <1>5 DEF FrameInv

\* A pacer that was just created.
LEMMA NativeInitHolds ==
  ASSUME Native!ConstantsAssumption, Native!Init PROVE FrameInv
<1>1. /\ display_frames =
           [s \in Native!Slots |->
              [frame_id |-> 0, state |-> Native!CLEARED, desired |-> 0,
               display |-> 0, earliest |-> 0]]
      /\ next_frame_id = 0 /\ comp_time = CompTime
      /\ current_frame_id = Native!Invalid /\ waited = Native!Invalid
           /\ rendering = Native!Invalid
      /\ place = "predict" /\ presented = {} /\ display_now = 1
      /\ submit_failed = FALSE /\ display_aborted = FALSE
  BY DEF Native!Init
<1>2. Native!TypeOK
  <2>1. [frame_id |-> 0, state |-> Native!CLEARED, desired |-> 0,
         display |-> 0,
         earliest |-> 0] \in Native!Frames
    BY DEF Native!Frames, Native!CLEARED, Native!INFO
  <2>2. display_frames \in [Native!Slots -> Native!Frames]
    BY <1>1, <2>1
  <2>3. 0 \in 0 .. DisplayFrames /\ CompTime \in Int
    BY DEF Native!ConstantsAssumption
  <2> QED BY <1>1, <2>2, <2>3 DEF Native!TypeOK
<1>3. PlaceInv
  BY <1>1 DEF PlaceInv, CurrentId
<1>4. "predict" \notin DOMAIN StageOf
  BY DEF StageOf
<1>5. StageInv
  BY <1>1, <1>4 DEF StageInv
<1> QED BY <1>2, <1>3, <1>5 DEF FrameInv

(* comp_compositor.c and u_pacing_compositor.c: the frame being made is the  *)
(* newest one, in the state its place in the render loop says, its slot of   *)
(* the pacer is its own, and every presented frame the pacer still remembers *)
(* waits in SUBMITTED for its timing, unless a submission has failed; for    *)
(* any number of slots and frames, any period and any delays.                *)
THEOREM FrameInvariant ==
  ASSUME Native!ConstantsAssumption PROVE Native!Spec => []FrameInv
<1>1. Native!Init => FrameInv
  BY NativeInitHolds
<1>2. FrameInv /\ [Native!Next]_(Native!vars) => FrameInv'
  <2> SUFFICES ASSUME FrameInv, [Native!Next]_(Native!vars) PROVE FrameInv'
    OBVIOUS
  <2>1. \/ Native!UpdateTimings \/ Native!PredictFrame \/ Native!WokeUp
             \/ Native!BeginDraw
        \/ Native!Submit \/ Native!SubmitFails \/ Native!Present
             \/ Native!EndDraw \/ UNCHANGED Native!vars
    BY DEF Native!Next, Native!Finished
  <2> QED BY <2>1, UpdateTimingsHolds, PredictFrameHolds, WokeUpHolds,
             BeginDrawHolds,
             SubmitHolds, SubmitFailsHolds, PresentHolds, EndDrawHolds
<1> QED BY <1>1, <1>2, PTL DEF Native!Spec

(* So no assertion of the pacer or the compositor fails as long as every     *)
(* submission succeeds, and all times it computes are times.                 *)
THEOREM FramesPass ==
  ASSUME Native!ConstantsAssumption
  PROVE Native!Spec => [](Native!TypeOK /\ Native!FramePassesInOrder)
<1>1. FrameInv => Native!TypeOK /\ Native!FramePassesInOrder
  BY DEF FrameInv, StageInv, Native!FramePassesInOrder
<1> QED BY <1>1, FrameInvariant, PTL

-----------------------------------------------------------------------------
(* The units side by side. *)

(* While another unit is at work a unit stays as it is: what holds of a unit *)
(* by itself holds when it is one of the six.                                *)
LEMMA EachAtWork ==
  UnitsSpec => Images!Spec /\ Native!Spec
<1>1. UnitsInit => Images!Init /\ Native!Init
  BY DEF UnitsInit
<1>2. [UnitsNext]_auxiliaryVars => [Images!Next]_(Images!vars)
  <2> SUFFICES ASSUME [UnitsNext]_auxiliaryVars
               PROVE  Images!Next \/ UNCHANGED swapchainVars
    BY DEF swapchainVars, Images!vars, Images!appVars, Images!slotVars
  <2> QED BY DEF UnitsNext, auxiliaryVars
<1>3. [UnitsNext]_auxiliaryVars => [Native!Next]_(Native!vars)
  <2> SUFFICES ASSUME [UnitsNext]_auxiliaryVars
               PROVE  Native!Next \/ UNCHANGED nativeVars
    BY DEF nativeVars, Native!vars, Native!pacerVars, Native!frameVars
  <2> QED BY DEF UnitsNext, auxiliaryVars
<1> QED BY <1>1, <1>2, <1>3, PTL DEF UnitsSpec, Images!Spec, Native!Spec

(* Every image of a swapchain is in one place, and nothing in use is freed.  *)
THEOREM NoImageIsLost == UnitsSpec => []ImagesAreAccountedFor
BY EachAtWork, ImagesAccounted, UnitsAssumption, PTL
DEF ImagesAreAccountedFor

(* No assertion on the way of a frame fails unless a submission did.         *)
THEOREM NoAssertionFails == UnitsSpec => []FramePassesInOrder
BY EachAtWork, FramesPass, UnitsAssumption, PTL DEF FramePassesInOrder
=============================================================================
