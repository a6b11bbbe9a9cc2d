------------------------------- MODULE Swapchain -------------------------------
(***************************************************************************)
(* The images of one swapchain: the calls of the application               *)
(* (oxr_swapchain.c), the FIFO of the native compositor's swapchain        *)
(* (comp_swapchain.c), and the references that the slots of the            *)
(* application's compositor keep from xrEndFrame until the render loop has *)
(* drawn something newer (comp_multi_compositor.c), after which the        *)
(* swapchain is collected by the render loop.  When a frame moves on from  *)
(* slot to slot is MultiCompositor's: here it may do so at any time.       *)
(***************************************************************************)
EXTENDS Integers, Sequences, SequencesExt, FiniteSets

CONSTANT ImageCount  \* images of a swapchain that is not static

ConstantsAssumption == ImageCount \in Nat \ {0}

VARIABLES
  is_static,
  fifo,      \* comp_swapchain::fifo
  acquired,  \* oxr_swapchain::acquired, its fifo
  num,       \* its num
  inflight,  \* index of the image that was waited for
  released,  \* index of the last image that was released
  state,     \* of each image
  handle,    \* the application has the swapchain
  slot,      \* image of the frame in each slot of the client
  drawing,   \* image the render loop draws
  garbage,   \* the swapchain is on destroy_swapchains
  freed,
  failed     \* "call returned non-ready image", or no image available

appVars == <<acquired, num, inflight, released, state, handle>>
slotVars == <<slot, garbage>>
vars == <<is_static, fifo, appVars, slotVars, drawing, freed, failed>>

None == -1
Images == 0 .. (IF is_static THEN 0 ELSE ImageCount - 1)
SlotNames == {"progress", "scheduled", "delivered"}

TypeOK ==
  /\ is_static \in BOOLEAN
  /\ fifo \in Seq(Images) /\ acquired \in Seq(Images)
  /\ num \in 0 .. Cardinality(Images)
  /\ inflight \in Images \union {None}
  /\ released \in Images \union {None}
  /\ state \in [Images -> {"READY", "ACQUIRED", "WAITED"}]
  /\ handle \in BOOLEAN
  /\ slot \in [SlotNames -> Images \union {None}]
  /\ drawing \in Images \union {None}
  /\ {garbage, freed, failed} \subseteq BOOLEAN

\* comp_swapchain_create and oxr_swapchain_common_create.
Init ==
  /\ is_static \in BOOLEAN
  /\ fifo = [i \in 1 .. Cardinality(Images) |-> i - 1]
  /\ acquired = <<>> /\ num = 0
  /\ inflight = None /\ released = None
  /\ state = [i \in Images |-> "READY"]
  /\ handle = TRUE
  /\ slot = [s \in SlotNames |-> None]
  /\ drawing = None
  /\ garbage = FALSE /\ freed = FALSE /\ failed = FALSE

-----------------------------------------------------------------------------
(* The application. *)

\* Mutant of Acquire: the image in front stays what xrEndFrame submits.
AcquireKeepingReleased ==
  /\ handle
  /\ num < Cardinality(Images)
  /\ is_static => released = None /\ state[0] = "READY"
  /\ fifo # <<>>
  /\ fifo' = Tail(fifo)
  /\ num' = num + 1
  /\ acquired' = Append(acquired, Head(fifo))
  /\ state' = [state EXCEPT ![Head(fifo)] = "ACQUIRED"]
  /\ UNCHANGED <<released, is_static, inflight, handle, slotVars, drawing, freed,
                 failed>>

\* oxr_swapchain_common_acquire, with swapchain_acquire_image.  The images of
\* Vulkan are waited for here already, which takes no time: see Wait.
Acquire ==
  /\ handle
  /\ num < Cardinality(Images)
  /\ is_static => released = None /\ state[0] = "READY"
  /\ IF fifo # <<>> /\ state[Head(fifo)] = "READY"
     THEN /\ fifo' = Tail(fifo)
          /\ num' = num + 1
          /\ acquired' = Append(acquired, Head(fifo))
          /\ state' = [state EXCEPT ![Head(fifo)] = "ACQUIRED"]
          /\ released' = IF released = Head(fifo) THEN None ELSE released
          /\ UNCHANGED failed
     ELSE /\ failed' = TRUE
          /\ fifo' = IF fifo = <<>> THEN fifo ELSE Tail(fifo)
          /\ UNCHANGED <<num, acquired, state, released>>
  /\ UNCHANGED <<is_static, inflight, handle, slotVars, drawing, freed>>

\* oxr_swapchain_common_wait.  Nothing calls inc_image_use, so use_count is 0
\* and swapchain_wait_image returns at once.
Wait ==
  /\ handle
  /\ inflight = None /\ acquired # <<>>
  /\ inflight' = Head(acquired) /\ acquired' = Tail(acquired)
  /\ state' = [state EXCEPT ![Head(acquired)] = "WAITED"]
  /\ UNCHANGED <<is_static, fifo, num, released, handle, slotVars, drawing,
                 freed, failed>>

\* implicit_release_image, with swapchain_release_image.
Release ==
  /\ handle
  /\ inflight # None /\ state[inflight] = "WAITED"
  /\ fifo' = Append(fifo, inflight)
  /\ num' = num - 1
  /\ released' = inflight /\ inflight' = None
  /\ state' = [state EXCEPT ![inflight] = "READY"]
  /\ UNCHANGED <<is_static, acquired, handle, slotVars, drawing, freed, failed>>

-----------------------------------------------------------------------------
(* References. *)

\* xrt_swapchain_reference: the last one to go destroys the swapchain.
SetReferences(slots, has_handle) ==
  /\ slot' = slots
  /\ garbage' = (garbage \/ (~has_handle /\ \A s \in SlotNames : slots[s] = None))

\* A layer of xrEndFrame shows the swapchain: fill_in_sub_image and
\* multi_compositor_layer_projection and its like.
EndFrame ==
  /\ handle
  /\ slot["progress"] = None
  /\ released # None
  /\ SetReferences([slot EXCEPT !["progress"] = released], handle)
  /\ UNCHANGED <<is_static, fifo, appVars, drawing, freed, failed>>

\* slot_move_and_clear_locked, from progress to scheduled, or from scheduled
\* to delivered.
Move(from, to) ==
  /\ slot[from] # None
  /\ SetReferences([slot EXCEPT ![to] = slot[from], ![from] = None], handle)
  /\ UNCHANGED <<is_static, fifo, appVars, drawing, freed, failed>>

\* slot_clear_locked: a frame that does not show the swapchain comes next, or
\* the client discards its frame or is destroyed.
Clear(s) ==
  /\ slot[s] # None
  /\ SetReferences([slot EXCEPT ![s] = None], handle)
  /\ UNCHANGED <<is_static, fifo, appVars, drawing, freed, failed>>

\* xrDestroySwapchain: destroy_handle.
DestroyHandle ==
  /\ handle /\ handle' = FALSE
  /\ SetReferences(slot, FALSE)
  /\ UNCHANGED <<is_static, fifo, acquired, num, inflight, released, state,
                 drawing, freed, failed>>

-----------------------------------------------------------------------------
(* The render loop. *)

\* transfer_layers_locked hands the layers on, comp_renderer_draw reads them.
Draw ==
  /\ drawing = None /\ slot["delivered"] # None
  /\ drawing' = slot["delivered"]
  /\ UNCHANGED <<is_static, fifo, appVars, slotVars, freed, failed>>

\* Mutant of Collect: the swapchain is freed without waiting for the drawing.
CollectAtOnce ==
  /\ garbage /\ ~freed /\ freed' = TRUE
  /\ UNCHANGED <<is_static, fifo, appVars, slotVars, drawing, failed>>

\* The end of compositor_layer_commit, in frames that show the swapchain and
\* in those that do not: comp_swapchain_shared_garbage_collect.
Collect ==
  /\ drawing # None \/ (garbage /\ ~freed)
  /\ drawing' = None
  /\ freed' = garbage
  /\ UNCHANGED <<is_static, fifo, appVars, slotVars, failed>>

Finished == freed /\ UNCHANGED vars

Next ==
  \/ Acquire \/ Wait \/ Release \/ EndFrame \/ DestroyHandle
  \/ Move("progress", "scheduled") \/ Move("scheduled", "delivered")
  \/ \E s \in SlotNames : Clear(s)
  \/ Draw \/ Collect \/ Finished

Spec == Init /\ [][Next]_vars

-----------------------------------------------------------------------------
(* Properties. *)

References == {s \in SlotNames : slot[s] # None} \union
              {x \in {"handle"} : handle}

(* Every image is in exactly one place, its state says which, and the two     *)
(* FIFOs and the counter of acquired images agree, so that xrAcquireSwapchain-*)
(* Image never gets an image that is in use; what xrEndFrame would submit is  *)
(* an image the application has given back and not acquired again.  And the   *)
(* swapchain is freed only when nothing refers to it or draws it.             *)
ImagesAreAccountedFor ==
  LET held == acquired \o (IF inflight = None THEN <<>> ELSE <<inflight>>)
  IN  /\ TypeOK /\ ~failed
      /\ IsInjective(fifo \o held) /\ ToSet(fifo \o held) = Images
      /\ num = Len(held)
      /\ \A i \in Images : state[i] = CASE i \in ToSet(fifo) -> "READY"
                                         [] i \in ToSet(acquired) -> "ACQUIRED"
                                         [] i = inflight -> "WAITED"
      /\ released # None => fifo # <<>> /\ released = Last(fifo)
      /\ garbage <=> References = {}
      /\ freed => garbage /\ drawing = None

(* "Wait until image @p index is available for exclusive use"                 *)
(* (xrt_compositor.h:587): an image the application has waited for is not     *)
(* being drawn.                                                               *)
WaitedIsExclusive == drawing # None => drawing # inflight
=============================================================================
