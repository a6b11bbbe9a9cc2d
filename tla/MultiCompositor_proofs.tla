------------------------ MODULE MultiCompositor_proofs ------------------------
(***************************************************************************)
(* Theorems about one client of the multi compositor, for any number of    *)
(* frames, display times and lengths of time, with and without fences that *)
(* fail.                                                                   *)
(***************************************************************************)
EXTENDS MultiCompositor, WellFoundedInduction, NaturalsInduction, TLAPS

\* The places inside wait_for_scheduled_free, and those in which the client
\* or the wait thread has the frame in progress.
FreePlaces == {"lockSlot", "checkFree", "takeList", "takeSlot", "move"}
ClientHas == {"layers", "markDone"} \union FreePlaces
WaiterHas == {"sync", "markDone"} \union FreePlaces

(* Who holds a lock is told by where the threads are.                       *)
LocksHeld ==
  /\ listLock = "client" <=> cpc \in {"takeSlot", "move"}
  /\ listLock = "waiter" <=> tpc \in {"takeSlot", "move"}
  /\ listLock = "render" <=>
       rpc \in {"takeSlot", "deliver", "select", "blend", "commit"}
  /\ slotLock = "client" <=> cpc \in {"checkFree", "move"}
  /\ slotLock = "waiter" <=> tpc \in {"checkFree", "move"}
  /\ slotLock = "render" <=> rpc = "deliver"

(* The compositor is taken off the list, and only then its thread stopped.  *)
Teardown ==
  /\ listed <=> cpc \notin {"stop", "join", "destroyed"}
  /\ running <=> cpc \notin {"join", "destroyed"}
  /\ tpc = "exited" => ~running
  /\ ~listed => listLock # "render"
  /\ cpc = "destroyed" => tpc = "exited"

(* What the client and the wait thread tell each other.                     *)
HandOver ==
  /\ waiting <=> tpc \in WaiterHas \union {"finish"}
  /\ xcf # None => tpc = "asleep"
  /\ blocked => cpc = "blocked" /\ IsPushedOrWaiting
  /\ cpc = "blocked" => blocked \/ ~IsPushedOrWaiting
  /\ cpc \in {"fill"} \union ClientHas => ~IsPushedOrWaiting

(* There is a frame in progress exactly while someone has it.               *)
ProgressUse ==
  /\ progress # None <=> cpc \in ClientHas \/ xcf # None \/ tpc \in WaiterHas
  /\ xcf # None => xcf = progress
  /\ tpc \in WaiterHas => job = progress

GpuDoneUnmarked ==
  cpc \in {"layers", "markDone"} \/ xcf # None \/ tpc \in {"sync", "markDone"}

Submitting == {f \in Frames : life[f] = "delivered" /\ f # progress}

(* Where the pacer believes each frame to be.                               *)
LifeInv ==
  /\ \A s \in {scheduled, delivered, latched} : s # None => life[s] = "gpuDone"
  /\ progress # None =>
       life[progress] = IF GpuDoneUnmarked THEN "delivered" ELSE "gpuDone"
  /\ \A f, g \in Submitting : f = g
  /\ Submitting # {} <=> cpc \in {"layerBegin", "blocked", "fill"}
  /\ \A f, g \in Frames : life[f] = life[g] /\ life[f] \in {"woken", "begun"}
                            => f = g

Stage(f) == IF life[f] = "unused" THEN 5 ELSE IF life[f] = "woken" THEN 4
            ELSE IF life[f] = "begun" THEN 3
            ELSE IF life[f] = "delivered" THEN 2 ELSE 1

(* A frame never overtakes one before it.                                   *)
IdsInOrder ==
  /\ \A f, g \in Frames :
       life[f] # "discarded" /\ life[g] # "discarded" /\ Stage(f) < Stage(g)
         => f < g
  /\ \A f \in Submitting : progress < f

SlotsInOrder ==
  /\ delivered # None => latched <= delivered
  /\ scheduled # None => latched < scheduled /\ delivered < scheduled
  /\ progress # None =>
       latched < progress /\ delivered < progress /\ scheduled < progress

Waited == gpuDone \union syncFailed

(* Frames on their way have been waited for, unless the compositor is being *)
(* torn down, after which none is latched.                                  *)
WaitedFor ==
  /\ latched # None => latched \in Waited
  /\ running =>
       /\ \A s \in {scheduled, delivered} : s # None => s \in Waited
       /\ cpc \in {"markDone"} \union FreePlaces => progress \in Waited
       /\ tpc \in {"markDone"} \union FreePlaces => progress \in Waited

Inv ==
  /\ TypeOK /\ NoAbort
  /\ LocksHeld /\ Teardown /\ HandOver /\ NobodySleepsInVain /\ ProgressUse
  /\ LifeInv /\ IdsInOrder /\ SlotsInOrder /\ WaitedFor

-----------------------------------------------------------------------------
\* What is no call, no step in a call and not the render loop's.
Others ==
  \/ \E t \in {"client", "waiter"} : SpuriousWakeup(t)
  \/ \E v \in BOOLEAN : SetVisible(v)
  \/ SetFocused
  \/ \E f \in Frames : GpuDone(f)
  \/ Tick
  \/ Finished

USE DEF Client, WaitThread, Render, ListLockFree, None,
        ClientUnchanged, FreeUnchanged, RunUnchanged, DestroyUnchanged,
        RenderUnchanged, lockVars, waitVars, renderVars, envVars, gpuVars,
        slots, flags

\* When the client fills progress (multi_compositor_layer_commit after
\* wait_for_wait_thread) it is empty, and the frame it takes is the one that
\* has been handed to layer_begin and not yet been committed.
LEMMA FillsWithTheNext ==
  ASSUME TypeOK, HandOver, ProgressUse, LifeInv, FillProgress
  PROVE  /\ progress = None
         /\ progress' \in Submitting
<1>1. progress = None
  BY DEF FillProgress, HandOver, ProgressUse, IsPushedOrWaiting, ClientHas,
     FreePlaces
<1>2. PICK f \in Submitting : Submitting = {f}
  BY DEF FillProgress, LifeInv
<1>3. {g \in Frames : life[g] = "delivered"} = {f} /\ f \in Int
  BY <1>1, <1>2 DEF Submitting, Frames
<1>4. Max({f}) = f
  BY <1>3 DEF Max
<1>5. QED
  BY <1>1, <1>2, <1>3, <1>4 DEF FillProgress

\* wait_frame wakes for the smallest id no frame has had: the pacer numbers
\* its frames as it predicts them.
LEMMA WaitsForTheFirst ==
  ASSUME WaitFrame
  PROVE  \E f \in Frames : /\ life[f] = "unused"
                           /\ \A g \in Frames : life[g] = "unused" => f <= g
                           /\ life' = [life EXCEPT ![f] = "woken"]
<1> DEFINE U == InState({"unused"})
<1>1. U \subseteq Nat /\ U # {}
  BY ConstantsAssumption DEF WaitFrame, InState, Frames
<1>2. PICK f \in U : \A g \in U : <<g, f>> \notin OpToRel(<, Nat)
  BY <1>1, NatLessThanWellFounded, WFMin, Zenon
<1>3. \A g \in U : ~(g < f)
  BY <1>1, <1>2, Zenon DEF OpToRel
<1>4. \A g \in U : f <= g
  BY <1>1, <1>3
<1>5. Min(U) \in U /\ \A g \in U : Min(U) <= g
  BY <1>4 DEF Min
<1>6. life' = [life EXCEPT ![Min(U)] = "woken"]
  BY DEF WaitFrame
<1>7. QED
  BY <1>5, <1>6 DEF InState

\* list_and_timing_lock and slot_lock are held by a thread exactly in the
\* places in the code between its lock and its unlock.
LEMMA LocksStep ==
  ASSUME TypeOK, LocksHeld, Next
  PROVE  LocksHeld'
<1> USE DEF LocksHeld, At, Goto
<1>1. CASE ClientCall
  BY <1>1 DEF ClientCall, BeginSession, EndSession, WaitFrame, BeginFrame,
     DiscardFrame, LayerBegin, Destroy
<1>2. CASE ClientStep
  <2>1. CASE \/ WaitForWaitThread \/ BlockedWakes \/ FillProgress
             \/ CommitWithSync \/ CommitWithoutSync
    BY <2>1 DEF WaitForWaitThread, BlockedWakes, FillProgress,
        CommitWithSync, CommitWithoutSync
  <2>2. CASE Unlist \/ Stop \/ Join
    BY <2>2 DEF Unlist, Stop, Join
  <2>3. CASE FreeStep("client")
    BY <2>3 DEF FreeStep, MarkGpuDone, LockSlot, CheckFree, TakeList,
        TakeSlot, MoveToScheduled
  <2>4. QED
    BY <1>2, <2>1, <2>2, <2>3 DEF ClientStep
<1>3. CASE WaitThreadStep
  <2>1. CASE TakeJob \/ Finish \/ WaitSync
    BY <2>1 DEF TakeJob, Finish, WaitSync, LoopHead
  <2>2. CASE FreeStep("waiter")
    BY <2>2 DEF FreeStep, MarkGpuDone, LockSlot, CheckFree, TakeList,
        TakeSlot, MoveToScheduled
  <2>3. QED
    BY <1>3, <2>1, <2>2 DEF WaitThreadStep
<1>4. CASE PredictNative \/ RenderStep
  BY <1>4 DEF PredictNative, RenderStep, RenderTakeList, RenderTakeSlot,
     Deliver, Select, Blend, CommitNative
<1>5. CASE Others
  BY <1>5 DEF Others, SpuriousWakeup, SetVisible, SetFocused, GpuDone, Tick,
     Finished, vars
<1>6. QED
  BY <1>1, <1>2, <1>3, <1>4, <1>5 DEF Next, Others

\* multi_compositor_destroy takes the client off the list under the list
\* lock, then stops the wait thread, then joins it.
LEMMA TeardownStep ==
  ASSUME TypeOK, LocksHeld, Teardown, HandOver, Next
  PROVE  Teardown'
<1> USE DEF Teardown, LocksHeld, At, Goto
<1>1. CASE ClientCall
  BY <1>1 DEF ClientCall, BeginSession, EndSession, WaitFrame, BeginFrame,
     DiscardFrame, LayerBegin, Destroy
<1>2. CASE ClientStep
  <2>1. CASE \/ WaitForWaitThread \/ BlockedWakes \/ FillProgress
             \/ CommitWithSync \/ CommitWithoutSync
    BY <2>1 DEF WaitForWaitThread, BlockedWakes, FillProgress,
        CommitWithSync, CommitWithoutSync
  <2>2. CASE Unlist \/ Stop \/ Join
    BY <2>2 DEF Unlist, Stop, Join
  <2>3. CASE FreeStep("client")
    BY <2>3 DEF FreeStep, MarkGpuDone, LockSlot, CheckFree, TakeList,
        TakeSlot, MoveToScheduled
  <2>4. QED
    BY <1>2, <2>1, <2>2, <2>3 DEF ClientStep
<1>3. CASE WaitThreadStep
  <2>1. CASE TakeJob
    BY <2>1 DEF TakeJob, LoopHead
  <2>2. CASE Finish
    BY <2>2 DEF Finish, LoopHead
  <2>3. CASE WaitSync
    BY <2>3 DEF WaitSync
  <2>4. CASE FreeStep("waiter")
    BY <2>4 DEF FreeStep, MarkGpuDone, LockSlot, CheckFree, TakeList,
        TakeSlot, MoveToScheduled
  <2>5. QED
    BY <1>3, <2>1, <2>4, <2>2, <2>3 DEF WaitThreadStep
<1>4. CASE PredictNative \/ RenderStep
  BY <1>4 DEF PredictNative, RenderStep, RenderTakeList, RenderTakeSlot,
     Deliver, Select, Blend, CommitNative
<1>5. CASE Others
  BY <1>5 DEF Others, SpuriousWakeup, SetVisible, SetFocused, GpuDone, Tick,
     Finished, vars
<1>6. QED
  BY <1>1, <1>2, <1>3, <1>4, <1>5 DEF Next, Others

\* The wait thread's flags tell what it does: waiting while it has a frame,
\* and a client that has come back from wait_for_wait_thread finds it idle.
LEMMA HandOverStep ==
  ASSUME TypeOK, Teardown, HandOver, Next
  PROVE  HandOver'
<1> USE DEF Teardown, HandOver, At, Goto, IsPushedOrWaiting, FreePlaces,
   ClientHas, WaiterHas
<1>1. CASE ClientCall
  BY <1>1 DEF ClientCall, BeginSession, EndSession, WaitFrame, BeginFrame,
     DiscardFrame, LayerBegin, Destroy
<1>2. CASE ClientStep
  <2>1. CASE \/ WaitForWaitThread \/ BlockedWakes \/ FillProgress
             \/ CommitWithSync \/ CommitWithoutSync
    BY <2>1 DEF WaitForWaitThread, BlockedWakes, FillProgress,
        CommitWithSync, CommitWithoutSync, TypeOK, WaitPlaces
  <2>2. CASE Unlist \/ Stop \/ Join
    BY <2>2 DEF Unlist, Stop, Join
  <2>3. CASE FreeStep("client")
    BY <2>3 DEF FreeStep, MarkGpuDone, LockSlot, CheckFree, TakeList,
        TakeSlot, MoveToScheduled
  <2>4. QED
    BY <1>2, <2>1, <2>2, <2>3 DEF ClientStep
<1>3. CASE WaitThreadStep
  <2>1. CASE TakeJob
    BY <2>1 DEF TakeJob, LoopHead
  <2>2. CASE FreeStep("waiter")
    BY <2>2 DEF FreeStep, MarkGpuDone, LockSlot, CheckFree, TakeList,
        TakeSlot, MoveToScheduled
  <2>3. CASE Finish
    BY <2>3 DEF Finish, LoopHead
  <2>4. CASE WaitSync
    BY <2>4 DEF WaitSync
  <2>5. QED
    BY <1>3, <2>1, <2>2, <2>3, <2>4 DEF WaitThreadStep
<1>4. CASE PredictNative \/ RenderStep
  BY <1>4 DEF PredictNative, RenderStep, RenderTakeList, RenderTakeSlot,
     Deliver, Select, Blend, CommitNative
<1>5. CASE Others
  BY <1>5 DEF Others, SpuriousWakeup, SetVisible, SetFocused, GpuDone, Tick,
     Finished, vars
<1>6. QED
  BY <1>1, <1>2, <1>3, <1>4, <1>5 DEF Next, Others

\* Who may sleep on the condition variable of the wait thread: a signal meant
\* for one of the two finds the other one awake, so it goes to the right one.
LEMMA SleepersStep ==
  ASSUME TypeOK, Teardown, HandOver, NobodySleepsInVain, Next
  PROVE  NobodySleepsInVain'
<1> USE DEF Teardown, HandOver, NobodySleepsInVain, IsPushedOrWaiting, At, Goto,
   FreePlaces, ClientHas, WaiterHas
<1>1. CASE ClientCall
  BY <1>1 DEF ClientCall, BeginSession, EndSession, WaitFrame, BeginFrame,
     DiscardFrame, LayerBegin, Destroy
<1>2. CASE ClientStep
  <2>1. CASE \/ WaitForWaitThread \/ BlockedWakes \/ FillProgress
             \/ CommitWithoutSync
    BY <2>1 DEF WaitForWaitThread, BlockedWakes, FillProgress,
        CommitWithoutSync, TypeOK
  <2>2. CASE CommitWithSync \/ Stop
    <3>1. condWaiters \subseteq {"waiter"}
      BY <2>2 DEF CommitWithSync, Stop, TypeOK
    <3>2. condWaiters' = {}
      BY <2>2, <3>1 DEF CommitWithSync, Stop, Signal, AfterSignal
    <3>3. QED
      BY <3>2
  <2>3. CASE Unlist \/ Join
    BY <2>3 DEF Unlist, Join
  <2>4. CASE FreeStep("client")
    BY <2>4 DEF FreeStep, MarkGpuDone, LockSlot, CheckFree, TakeList,
        TakeSlot, MoveToScheduled
  <2>5. QED
    BY <1>2, <2>1, <2>2, <2>3, <2>4 DEF ClientStep
<1>3. CASE WaitThreadStep
  <2>1. CASE TakeJob
    <3>1. ~waiting /\ "waiter" \notin condWaiters /\ xcf' = None
      BY <2>1 DEF TakeJob
    <3>2. CASE xcf = None
      <4>1. "client" \notin condWaiters
        BY <3>1, <3>2
      <4>2. ~waiting' /\ LoopHead(condWaiters)
        BY <2>1, <3>2 DEF TakeJob
      <4>3. QED
        BY <2>1, <3>1, <4>1, <4>2 DEF TakeJob, LoopHead
    <3>3. CASE xcf # None
      <4>1. waiting' /\ UNCHANGED <<condWaiters, blocked, cpc>>
        BY <2>1, <3>3 DEF TakeJob
      <4>2. QED
        BY <3>1, <4>1
    <3>4. QED
      BY <3>2, <3>3
  <2>2. CASE FreeStep("waiter")
    BY <2>2 DEF FreeStep, MarkGpuDone, LockSlot, CheckFree, TakeList,
        TakeSlot, MoveToScheduled
  <2>3. CASE Finish
    <3>1. PICK sleepers \in IF blocked THEN AfterSignal ELSE {condWaiters} :
            LoopHead(sleepers)
      BY <2>3 DEF Finish
    <3>2. condWaiters \subseteq {"client"}
      BY <2>3 DEF Finish, TypeOK
    <3>3. sleepers = {}
      BY <3>1, <3>2 DEF AfterSignal
    <3>4. QED
      BY <2>3, <3>1, <3>3 DEF Finish, LoopHead
  <2>4. CASE WaitSync
    BY <2>4 DEF WaitSync
  <2>5. QED
    BY <1>3, <2>1, <2>2, <2>3, <2>4 DEF WaitThreadStep
<1>4. CASE PredictNative \/ RenderStep
  BY <1>4 DEF PredictNative, RenderStep, RenderTakeList, RenderTakeSlot,
     Deliver, Select, Blend, CommitNative
<1>5. CASE Others
  BY <1>5 DEF Others, SpuriousWakeup, SetVisible, SetFocused, GpuDone, Tick,
     Finished, vars
<1>6. QED
  BY <1>1, <1>2, <1>3, <1>4, <1>5 DEF Next, Others

\* The frame in progress belongs to one of the two threads at a time, and the
\* wait thread works on the frame that is in progress.
LEMMA ProgressStep ==
  ASSUME TypeOK, Teardown, HandOver, ProgressUse, LifeInv, Next
  PROVE  ProgressUse'
<1> USE DEF Teardown, HandOver, ProgressUse, At, Goto, IsPushedOrWaiting,
   FreePlaces, ClientHas, WaiterHas
<1>1. CASE ClientCall
  BY <1>1 DEF ClientCall, BeginSession, EndSession, WaitFrame, BeginFrame,
     DiscardFrame, LayerBegin, Destroy
<1>2. CASE ClientStep
  <2>1. CASE \/ WaitForWaitThread \/ BlockedWakes
             \/ CommitWithSync \/ CommitWithoutSync
    BY <2>1 DEF WaitForWaitThread, BlockedWakes, FillProgress,
        CommitWithSync, CommitWithoutSync, TypeOK, WaitPlaces
  <2>2. CASE FillProgress
    BY <2>2, FillsWithTheNext DEF FillProgress, Frames, Submitting
  <2>3. CASE Unlist \/ Stop \/ Join
    BY <2>3 DEF Unlist, Stop, Join
  <2>4. CASE FreeStep("client")
    BY <2>4 DEF FreeStep, MarkGpuDone, LockSlot, CheckFree, TakeList,
        TakeSlot, MoveToScheduled
  <2>5. QED
    BY <1>2, <2>1, <2>3, <2>4, <2>2 DEF ClientStep
<1>3. CASE WaitThreadStep
  <2>1. CASE TakeJob \/ Finish \/ WaitSync
    BY <2>1 DEF TakeJob, Finish, WaitSync, LoopHead
  <2>2. CASE FreeStep("waiter")
    BY <2>2 DEF FreeStep, MarkGpuDone, LockSlot, CheckFree, TakeList,
        TakeSlot, MoveToScheduled
  <2>3. QED
    BY <1>3, <2>1, <2>2 DEF WaitThreadStep
<1>4. CASE PredictNative \/ RenderStep
  BY <1>4 DEF PredictNative, RenderStep, RenderTakeList, RenderTakeSlot,
     Deliver, Select, Blend, CommitNative
<1>5. CASE Others
  BY <1>5 DEF Others, SpuriousWakeup, SetVisible, SetFocused, GpuDone, Tick,
     Finished, vars
<1>6. QED
  BY <1>1, <1>2, <1>3, <1>4, <1>5 DEF Next, Others

\* What the pacer believes of each frame is where the frame is: the frames in
\* the slots are marked GPU done, at most one is between layer_begin and the
\* commit, and frames go through the pacer's states in the order of their ids.
LEMMA LifeStep ==
  ASSUME TypeOK, HandOver, ProgressUse, LifeInv, SlotsInOrder, IdsInOrder, Next
  PROVE  LifeInv' /\ IdsInOrder'
<1> USE DEF LifeInv, IdsInOrder, Submitting, Stage, GpuDoneUnmarked,
   IsPushedOrWaiting, FreePlaces, ClientHas, WaiterHas, HandOver, ProgressUse
<1>1. CASE ClientCall
  <2>1. CASE WaitFrame
    <3>1. PICK f \in Frames : /\ life[f] = "unused"
                           /\ \A g \in Frames : life[g] = "unused" => f <= g
                           /\ life' = [life EXCEPT ![f] = "woken"]
      BY <2>1, WaitsForTheFirst
    <3>2. UNCHANGED <<cpc, tpc, progress, xcf, scheduled, delivered, latched>>
      BY <2>1 DEF WaitFrame
    <3>3. /\ life'[f] = "woken"
          /\ \A g \in Frames \ {f} : /\ life'[g] = life[g]
                                     /\ life[g] # "woken"
      <4>1. \A g \in Frames : life[g] # "woken"
        BY <2>1 DEF WaitFrame, InState
      <4>2. QED
        BY <3>1, <4>1 DEF TypeOK
    <3>4. Submitting' = Submitting
      BY <3>1, <3>2, <3>3
    <3>5. LifeInv'
      <4>1. \A s \in {scheduled, delivered, latched, progress} :
              s # None => s # f /\ life'[s] = life[s]
        BY <3>1, <3>3 DEF TypeOK, Slot
      <4>2. \A g, h \in Frames :
              life'[g] = life'[h] /\ life'[g] \in {"woken", "begun"} => g = h
        BY <3>1, <3>3
      <4>3. GpuDoneUnmarked' = GpuDoneUnmarked
        BY <3>2
      <4>4. QED
        BY <3>2, <3>4, <4>1, <4>2, <4>3
    <3>6. IdsInOrder'
      <4>1. \A g \in Frames : life[g] # "discarded" /\ g # f =>
              /\ Stage(g)' < Stage(f)' => g < f
              /\ Stage(f)' < Stage(g)' => f < g
        BY <3>1, <3>3 DEF TypeOK, LifeStates, Frames
      <4>2. QED
        BY <3>1, <3>2, <3>3, <3>4, <4>1 DEF TypeOK, Frames
    <3>7. QED
      BY <3>5, <3>6
  <2>2. CASE BeginFrame
    <3>1. PICK f \in Frames : /\ life[f] = "woken"
                              /\ life' = [life EXCEPT ![f] = "begun"]
      BY <2>2 DEF BeginFrame, InState, Mark
    <3>2. UNCHANGED <<cpc, tpc, progress, xcf, scheduled, delivered, latched>>
      BY <2>2 DEF BeginFrame
    <3>3. /\ life'[f] = "begun"
          /\ \A g \in Frames \ {f} : /\ life'[g] = life[g]
                                     /\ life[g] \notin {"woken", "begun"}
      <4>1. \A g \in Frames : life[g] # "begun"
        BY <2>2 DEF BeginFrame, InState
      <4>2. QED
        BY <3>1, <4>1 DEF TypeOK
    <3>4. Submitting' = Submitting
      BY <3>1, <3>2, <3>3
    <3>5. LifeInv'
      <4>1. \A s \in {scheduled, delivered, latched, progress} :
              s # None => s # f /\ life'[s] = life[s]
        BY <3>1, <3>3 DEF TypeOK, Slot
      <4>2. \A g, h \in Frames :
              life'[g] = life'[h] /\ life'[g] \in {"woken", "begun"} => g = h
        BY <3>1, <3>3
      <4>3. GpuDoneUnmarked' = GpuDoneUnmarked
        BY <3>2
      <4>4. QED
        BY <3>2, <3>4, <4>1, <4>2, <4>3
    <3>6. IdsInOrder'
      <4>1. \A g \in Frames : life[g] # "discarded" /\ g # f =>
              /\ Stage(g)' < Stage(f)' => g < f
              /\ Stage(f)' < Stage(g)' => f < g
        BY <3>1, <3>3 DEF TypeOK, LifeStates
      <4>2. QED
        BY <3>1, <3>2, <3>3, <3>4, <4>1 DEF TypeOK, Frames
    <3>7. QED
      BY <3>5, <3>6
  <2>3. CASE DiscardFrame
    <3>1. PICK f \in Frames : /\ life[f] \in {"woken", "begun"}
                              /\ life' = [life EXCEPT ![f] = "discarded"]
      BY <2>3 DEF DiscardFrame, InState, Mark
    <3>2. /\ UNCHANGED <<cpc, tpc, progress, xcf, scheduled, latched>>
          /\ delivered' = None
      BY <2>3 DEF DiscardFrame
    <3>3. LifeInv'
      BY <3>1, <3>2 DEF TypeOK, Frames
    <3>4. IdsInOrder'
      BY <3>1, <3>2 DEF TypeOK, Frames
    <3>5. QED
      BY <3>3, <3>4
  <2>4. CASE LayerBegin
    <3>1. PICK f \in Frames : /\ life[f] = "begun"
                              /\ life' = [life EXCEPT ![f] = "delivered"]
      BY <2>4 DEF LayerBegin, InState, Mark
    <3>2. /\ UNCHANGED <<tpc, progress, xcf, scheduled, delivered, latched>>
          /\ cpc = "idle" /\ cpc' = "layerBegin"
      BY <2>4 DEF LayerBegin
    <3>3. progress \in Frames => life[progress] \in {"delivered", "gpuDone"}
      BY DEF Frames
    <3>4. /\ life'[f] = "delivered"
          /\ \A g \in Frames \ {f} : /\ life'[g] = life[g]
                                     /\ life[g] # "begun"
      BY <3>1 DEF TypeOK
    <3>5. Submitting = {} /\ Submitting' = {f}
      BY <3>1, <3>2, <3>3, <3>4
    <3>6. progress # None => /\ life'[progress] = life[progress]
                             /\ progress \in Frames
      BY <3>1, <3>3, <3>4 DEF TypeOK, Slot
    <3>7. LifeInv'
      <4>1. GpuDoneUnmarked' = GpuDoneUnmarked
        BY <3>2
      <4>2. \A s \in {scheduled, delivered, latched} :
              s # None => life'[s] = "gpuDone"
        BY <3>1, <3>4 DEF TypeOK, Slot
      <4>3. QED
        BY <3>1, <3>2, <3>4, <3>5, <3>6, <4>1, <4>2
    <3>8. IdsInOrder'
      <4>1. \A g \in Frames : life[g] # "discarded" /\ g # f =>
              /\ Stage(g)' < Stage(f)' => g < f
              /\ Stage(f)' < Stage(g)' => f < g
        BY <3>1, <3>4 DEF TypeOK, LifeStates
      <4>2. progress < f
        <5>1. CASE progress = None
          BY <5>1 DEF Frames
        <5>2. CASE progress # None
          BY <3>1, <3>3, <3>6, <5>2
        <5>3. QED
          BY <5>1, <5>2
      <4>3. QED
        BY <3>1, <3>2, <3>4, <3>5, <4>1, <4>2
    <3>9. QED
      BY <3>7, <3>8
  <2>5. CASE BeginSession \/ EndSession \/ Destroy
    BY <2>5 DEF BeginSession, EndSession, Destroy
  <2>6. QED
    BY <1>1, <2>1, <2>2, <2>3, <2>4, <2>5 DEF ClientCall
<1>2. ASSUME NEW t \in {"client", "waiter"}, FreeStep(t)
      PROVE  LifeInv' /\ IdsInOrder'
  <2>1. CASE MarkGpuDone(t)
    <3>1. /\ progress \in Frames /\ life[progress] = "delivered"
          /\ UNCHANGED <<progress, scheduled, delivered, latched, xcf>>
          /\ life' = [life EXCEPT ![progress] = "gpuDone"]
      BY <2>1 DEF MarkGpuDone, Mark, At, TypeOK, Slot
    <3>2. /\ ~GpuDoneUnmarked'
          /\ cpc' \in {"layerBegin", "blocked", "fill"}
               <=> cpc \in {"layerBegin", "blocked", "fill"}
      BY <2>1 DEF MarkGpuDone, At, Goto, Mark
    <3>3. Submitting' = Submitting
      BY <3>1 DEF TypeOK
    <3>4. LifeInv'
      BY <3>1, <3>2, <3>3 DEF TypeOK, Frames
    <3>5. IdsInOrder'
      BY <3>1, <3>2, <3>3 DEF TypeOK, Frames
    <3>6. QED
      BY <3>4, <3>5
  <2>2. CASE MoveToScheduled(t)
    <3>1. progress \in Frames /\ life[progress] = "gpuDone"
      BY <2>2 DEF MoveToScheduled, At, TypeOK, Slot
    <3>2. /\ UNCHANGED <<delivered, latched, xcf, life>>
          /\ scheduled' = progress /\ progress' = None
      BY <2>2 DEF MoveToScheduled
    <3>3. cpc' \in {"layerBegin", "blocked", "fill"}
            <=> cpc \in {"layerBegin", "blocked", "fill"}
      BY <2>2 DEF MoveToScheduled, At, Goto
    <3>4. Submitting' = Submitting
      BY <3>1, <3>2 DEF Frames
    <3>5. QED
      BY <3>1, <3>2, <3>3, <3>4 DEF Frames
  <2>3. CASE LockSlot(t) \/ CheckFree(t) \/ TakeList(t) \/ TakeSlot(t)
    BY <2>3 DEF LockSlot, CheckFree, TakeList, TakeSlot, At, Goto
  <2>4. QED
    BY <1>2, <2>1, <2>2, <2>3 DEF FreeStep
<1>3. CASE ClientStep
  <2>1. CASE \/ WaitForWaitThread \/ BlockedWakes
             \/ CommitWithSync \/ CommitWithoutSync
    BY <2>1 DEF WaitForWaitThread, BlockedWakes, CommitWithSync,
        CommitWithoutSync
  <2>2. CASE FillProgress
    <3>1. progress = None /\ progress' \in Submitting
      BY <2>2, FillsWithTheNext
    <3>2. /\ UNCHANGED <<life, tpc, xcf, scheduled, delivered, latched>>
           /\ cpc = "fill" /\ cpc' = "layers"
      BY <2>2 DEF FillProgress
    <3>3. QED
      BY <3>1, <3>2 DEF TypeOK, Frames
  <2>3. CASE Unlist \/ Stop \/ Join
    BY <2>3 DEF Unlist, Stop, Join, Frames
  <2>4. QED
    BY <1>3, <1>2, <2>1, <2>3, <2>2 DEF ClientStep
<1>4. CASE WaitThreadStep
  <2>1. CASE TakeJob \/ WaitSync \/ Finish
    BY <2>1 DEF TakeJob, Finish, WaitSync, LoopHead
  <2>2. QED
    BY <1>4, <1>2, <2>1 DEF WaitThreadStep
<1>5. CASE PredictNative \/ RenderStep
  BY <1>5 DEF PredictNative, RenderStep, RenderTakeList, RenderTakeSlot,
     Deliver, Select, Blend, CommitNative
<1>6. CASE Others
  BY <1>6 DEF Others, SpuriousWakeup, SetVisible, SetFocused, GpuDone, Tick,
     Finished, vars
<1>7. QED
  BY <1>1, <1>3, <1>4, <1>5, <1>6 DEF Next, Others

\* The frames in the slots are ordered: latched, delivered, scheduled,
\* progress; a younger frame is never ahead of an older one.
LEMMA SlotsStep ==
  ASSUME TypeOK, HandOver, ProgressUse, LifeInv, SlotsInOrder, IdsInOrder, Next
  PROVE  SlotsInOrder'
<1> USE DEF SlotsInOrder
<1>1. CASE FillProgress
  <2>1. progress = None /\ progress' \in Submitting
    BY <1>1, FillsWithTheNext
  <2>2. \A s \in {scheduled, delivered, latched} : s < progress'
    <3>1. progress' \in Frames /\ life[progress'] = "delivered"
      BY <2>1 DEF Submitting
    <3>2. SUFFICES ASSUME NEW s \in {scheduled, delivered, latched}, s # None
                    PROVE  s < progress'
      BY <3>1 DEF Frames
    <3>3. s \in Frames /\ life[s] = "gpuDone"
      BY <3>2 DEF LifeInv, TypeOK, Slot
    <3>4. QED
      BY <3>1, <3>3 DEF IdsInOrder, Stage
  <2>3. UNCHANGED <<scheduled, delivered, latched>>
    BY <1>1 DEF FillProgress
  <2>4. QED
    BY <2>2, <2>3 
<1>2. ASSUME NEW t \in {"client", "waiter"}, FreeStep(t)
      PROVE  SlotsInOrder'
  <2>1. CASE MoveToScheduled(t)
    <3>1. progress # None
      BY <2>1 DEF MoveToScheduled, At, ProgressUse, ClientHas, WaiterHas,
          FreePlaces
    <3>2. QED
      BY <2>1, <3>1 DEF MoveToScheduled
  <2>2. CASE ~MoveToScheduled(t)
    BY <1>2, <2>2 DEF FreeStep, MarkGpuDone, LockSlot, CheckFree, TakeList,
        TakeSlot
  <2>3. QED
    BY <2>1, <2>2
<1>3. CASE ClientCall
  BY <1>3, ConstantsAssumption DEF ClientCall, BeginSession, EndSession,
     WaitFrame, BeginFrame, DiscardFrame, LayerBegin, Destroy, TypeOK, Slot,
     Frames
<1>4. CASE ClientStep
  <2>1. CASE \/ WaitForWaitThread \/ BlockedWakes
             \/ CommitWithSync \/ CommitWithoutSync
    BY <2>1 DEF WaitForWaitThread, BlockedWakes, CommitWithSync,
        CommitWithoutSync
  <2>2. CASE Unlist \/ Stop \/ Join
    BY <2>2 DEF Unlist, Stop, Join, Frames
  <2>3. QED
    BY <1>1, <1>2, <1>4, <2>1, <2>2 DEF ClientStep
<1>5. CASE WaitThreadStep
  <2>1. CASE TakeJob \/ WaitSync \/ Finish
    BY <2>1 DEF TakeJob, Finish, WaitSync, LoopHead
  <2>2. QED
    BY <1>2, <1>5, <2>1 DEF WaitThreadStep
<1>6. CASE PredictNative \/ RenderStep
  <2>1. {latched, delivered, scheduled, progress} \subseteq Nat
    <3>1. Slot \subseteq Nat
      BY ConstantsAssumption DEF Slot, Frames
    <3>2. QED
      BY <3>1 DEF TypeOK
  <2>2. CASE Deliver
    BY <2>1, <2>2 DEF Deliver
  <2>3. CASE Select
    BY <2>1, <2>3 DEF Select
  <2>4. QED
    BY <1>6, <2>2, <2>3 DEF PredictNative, RenderStep, RenderTakeList,
       RenderTakeSlot, Blend, CommitNative
<1>7. CASE Others
  BY <1>7 DEF Others, SpuriousWakeup, SetVisible, SetFocused, GpuDone, Tick,
     Finished, vars
<1>8. QED
  BY <1>3, <1>4, <1>5, <1>6, <1>7 DEF Next, Others

\* A frame leaves progress only once its GPU work was waited for, with one
\* exception: a wait thread that is being stopped hands over what it did not
\* wait for, and then the render loop no longer has the client on its list.
LEMMA WaitedForStep ==
  ASSUME TypeOK, LocksHeld, Teardown, HandOver, ProgressUse, WaitedFor, Next
  PROVE  WaitedFor'
<1> USE DEF WaitedFor, Waited
<1>1. CASE FillProgress
  BY <1>1 DEF FillProgress, HandOver, IsPushedOrWaiting, ClientHas, WaiterHas,
     FreePlaces
<1>2. ASSUME NEW t \in {"client", "waiter"}, FreeStep(t)
      PROVE  WaitedFor'
  <2>1. CASE MoveToScheduled(t)
    BY <2>1 DEF MoveToScheduled, At, Goto, FreePlaces, ProgressUse, HandOver,
        ClientHas, WaiterHas, IsPushedOrWaiting
  <2>2. CASE ~MoveToScheduled(t)
    BY <1>2, <2>2 DEF FreeStep, MarkGpuDone, LockSlot, CheckFree, TakeList,
        TakeSlot, At, Goto, FreePlaces, ProgressUse, HandOver, ClientHas,
        WaiterHas, IsPushedOrWaiting
  <2>3. QED
    BY <2>1, <2>2
<1>3. CASE ClientCall
  BY <1>3 DEF ClientCall, BeginSession, EndSession, WaitFrame, BeginFrame,
     DiscardFrame, LayerBegin, Destroy, FreePlaces
<1>4. CASE ClientStep
  <2>1. CASE \/ WaitForWaitThread \/ BlockedWakes
             \/ CommitWithSync \/ CommitWithoutSync
    BY <2>1 DEF WaitForWaitThread, BlockedWakes, CommitWithSync,
        CommitWithoutSync, FreePlaces
  <2>2. CASE Unlist \/ Stop \/ Join
    BY <2>2 DEF Unlist, Stop, Join, FreePlaces, Teardown
  <2>3. QED
    BY <1>1, <1>2, <1>4, <2>1, <2>2 DEF ClientStep
<1>5. CASE WaitThreadStep
  <2>1. CASE TakeJob
    BY <2>1 DEF TakeJob, LoopHead, FreePlaces
  <2>2. CASE WaitSync
    BY <2>2 DEF WaitSync, FreePlaces, ProgressUse, WaiterHas
  <2>3. CASE Finish
    BY <2>3 DEF Finish, LoopHead, FreePlaces
  <2>4. QED
    BY <1>2, <1>5, <2>1, <2>2, <2>3 DEF WaitThreadStep
<1>6. CASE PredictNative \/ RenderStep
  <2>1. Render("select") => running
    BY DEF LocksHeld, Teardown
  <2>2. CASE Select
    BY <2>1, <2>2 DEF Select
  <2>3. CASE Deliver
    BY <2>3 DEF Deliver
  <2>4. QED
    BY <1>6, <2>2, <2>3 DEF PredictNative, RenderStep, RenderTakeList,
      RenderTakeSlot, Blend, CommitNative
<1>7. CASE Others
  BY <1>7 DEF Others, SpuriousWakeup, SetVisible, SetFocused, GpuDone, Tick,
     Finished, vars
<1>8. QED
  BY <1>3, <1>4, <1>5, <1>6, <1>7 DEF Next, Others

\* None of the asserts of the multi compositor and of the pacer's marks fails.
LEMMA NoAbortStep ==
  ASSUME TypeOK, NoAbort, HandOver, ProgressUse, LifeInv, Next
  PROVE  NoAbort'
<1> USE DEF NoAbort
<1>1. CASE ClientCall
  BY <1>1 DEF ClientCall, BeginSession, EndSession, WaitFrame, BeginFrame,
     DiscardFrame, LayerBegin, Destroy, Mark, InState
<1>2. ASSUME NEW t \in {"client", "waiter"}, FreeStep(t)
      PROVE  NoAbort'
  <2>1. CASE MarkGpuDone(t)
    <3>1. progress \in Frames /\ life[progress] = "delivered" /\ (t = "waiter"
       => job = progress)
      BY <2>1 DEF MarkGpuDone, At, TypeOK, Slot, LifeInv, GpuDoneUnmarked,
          ProgressUse, ClientHas, WaiterHas
    <3>2. QED
      BY <2>1, <3>1 DEF MarkGpuDone, Mark
  <2>2. QED
    BY <1>2, <2>1 DEF FreeStep, LockSlot, CheckFree, TakeList, TakeSlot,
       MoveToScheduled
<1>3. CASE ClientStep
  <2>1. CASE WaitForWaitThread
    BY <2>1 DEF WaitForWaitThread, HandOver
  <2>2. CASE FillProgress
    BY <2>2, FillsWithTheNext DEF FillProgress
  <2>3. CASE CommitWithSync
    BY <2>3 DEF CommitWithSync, HandOver, ClientHas
  <2>4. QED
    BY <1>2, <1>3, <2>1, <2>2, <2>3 DEF ClientStep, BlockedWakes,
       CommitWithoutSync, Unlist, Stop, Join
<1>4. CASE WaitThreadStep
  BY <1>2, <1>4 DEF WaitThreadStep, TakeJob, WaitSync, Finish
<1>5. CASE PredictNative \/ RenderStep
  BY <1>5 DEF PredictNative, RenderStep, RenderTakeList, RenderTakeSlot,
     Deliver, Select, Blend, CommitNative
<1>6. CASE Others
  BY <1>6 DEF Others, SpuriousWakeup, SetVisible, SetFocused, GpuDone, Tick,
     Finished, vars
<1>7. QED
  BY <1>1, <1>3, <1>4, <1>5, <1>6 DEF Next, Others

\* Every step keeps the types.
LEMMA TypeStep ==
  ASSUME TypeOK, HandOver, ProgressUse, LifeInv, Next
  PROVE  TypeOK'
<1> USE DEF TypeOK
<1>1. CASE ClientCall
  <2>1. life' \in [Frames -> LifeStates] /\ aborted' \in BOOLEAN
    <3>1. CASE UNCHANGED <<life, aborted>>
      BY <3>1
    <3>2. CASE \E f \in Frames, S \in SUBSET LifeStates, l \in LifeStates :
       Mark(f, S, l)
      BY <3>2 DEF Mark
    <3>3. CASE WaitFrame
      BY <3>3, WaitsForTheFirst DEF WaitFrame, LifeStates
    <3>4. QED
      BY <1>1, <3>1, <3>2, <3>3 DEF ClientCall, BeginSession, EndSession,
         BeginFrame, DiscardFrame, LayerBegin, Destroy, InState, LifeStates
  <2>2. displayTime' \in [Frames -> 0 .. MaxTime]
    BY <1>1, ConstantsAssumption DEF ClientCall, BeginSession, EndSession,
       WaitFrame, BeginFrame, DiscardFrame, LayerBegin, Destroy
  <2>3. CASE WaitFrame \/ BeginFrame \/ DiscardFrame \/ LayerBegin
    BY <2>1, <2>2, <2>3 DEF WaitFrame, BeginFrame, DiscardFrame, LayerBegin,
       ClientPlaces, Slot
  <2>4. CASE BeginSession \/ EndSession \/ Destroy
    BY <2>1, <2>2, <2>4 DEF BeginSession, EndSession, Destroy, ClientPlaces
  <2>5. QED
    BY <1>1, <2>3, <2>4 DEF ClientCall
<1>2. ASSUME NEW t \in {"client", "waiter"}, FreeStep(t)
      PROVE  TypeOK'
  <2>1. CASE MarkGpuDone(t)
    <3>1. life' \in [Frames -> LifeStates] /\ aborted' \in BOOLEAN
      BY <2>1 DEF MarkGpuDone, Mark, LifeStates
    <3>2. QED
      BY <2>1, <3>1 DEF MarkGpuDone, At, Goto, ClientPlaces, WaitPlaces
  <2>2. CASE LockSlot(t) \/ CheckFree(t)
    BY <2>2 DEF LockSlot, CheckFree, At, Goto, ClientPlaces, WaitPlaces,
       Threads
  <2>3. CASE TakeList(t)
    BY <2>3 DEF TakeList, At, Goto, ClientPlaces, WaitPlaces, Threads
  <2>4. CASE TakeSlot(t)
    BY <2>4 DEF TakeSlot, At, Goto, ClientPlaces, WaitPlaces, Threads
  <2>5. CASE MoveToScheduled(t)
    <3>1. /\ cpc' \in ClientPlaces /\ tpc' \in WaitPlaces
          /\ {listLock, slotLock}' \subseteq Threads \union {"free"}
      BY <2>5 DEF MoveToScheduled, At, Goto, ClientPlaces, WaitPlaces
    <3>2. progress' \in Slot /\ scheduled' \in Slot
      BY <2>5 DEF MoveToScheduled, Slot
    <3>3. QED
      BY <2>5, <3>1, <3>2 DEF MoveToScheduled
  <2>6. QED
    BY <1>2, <2>1, <2>2, <2>3, <2>4, <2>5 DEF FreeStep
<1>3. CASE ClientStep
  <2>1. CASE WaitForWaitThread \/ BlockedWakes
    BY <2>1 DEF WaitForWaitThread, BlockedWakes, ClientPlaces
  <2>2. CASE FillProgress
    BY <2>2, FillsWithTheNext DEF FillProgress, ClientPlaces, Submitting, Slot
  <2>3. CASE CommitWithSync
    <3>1. aborted' \in BOOLEAN
      BY <2>3 DEF CommitWithSync, IsPushedOrWaiting
    <3>2. condWaiters' \subseteq condWaiters
      BY <2>3 DEF CommitWithSync, Signal, AfterSignal
    <3>3. QED
      BY <2>3, <3>1, <3>2 DEF CommitWithSync, ClientPlaces
  <2>4. CASE CommitWithoutSync
    <3>1. progress \in Frames
      BY <2>4 DEF CommitWithoutSync, ProgressUse, ClientHas, Slot
    <3>2. QED
      BY <2>4, <3>1 DEF CommitWithoutSync, ClientPlaces
  <2>5. CASE Unlist \/ Stop \/ Join
    <3>1. condWaiters' \subseteq condWaiters
      BY <2>5 DEF Unlist, Stop, Join, Signal, AfterSignal
    <3>2. QED
      BY <2>5, <3>1 DEF Unlist, Stop, Join, ClientPlaces, Slot
  <2>6. QED
    BY <1>2, <1>3, <2>1, <2>2, <2>3, <2>4, <2>5 DEF ClientStep
<1>4. CASE WaitThreadStep
  <2>1. CASE TakeJob
    BY <2>1 DEF TakeJob, LoopHead, WaitPlaces, Slot
  <2>2. CASE WaitSync
    <3>1. job \in Frames
      BY <2>2 DEF WaitSync, ProgressUse, WaiterHas, Slot
    <3>2. QED
      BY <2>2, <3>1 DEF WaitSync, WaitPlaces
  <2>3. CASE Finish
    <3>1. PICK sleepers \in SUBSET condWaiters : LoopHead(sleepers)
      BY <2>3 DEF Finish, AfterSignal
    <3>2. QED
      BY <2>3, <3>1 DEF Finish, LoopHead, WaitPlaces
  <2>4. QED
    BY <1>2, <1>4, <2>1, <2>2, <2>3 DEF WaitThreadStep
<1>5. CASE PredictNative \/ RenderStep
  <2>1. CASE PredictNative
    <3>1. Max({nativeDisplay, now}) \in {nativeDisplay, now}
      BY ConstantsAssumption DEF Max
    <3>2. Max({nativeDisplay, now}) + 1 \in 0 .. MaxTime
      BY <2>1, <3>1, ConstantsAssumption DEF PredictNative
    <3>3. QED
      BY <2>1, <3>2 DEF PredictNative, RenderPlaces
  <2>2. CASE RenderStep
    BY <2>2 DEF RenderStep, RenderTakeList, RenderTakeSlot, Deliver, Select,
       Blend, CommitNative, RenderPlaces, Threads, Slot
  <2>3. QED
    BY <1>5, <2>1, <2>2
<1>6. CASE Others
  <2>1. CASE Tick
    BY <2>1, ConstantsAssumption DEF Tick
  <2>2. QED
    BY <1>6, <2>1 DEF Others, SpuriousWakeup, SetVisible, SetFocused, GpuDone,
     Finished, vars
<1>7. QED
  BY <1>1, <1>3, <1>4, <1>5, <1>6 DEF Next, Others
-----------------------------------------------------------------------------
\* The invariant of one client of the multi compositor: who holds the locks,
\* what the threads tell each other, where the pacer believes each frame to be
\* and the order of the frames on their way to the display
\* (comp_multi_compositor.c, the render loop of comp_multi_system.c).
THEOREM SlotsInvariant == Spec => []Inv
<1>1. Init => Inv
  <2> SUFFICES ASSUME Init PROVE Inv
    OBVIOUS
  <2> USE ConstantsAssumption DEF Init
  <2>1. TypeOK /\ NoAbort
    <3>1. /\ {progress, scheduled, delivered, xcf, job, latched} \subseteq Slot
          /\ {now, nativeDisplay, slot_next_frame_display}
               \subseteq 0 .. MaxTime
          /\ displayTime \in [Frames -> 0 .. MaxTime]
      BY DEF Slot
    <3>2. {session_active, visible, focused, listed, waiting, blocked, running,
           aborted} \subseteq BOOLEAN
      BY Zenon
    <3>3. /\ life \in [Frames -> LifeStates]
          /\ cpc \in ClientPlaces /\ tpc \in WaitPlaces /\ rpc \in RenderPlaces
      BY DEF LifeStates, ClientPlaces, WaitPlaces, RenderPlaces
    <3>4. QED
      BY <3>1, <3>2, <3>3 DEF TypeOK, NoAbort
  <2>2. LocksHeld /\ Teardown
    BY DEF LocksHeld, Teardown
  <2>3. HandOver /\ ProgressUse /\ NobodySleepsInVain
    BY DEF HandOver, ProgressUse, NobodySleepsInVain, ClientHas, WaiterHas, FreePlaces,
       IsPushedOrWaiting
  <2>4. LifeInv /\ IdsInOrder
    BY DEF LifeInv, IdsInOrder, Submitting, Stage
  <2>5. SlotsInOrder /\ WaitedFor
    BY DEF SlotsInOrder, WaitedFor, FreePlaces
  <2>6. QED
    BY <2>1, <2>2, <2>3, <2>4, <2>5 DEF Inv
<1>2. Inv /\ [Next]_vars => Inv'
  <2>1. CASE Next
    BY <2>1, TypeStep, NoAbortStep, LocksStep, TeardownStep, HandOverStep,
       SleepersStep, ProgressStep, LifeStep, SlotsStep, WaitedForStep DEF Inv
  <2>2. CASE UNCHANGED vars
    BY <2>2 DEF vars, Inv, TypeOK, NoAbort, LocksHeld, Teardown, HandOver,
       NobodySleepsInVain, ProgressUse, LifeInv, IdsInOrder, SlotsInOrder,
       WaitedFor, GpuDoneUnmarked, Submitting, Stage, IsPushedOrWaiting, Waited
  <2>3. QED
    BY <2>1, <2>2
<1>3. QED
  BY <1>1, <1>2, PTL DEF Spec

\* For any number of frames: no frame is in two slots, the frame in progress is
\* handed from the client to its wait thread and never used by both, no two
\* threads wait for each other's lock, neither of the two that share a
\* condition variable sleeps in vain, and no assert fails.
THEOREM SlotsSafe == Spec => []SlotsAreSafe
<1>1. Inv => SlotsAreSafe
  <2> SUFFICES ASSUME Inv PROVE SlotsAreSafe
    OBVIOUS
  <2>1. OneSlotEach
    BY DEF Inv, LifeInv, SlotsInOrder, OneSlotEach, TypeOK, Slot, Frames
  <2>2. ProgressHandedOver
    BY DEF Inv, HandOver, ProgressHandedOver, ClientHas
  <2>3. NoLockCycle
    BY DEF Inv, LocksHeld, NoLockCycle, WantsList, WantsSlot, Threads, At
  <2>4. QED
    BY <2>1, <2>2, <2>3 DEF Inv, SlotsAreSafe
<1>2. QED
  BY <1>1, SlotsInvariant, PTL

\* The render loop never shows a frame whose GPU work has not been waited for,
\* not even while the client is being destroyed.
THEOREM LatchedWereFinished == Spec => []OnlyFinishedFramesLatched
<1>1. Inv => OnlyFinishedFramesLatched
  BY DEF Inv, WaitedFor, Waited, OnlyFinishedFramesLatched
<1>2. QED
  BY <1>1, SlotsInvariant, PTL

\* The frames a client's compositor latches never go back: each one shown is
\* the same as, or younger than, the one shown before.
THEOREM ShownInOrder == Spec => FramesInOrder
<1>1. Inv /\ [Next]_vars => [latched' >= latched]_vars
  <2> SUFFICES ASSUME Inv, Next PROVE latched' >= latched
    BY DEF vars
  <2>1. latched \in Nat /\ delivered \in Nat
    BY ConstantsAssumption DEF Inv, TypeOK, Slot, Frames
  <2>2. CASE Select
    BY <2>1, <2>2 DEF Select, Inv, SlotsInOrder
  <2>3. CASE UNCHANGED latched
    BY <2>1, <2>3
  <2>4. CASE ClientCall \/ ClientStep
    BY <2>4, <2>3 DEF ClientCall, BeginSession, EndSession, WaitFrame,
       BeginFrame, DiscardFrame, LayerBegin, Destroy, ClientStep,
       WaitForWaitThread, BlockedWakes, FillProgress, CommitWithSync,
       CommitWithoutSync, FreeStep, MarkGpuDone, LockSlot, CheckFree,
       TakeList, TakeSlot, MoveToScheduled, Unlist, Stop, Join
  <2>5. CASE WaitThreadStep \/ Others
    BY <2>5, <2>3 DEF WaitThreadStep, TakeJob, WaitSync, Finish, FreeStep,
       MarkGpuDone, LockSlot, CheckFree, TakeList, TakeSlot, MoveToScheduled,
       Others, SpuriousWakeup, SetVisible, SetFocused, GpuDone, Tick,
       Finished, vars
  <2>6. CASE PredictNative \/ RenderStep
    BY <2>6, <2>2, <2>3 DEF PredictNative, RenderStep, RenderTakeList,
       RenderTakeSlot, Deliver, Blend, CommitNative
  <2>7. QED
    BY <2>4, <2>5, <2>6 DEF Next, Others
<1>2. QED
  BY <1>1, SlotsInvariant, PTL DEF Spec, FramesInOrder
=============================================================================
