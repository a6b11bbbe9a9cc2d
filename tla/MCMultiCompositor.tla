------------------------- MODULE MCMultiCompositor -------------------------
(***************************************************************************)
(* MultiCompositor for TLC, in one run: fences that work for all the       *)
(* frames, or fences that may fail and an application that stops after two. *)
(***************************************************************************)
EXTENDS MultiCompositor

VARIABLE fences  \* "work" or "fail"

Failing == INSTANCE MultiCompositor WITH SyncMayFail <- TRUE

FailingFrames == {1, 2}

MCInit == fences \in {"work", "fail"} /\ Init

MCNext ==
  /\ \/ fences = "work" /\ Next
     \/ /\ fences = "fail" /\ Failing!Next
        /\ \A f \in Frames \ FailingFrames : life'[f] = "unused"
  /\ UNCHANGED fences

MCSpec == MCInit /\ [][MCNext]_<<vars, fences>>
=============================================================================
