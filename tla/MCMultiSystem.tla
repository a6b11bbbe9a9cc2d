--------------------------- MODULE MCMultiSystem ---------------------------
(* MultiSystem for TLC: with and without a warm start, in one run.           *)
EXTENDS MultiSystem

VARIABLE warm

Warm == INSTANCE MultiSystem WITH WarmStart <- TRUE

\* WarmStart matters to the first state only.
MCInit == /\ warm \in BOOLEAN
          /\ IF warm THEN Warm!Init ELSE Init

MCNext == Next /\ UNCHANGED warm

MCFairSpec == MCInit /\ [][MCNext]_<<vars, warm>> /\ Fairness

(***************************************************************************)
(* NativeContract, of a system that is not started warm: a warm start that *)
(* is destroyed before its render thread ran ends a session that was never *)
(* begun.                                                                  *)
(***************************************************************************)
Cold == INSTANCE NativeSession WITH native <- IF warm THEN "closed" ELSE native
ColdNativeContract == Cold!NativeSpec
=============================================================================
