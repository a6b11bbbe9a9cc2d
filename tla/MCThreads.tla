----------------------------- MODULE MCThreads -----------------------------
(***************************************************************************)
(* Threads with a group of its own for each user of the pool, a pool that  *)
(* runs nothing by itself and holds two tasks, and a queue of two frames.  *)
(***************************************************************************)
EXTENDS Threads

OwnGroup == [u \in Users |-> u]
TwoSlots == 1 .. 2
=============================================================================
