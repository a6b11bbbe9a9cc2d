------------------------------- MODULE LossyFifo -------------------------------
(***************************************************************************)
(* What a frame sink with a thread of its own promises its neighbours:     *)
(* frames come out in the order they went in, only the oldest one is lost  *)
(* and only to make room for a newer one, nothing comes out after it has   *)
(* been stopped, and until then what is in it comes out.                   *)
(***************************************************************************)
EXTENDS Naturals, Sequences

CONSTANT MaxSize   \* frames it holds, 0 for any number

VARIABLES
  offered,  \* frames pushed so far; a frame is its number
  held,     \* frames that are in it
  out,      \* the last frame that came out, 0 for none
  stopped

vars == <<offered, held, out, stopped>>

Init == offered = 0 /\ held = <<>> /\ out = 0 /\ stopped = FALSE

Room == MaxSize = 0 \/ Len(held) < MaxSize

Put ==
  /\ offered' = offered + 1
  /\ held' = IF stopped THEN held
             ELSE Append(IF Room THEN held ELSE Tail(held), offered')
  /\ UNCHANGED <<out, stopped>>

Take ==
  /\ held # <<>>
  /\ out' = Head(held) /\ held' = Tail(held)
  /\ UNCHANGED <<offered, stopped>>

Stop ==
  /\ ~stopped /\ stopped' = TRUE
  /\ held' = <<>>
  /\ UNCHANGED <<offered, out>>

Next == Put \/ Take \/ Stop

Spec == Init /\ [][Next]_vars /\ WF_vars(Take)
=============================================================================
