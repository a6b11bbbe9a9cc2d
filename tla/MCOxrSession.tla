--------------------------- MODULE MCOxrSession ---------------------------
(* Instances of OxrSession for TLC: see the .cfg files of the same prefix. *)
EXTENDS OxrSession

\* What the multi compositor and the IPC server of the repository queue.
CompositorEvents == {"show", "hide"}

\* Everything oxr_session_poll knows how to handle.
AllEvents == CompositorEvents \union {"requestExit", "lossPending", "lost"}
=============================================================================
