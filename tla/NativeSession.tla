--------------------------- MODULE NativeSession ---------------------------
(***************************************************************************)
(* What a native compositor may rely on from whoever drives it             *)
(* (src/monado/src/xrt/include/xrt/xrt_compositor.h): sessions are begun   *)
(* and ended in turn, a frame is predicted and committed within a session, *)
(* one at a time, and no session is ended with a frame pending.            *)
(***************************************************************************)
VARIABLE native

NativeInit == native = "closed"

Begin   == native = "closed" /\ native' = "open"
Predict == native = "open"   /\ native' = "frame"
Commit  == native = "frame"  /\ native' = "open"
End     == native = "open"   /\ native' = "closed"

NativeNext == Begin \/ Predict \/ Commit \/ End

NativeSpec == NativeInit /\ [][NativeNext]_native
=============================================================================
