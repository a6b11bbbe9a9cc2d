---------------------------- MODULE MCAuxiliary ----------------------------
(***************************************************************************)
(* Auxiliary for TLC, with the loops of u_pacing_app.c beside the closed   *)
(* form of AppPacer.  One session and a table of two rows; two clients     *)
(* with two objects; three images; two cameras and one locator; twelve     *)
(* ticks from present to display in a period of fifty, and a wake up or a  *)
(* present that is most of a period late.                                  *)
(***************************************************************************)
EXTENDS MCAppPacer, Auxiliary

OneSession == {"session"}
TwoClients == {"a", "b"}
TwoObjects == {"x", "y"}
OneLocator == {"locator"}
TwoTimes == {1, 2}
InTimeAndLate == {0, 40}

\* A unit that is not at work begins in one state only.
MCInit ==
  /\ UnitsInit
  /\ unit = "pacer" \/ last_input = [display |-> 0, period |-> 2, extra |-> 2]
  /\ unit = "swapchain" \/ ~is_static

MCSpec == MCInit /\ [][UnitsNext]_auxiliaryVars

=============================================================================
