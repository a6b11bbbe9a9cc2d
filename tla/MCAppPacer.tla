---------------------------- MODULE MCAppPacer ----------------------------
(* AppPacer for TLC: values of the constants, and the loops of              *)
(* u_pacing_app.c beside the closed form the module uses for them.          *)
EXTENDS AppPacer, FiniteSetsExt

TwoPeriods == {2, 4}
LateAndEarly == {-1, 2}

\* What while (val <= bound) val += step; stops at: the first value above the
\* bound.  A step is at least one, so that many of them are enough.
LoopResult(val, bound, step) ==
  LET steps == IF val > bound THEN 0 ELSE bound - val + 1
  IN  Min({v \in {val + k * step : k \in 0 .. steps} : v > bound})

(***************************************************************************)
(* The closed form of the pacer's loops is what they compute:              *)
(* calc_app_period goes on while a part of the frame is longer, and        *)
(* predict_display_time has two loops, one after the other.                *)
(***************************************************************************)
PredictionIsTheLoops ==
  LET period == last_input.period
      longest == Max({app.cpu, app.draw, app.gpu})
      app_period == LoopResult(period, longest - 1, period)
      after_last ==
        LoopResult(last_input.display, last_returned + app_period \div 2,
                   app_period)
  IN  /\ calc_app_period = app_period
      /\ predict_display_time(sampled) =
           LoopResult(after_last, sampled + total_app_and_compositor_time,
                      period)

(***************************************************************************)
(* Only a ring that came round fails an assertion, and the loops of        *)
(* u_pacing_app.c are what the closed form says.                           *)
(***************************************************************************)
PacerIsItsLoops == TypeOK /\ AbortsOnlyWhenLapped /\ PredictionIsTheLoops
=============================================================================
