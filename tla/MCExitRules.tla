----------------------------- MODULE MCExitRules -----------------------------
(***************************************************************************)
(* Small instances of ExitRules: a trade bought at 10, ticks of a tenth of *)
(* its price, percentages in tenths.                                       *)
(***************************************************************************)
EXTENDS ExitRules, TLC

Level(tp, sl, d, a, sd) ==
  "take_profit" :> tp @@ "stop_loss" :> sl @@ "dist" :> d @@ "act" :> a @@ "stop_dist" :> sd

Pair(d, a) == "dist" :> d @@ "act" :> a

SmallPrices == 8..12
SmallSignals == {Level(12, 9, None, None, None), Level(12, 9, 1, 2, 2), Level(12, 8, 1, 2, None)}
SmallPayloads ==
  {"stop_dist" :> 1, "stop_loss" :> 10, "stop_loss" :> None, "stop_loss" :> 0, "dist" :> 2,
   Pair(None, None), Pair(1, 1)}
SmallProposals == {Pair(None, None), Pair(1, 2), Pair(2, 2), Pair(0, 1), Pair(1, None)}
=============================================================================
