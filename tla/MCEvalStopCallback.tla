------------------------- MODULE MCEvalStopCallback -------------------------
(***************************************************************************)
(* The instance of EvalStopCallback for TLC: scores below the floor, above *)
(* it with two rewards, and above the target; the better success rate      *)
(* has the lower reward once, so that neither decides alone.               *)
(***************************************************************************)
EXTENDS EvalStopCallback

ScorePairs == {<<30, 3>>, <<60, 1>>, <<60, 2>>, <<95, 1>>}
=============================================================================
