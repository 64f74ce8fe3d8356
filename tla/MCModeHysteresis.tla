-------------------------- MODULE MCModeHysteresis --------------------------
(***************************************************************************)
(* An instance of ModeHysteresis with the thresholds of the code's         *)
(* defaults.  The clearances lie on, just inside and just outside the      *)
(* enter and leave thresholds of EMERGENCY and CROWDED (50 and 62.5, 120   *)
(* and 150 cm) and on both sides of the whole band of CAUTIOUS (200 and    *)
(* 250 cm); the times to collision and the head counts lie on both sides   *)
(* of their threshold.                                                     *)
(***************************************************************************)
EXTENDS ModeHysteresis

SceneClearances == {49, 50, 62, 63, 119, 120, 149, 150, 199, 250}
SceneTtcs       == {99, 100}
SceneCounts     == {1, 4}

MCSituations ==
    {NoHumans}
      \cup [num_humans : SceneCounts, min_human_clearance : SceneClearances,
            min_ttc : SceneTtcs]
=============================================================================
