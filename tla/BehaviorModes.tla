--------------------------- MODULE BehaviorModes ---------------------------
(***************************************************************************)
(* The behaviour modes of social_nav_core: how the human situation around  *)
(* the robot is classified, how the mode moves between classifications     *)
(* with a hysteresis band, and how each mode scales the robot's speed      *)
(* (trajectory_scorer.hpp, trajectory_scorer.cpp).                         *)
(*                                                                         *)
(* The code's doubles are integers here: clearances in centimetres, times  *)
(* in hundredths of a second, the hysteresis fraction and the margin in    *)
(* percent, the speed scale in tenths.                                     *)
(***************************************************************************)
EXTENDS Integers

CONSTANTS
    \* ModeThresholds, filled from the controller's parameters
    crowded_num_humans,
    cautious_clearance,
    crowded_clearance,
    emergency_clearance,
    emergency_ttc,
    hysteresis

(***************************************************************************)
(* configure() copies the thresholds from the parameters without any check *)
(* of them: they are not ordered, and nothing makes a clearance smaller in *)
(* a worse mode.  What the results below need is that the band widens the  *)
(* thresholds, which a negative hysteresis or clearance would not do, and  *)
(* that an empty scene is not crowded.                                     *)
(***************************************************************************)
ASSUME ThresholdsAssumption ==
    /\ crowded_num_humans \in Nat \ {0}
    /\ cautious_clearance \in Nat
    /\ crowded_clearance \in Nat
    /\ emergency_clearance \in Nat
    /\ emergency_ttc \in Nat
    /\ hysteresis \in Nat

-----------------------------------------------------------------------------

\* enum class BehaviorMode: the order of the values is the order of caution
kNormal    == 0
kCautious  == 1
kCrowded   == 2
kEmergency == 3

BehaviorMode == kNormal..kEmergency

ModeInputs ==
    [num_humans : Nat, min_human_clearance : Nat, min_ttc : Nat]

\* 1e9 of the struct's initialisers: farther, and later, than any threshold
Unbounded ==
    2 * (100 + hysteresis)
      * (cautious_clearance + crowded_clearance + emergency_clearance
           + emergency_ttc + 1)

\* The value ModeInputs has when no human is in the scene
NoHumans ==
    [num_humans |-> 0, min_human_clearance |-> Unbounded,
     min_ttc |-> Unbounded]

\* The margin on clearances, in percent: of entering a mode, and of leaving it
BaseMargin  == 100
LeaveMargin == 100 + hysteresis

\* min_human_clearance < threshold * margin
Closer(in, threshold, margin) ==
    in.min_human_clearance * 100 < threshold * margin

\* Mutant: the margin is left out of the first threshold
ClassifyBareEmergency(in, margin) ==
    IF \/ Closer(in, emergency_clearance, BaseMargin)
       \/ in.min_ttc < emergency_ttc
    THEN kEmergency
    ELSE IF \/ Closer(in, crowded_clearance, margin)
            \/ in.num_humans >= crowded_num_humans
    THEN kCrowded
    ELSE IF Closer(in, cautious_clearance, margin)
    THEN kCautious
    ELSE kNormal

\* classify: the most cautious mode with a reason to be in it.  The margin
\* widens the clearances only, neither the time to collision nor the count.
Classify(in, margin) ==
    IF \/ Closer(in, emergency_clearance, margin)
       \/ in.min_ttc < emergency_ttc
    THEN kEmergency
    ELSE IF \/ Closer(in, crowded_clearance, margin)
            \/ in.num_humans >= crowded_num_humans
    THEN kCrowded
    ELSE IF Closer(in, cautious_clearance, margin)
    THEN kCautious
    ELSE kNormal

\* Mutant: up by one mode at a time
NextModeStepwise(current, in) ==
    LET up   == Classify(in, BaseMargin)
        down == Classify(in, LeaveMargin)
    IN  IF up > current THEN current + 1
        ELSE IF down < current THEN down
        ELSE current

\* Mutant: down on the base thresholds too
NextModeNoBand(current, in) == Classify(in, BaseMargin)

\* nextMode: up at once on the base thresholds, down only on the widened ones
NextMode(current, in) ==
    LET up   == Classify(in, BaseMargin)
        down == Classify(in, LeaveMargin)
    IN  IF up > current THEN up
        ELSE IF down < current THEN down
        ELSE current

\* modeSpeedScale, in tenths
ModeSpeedScale(mode) ==
    CASE mode = kCautious  -> 6
      [] mode = kCrowded   -> 4
      [] mode = kEmergency -> 0
      [] OTHER             -> 10
=============================================================================
