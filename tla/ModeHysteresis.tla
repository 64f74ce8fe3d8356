--------------------------- MODULE ModeHysteresis ---------------------------
(***************************************************************************)
(* ModeSupervisor with the history that the hysteresis claim needs: for    *)
(* each mode level, the clearance at which the mode last fell below it.    *)
(***************************************************************************)
EXTENDS ModeSupervisor

VARIABLE left   \* left[m]: the clearance when the mode last fell below m

hvars == <<mode, seen, cmd, left>>

Levels == kCautious..kEmergency

\* No fall below this level yet
Never == -1

HInit == Init /\ left = [m \in Levels |-> Never]

HNext ==
    /\ Next
    /\ left' = [m \in Levels |->
                  IF mode >= m /\ mode' < m
                  THEN seen'.min_human_clearance ELSE left[m]]

HSpec == HInit /\ [][HNext]_hvars

-----------------------------------------------------------------------------

\* The thresholds whose violation puts the mode at level m or above
ThresholdsFrom(m) ==
    {emergency_clearance}
      \cup (IF m <= kCrowded THEN {crowded_clearance} ELSE {})
      \cup (IF m <= kCautious THEN {cautious_clearance} ELSE {})

\* Only the clearance speaks for a cautious mode: nobody is about to be met
\* and the scene is not crowded
ClearanceOnly(in) ==
    /\ in.min_ttc >= emergency_ttc
    /\ in.num_humans < crowded_num_humans

HTypeOK ==
    /\ TypeOK
    /\ left \in [Levels -> Nat \cup {Never}]

\* The mode does not flap on the clearance: between falling below a level and
\* rising to it again the nearest human came closer by more than the whole
\* hysteresis band of one of the level's thresholds, however many steps lie in
\* between ("so the mode does not oscillate", ModeThresholds).
BandSeparatesModes ==
    [][\A m \in Levels :
          /\ mode < m
          /\ mode' >= m
          /\ left[m] # Never
          /\ ClearanceOnly(seen')
          => \E t \in ThresholdsFrom(m) :
                (left[m] - seen'.min_human_clearance) * 100 > t * hysteresis]_hvars
=============================================================================
