\* Every sequence of situations around the mode thresholds.
CONSTANTS
    crowded_num_humans  = 4
    cautious_clearance  = 200
    crowded_clearance   = 120
    emergency_clearance = 50
    emergency_ttc       = 100
    hysteresis          = 25
    max_linear_vel  = 5
    max_angular_vel = 1
    Situations <- MCSituations
SPECIFICATION HSpec
INVARIANTS
    CommandFitsSituation
PROPERTIES
    BandSeparatesModes
    EmergencyHeldUntilCleared
