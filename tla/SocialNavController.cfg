\* The human feed and the speed limit against the planning cycle: messages that arrive
\* at any moment and go stale, limits set at any moment, a desired speed above the
\* maximum, cycles that turn in place, follow the path or find no safe trajectory.
CONSTANTS
    crowded_num_humans  = 2
    cautious_clearance  = 200
    crowded_clearance   = 120
    emergency_clearance = 50
    emergency_ttc       = 100
    hysteresis          = 25
    max_linear_vel  = 80
    max_angular_vel = 120
    human_timeout   = 1
    DesiredSpeeds   = {100}
    TurnRates <- TurnOne
    VFactors        = {10}
    WOffsets        = {0}
    Limits <- LimitOne
    HumanCounts     = {0, 2}
    Clearances      = {40, 300}
    Ttcs            = {}
    QueueDepth = 1
    MaxTime    = 3
    NotRead    = NotRead
SPECIFICATION FairSpec
INVARIANTS
    TypeOK
    HumansAreFresh
    LimitObeyed
PROPERTIES
    CycleCompletes
    DeadFeedReleases
    ImplementsContract
