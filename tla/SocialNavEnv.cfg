\* A short corridor: training and evaluation in the mock, evaluation in Gazebo.
CONSTANTS
    MaxLinVel = 6
    MinLinVel = 0
    MaxAngVel = 3
    MaxLinAccel = 2
    MaxAngAccel = 1
    TtcStop = 3
    TtcSlow = 6
    ClearanceStop = 3
    ClearanceSlow = 7
    CautiousSpeed = 1
    NaN = NaN
    Setups <- MCSetups
    RobotStart = 0
    Goal = 28
    ArrivalRadius = 6
    RobotRadius = 4
    HumanRadius = 2
    HitMargin = 6
    PolicyDistance = 10
    Actions <- MCActions
    MaxSteps = 5
    MaxLatency = 1
    TrackingError = 17
    SettlePeriods = 1
    Period = 1
    StackDepth = 3
    Episodes = 2
SPECIFICATION FairSpec
INVARIANTS
    TypeOK
    CreepsAtWorst
    WallNeverHit
    StopReachesRobot
    FramesOfThisEpisode
    StartsWhereTold
PROPERTIES
    EpisodesEnd
CHECK_DEADLOCK FALSE
