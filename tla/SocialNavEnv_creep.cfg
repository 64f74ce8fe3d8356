\* goal_blocked in the urban environment with the values of the configuration: lengths in
\* units of 0.25 mm, a period of 0.05 s, velocities in units of 0.005 m/s.
CONSTANTS
    MaxLinVel = 160
    MinLinVel = 0
    MaxAngVel = 240
    MaxLinAccel = 10
    MaxAngAccel = 25
    TtcStop = 20
    TtcSlow = 60
    ClearanceStop = 1600
    ClearanceSlow = 4000
    CautiousSpeed = 50
    NaN = NaN
    Setups <- Blocked
    RobotStart = 0
    Goal = 36000
    ArrivalRadius = 2400
    RobotRadius = 1800
    HumanRadius = 1200
    HitMargin = 200
    PolicyDistance = 4800
    Actions <- MCActions
    MaxSteps = 600
    MaxLatency = 0
    TrackingError = 0
    SettlePeriods = 12
    Period = 1
    StackDepth = 1
    Episodes = 1
SPECIFICATION Spec
INVARIANT NobodyRunInto
CHECK_DEADLOCK FALSE
