\* Campaigns of up to four runs that may be killed at any moment, and recordings of a robot.
CONSTANTS
    CollisionDist = 5
    ComfortDist = 12
    StopSpeed = 1
    ProlongedStop = 2
    ArrivalRadius = 6
    StuckPath = 5
    StopsFlag = 2
    Campaigns <- MCCampaigns
    Installed = {"social_nav", "rpp"}
    PeopleOf <- MCPeopleOf
    Peopled = {"head_on", "stationary_side"}
    Speed = 8
    Start = 0
    Goal = 16
    GoalTolerance = 2
    AnswerWait = 1
    TimeoutOf <- MCTimeoutOf
SPECIFICATION Spec
INVARIANTS
    TypeOK
    AnalysesAgree
    NothingLost
    ReportsAgree
CHECK_DEADLOCK FALSE
