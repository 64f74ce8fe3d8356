---------------------------- MODULE SocialNavEnv ----------------------------
(***************************************************************************)
(* Episodes of the reinforcement-learning environment (env.py), as         *)
(* evaluate.run_episode drives them: the action of a policy goes through   *)
(* the mapper and the supervisor of SafetySupervisor to one of the two     *)
(* backends, the kinematic mock or the robot in Gazebo, and comes back as  *)
(* the observation and the events of a step.                               *)
(*                                                                         *)
(* The robot drives along a line, at the people who walk on it; it does    *)
(* not turn.  Lengths, velocities and times are in the units of            *)
(* SafetySupervisor, so the motion of a period is exact.                   *)
(*                                                                         *)
(* The mock moves the robot within the step.  Gazebo runs by itself: the   *)
(* program publishes a command and then handles what messages come until   *)
(* the simulation has advanced by a period, and knows nothing else of the  *)
(* robot and the people.                                                   *)
(***************************************************************************)
EXTENDS SafetySupervisor, Sequences, FiniteSetsExt

CONSTANTS
    Setups,             \* the ways the environment is built and used
    RobotStart, Goal, ArrivalRadius,
    RobotRadius, HumanRadius,
    HitMargin,          \* added to the radius for an imminent hit
    PolicyDistance,     \* a person closer than this makes StraightToGoalPolicy slow
    Actions,            \* actions of a learned policy, in percent, or NaN
    MaxSteps,           \* max_steps
    MaxLatency,         \* action_latency of the domain randomization
    TrackingError,      \* bound, in percent, on how far the speed is off
    SettlePeriods,      \* the time reset spins, in periods
    Period,             \* of the movement of the people in Gazebo
    StackDepth,         \* frames a learned policy is given
    Episodes            \* episodes run

ASSUME EnvAssumption ==
    /\ \A setup \in Setups :
            /\ setup.backend \in {"mock", "gazebo"}
            /\ setup.policy \in {"straight", "stop", "rl"}
            /\ {setup.safe_filter, setup.dr} \subseteq BOOLEAN
            /\ setup.dr => setup.backend = "mock"
            /\ \A box \in setup.walls : {box[1], box[2]} \subseteq Int
    /\ Actions \subseteq Int \union {NaN}
    /\ RobotStart \in Int /\ Goal \in Int
    /\ {ArrivalRadius, RobotRadius, HumanRadius, HitMargin, PolicyDistance, MaxSteps,
        MaxLatency, TrackingError, SettlePeriods, Period, StackDepth, Episodes} \subseteq Nat
    /\ MaxSteps > 0 /\ StackDepth > 0 /\ Period > 0
    /\ MinLinVel = 0

VARIABLES
    setup,          \* the arguments of SocialNavEnv and the scene it is used in
    phase,          \* where run_episode is
    episode,        \* number of the episode
    (***********************************************************************)
    (* SocialNavEnv and Randomizer                                         *)
    (***********************************************************************)
    steps,          \* _steps
    prev_v,         \* _prev_v
    prev_goal_dist, \* _prev_goal_dist
    kind,           \* kind of the last decision
    latency,        \* latency of this episode
    buf,            \* the commands that are not yet old enough, oldest first
    (***********************************************************************)
    (* The backend                                                         *)
    (***********************************************************************)
    robot,          \* robot: position and velocity
    odom,           \* _odom; its stamp is the episode it was sent in
    humans,         \* _humans_now(): position and velocity of everybody, as last known
    scan_min,       \* _scan_min
    wait,           \* periods _spin still waits for
    (***********************************************************************)
    (* The world: time, and the robot in Gazebo with the command it keeps  *)
    (***********************************************************************)
    clock, real,
    teleport,       \* the last teleport: "none" in force, "pending" or "answered"
    (***********************************************************************)
    (* run_episode and the policy                                          *)
    (***********************************************************************)
    path_length, straight_dist,
    prev_x,         \* the position after the last step
    outcome,
    frames,         \* the frames of the stacker, newest last: episode and step
    need_reset,
    (***********************************************************************)
    (* History: successive emergency stops                                 *)
    (***********************************************************************)
    stops

envVars    == <<steps, prev_v, prev_goal_dist, kind, latency, buf>>
msgVars    == <<odom, humans, scan_min>>
worldVars  == <<clock, real, teleport>>
driverVars == <<path_length, straight_dist, prev_x, outcome, frames, need_reset>>
vars == <<setup, phase, episode, envVars, robot, msgVars, wait, worldVars, driverVars,
          stops>>

None    == -1
Far     == BigTtc
NoFrame == <<0, 0>>
Contact == RobotRadius + HumanRadius

P == INSTANCE PedestrianModel WITH SpawnPoints <- {}

InMock == setup.backend = "mock"

-----------------------------------------------------------------------------
(***************************************************************************)
(* The people, the obstacles and what the backends know of them            *)
(***************************************************************************)

\* Position and velocity of everybody in a crowd at a time; they walk on the line.
PeopleAt(crowd, time) ==
    [i \in DOMAIN crowd |->
        LET pose == P!PoseAtTime(crowd[i], time)
        IN  [x |-> pose.p[1], v |-> pose.v[1]]]

\* A crowd is a sequence, and a pose on a route of whole units is one of whole units.
ASSUME CrowdAssumption ==
    \A s \in Setups :
        /\ DOMAIN s.crowd = 1..Len(s.crowd)
        /\ \A time \in 0..Greatest(Period, MaxSteps) : \A i \in DOMAIN s.crowd :
                PeopleAt(s.crowd, time)[i] \in [x : Int, v : Int]

Distances(people, x) == {AbsVal(people[i].x - x) : i \in DOMAIN people}

\* min of _clearances, None when there is nobody
MinClearance(x) == IF humans = <<>> THEN None ELSE Min(Distances(humans, x))

InBox(x, box, radius) == box[1] - radius <= x /\ x <= box[2] + radius

\* obstacle_hit: the boxes in the mock, the last scan in Gazebo
ObstacleHit(x, radius) ==
    IF InMock THEN \E box \in setup.walls : InBox(x, box, radius) ELSE scan_min < radius

\* The shortest range of a scan taken at x: people return it too.
ScanAt(x) ==
    LET people == {Greatest(0, d - HumanRadius) : d \in Distances(PeopleAt(setup.crowd, clock), x)}
        walls  == {IF InBox(x, box, 0) THEN 0 ELSE Least(AbsVal(box[1] - x), AbsVal(box[2] - x)) :
                        box \in setup.walls}
    IN  Min(people \union walls \union {Far})

GoalDist(x) == AbsVal(Goal - x)

-----------------------------------------------------------------------------
(***************************************************************************)
(* The policies                                                            *)
(***************************************************************************)

\* StraightToGoalPolicy.act: an empty slot of the observation has distance 0.
StraightToGoal(x, near_dist) ==
    LET v == IF x <= Goal THEN 100 ELSE 10
    IN  IF 0 < near_dist /\ near_dist < PolicyDistance THEN Least(v, 20) ELSE v

PolicyActions ==
    CASE setup.policy = "stop"     -> {-100}
      [] setup.policy = "straight" ->
            {StraightToGoal(robot.x, Greatest(0, MinClearance(robot.x)))}
      [] setup.policy = "rl"       -> Actions

\* FrameStacker.reset and push, as the wrapper of load_rl_policy calls them
Stacked(frame) ==
    IF need_reset
    THEN [i \in 1..StackDepth |-> IF i = StackDepth THEN frame ELSE NoFrame]
    ELSE Append(Tail(frames), frame)

-----------------------------------------------------------------------------
Init ==
    /\ setup \in Setups
    /\ phase = "reset" /\ episode = 0
    /\ steps = 0 /\ prev_v = 0 /\ prev_goal_dist = 0 /\ kind = "none"
    /\ latency = 0 /\ buf = <<>>
    /\ robot = [x |-> 0, v |-> 0]
    /\ odom = [x |-> 0, v |-> 0, stamp |-> None] /\ humans = <<>> /\ scan_min = Far
    /\ wait = 0
    /\ clock = 0 /\ real = [x |-> RobotStart, v |-> 0] /\ teleport = "none"
    /\ path_length = 0 /\ straight_dist = 0 /\ prev_x = 0 /\ outcome = "none"
    /\ frames = [i \in 1..StackDepth |-> NoFrame] /\ need_reset = TRUE
    /\ stops = 0

(***************************************************************************)
(* reset.  After the backend's, run_episode starts its counts and resets   *)
(* the policy.                                                             *)
(***************************************************************************)

\* Mutant: the policy is not told that an episode begins.
PolicyResetForgotten == need_reset

PolicyReset == TRUE

\* reset of the environment, which leaves the robot at r
EnvReset(r) ==
    /\ robot'          = r
    /\ steps'          = 0
    /\ prev_v'         = 0
    /\ kind'           = "none"
    /\ prev_goal_dist' = GoalDist(r.x)

\* The beginning of run_episode
BeginEpisode(r) ==
    /\ EnvReset(r)
    /\ straight_dist'  = GoalDist(r.x)
    /\ path_length'    = 0
    /\ prev_x'         = r.x
    /\ stops'          = 0
    /\ outcome'        = "none"
    /\ need_reset'     = PolicyReset
    /\ phase'          = "act"

\* reset_episode: what it may draw for the latency
Latencies == 0..(IF setup.dr THEN MaxLatency ELSE 0)

ResetMock ==
    /\ phase = "reset" /\ InMock
    /\ episode < Episodes
    /\ episode' = episode + 1
    /\ latency' \in Latencies
    /\ buf'     = <<>>
    /\ clock'   = 0
    /\ humans'  = PeopleAt(setup.crowd, 0)
    /\ BeginEpisode([x |-> RobotStart, v |-> 0])
    /\ UNCHANGED <<setup, odom, scan_min, wait, real, teleport, frames>>

\* _teleport: it is answered in time; or it is not, and may be carried out later; or the
\* service is not there.  In every case the program goes on.
ResetGazebo ==
    /\ phase = "reset" /\ ~ InMock
    /\ episode < Episodes
    /\ episode' = episode + 1
    /\ \/ teleport' = "answered" /\ real' = [real EXCEPT !.x = RobotStart]
       \/ teleport' = "pending"  /\ real' = real
       \/ teleport' = (IF teleport = "pending" THEN "pending" ELSE "none") /\ real' = real
    /\ wait'  = SettlePeriods
    /\ phase' = "settle"
    /\ UNCHANGED <<setup, envVars, robot, msgVars, clock, driverVars, stops>>

\* _sync_robot
Synced == IF odom.stamp = None THEN robot ELSE [x |-> odom.x, v |-> odom.v]

\* Mutant: reset does not look at the odometry that has come.
AfterSettlingUnsynced == robot

AfterSettling == Synced

Settled ==
    /\ phase = "settle" /\ wait = 0
    /\ BeginEpisode(AfterSettling)
    /\ UNCHANGED <<setup, episode, latency, buf, msgVars, wait, worldVars, frames>>

-----------------------------------------------------------------------------
(***************************************************************************)
(* step: the command                                                       *)
(***************************************************************************)

\* _risk_signals, with what else the supervisor is given; the age of the humans and
\* the validity of the prediction are passed by nobody.
RiskSignals ==
    LET ttcs == {TimeToCollision(humans[i].x - robot.x, humans[i].v - robot.v, Contact) :
                    i \in DOMAIN humans}
    IN  [prev_v |-> prev_v, prev_w |-> 0, min_ttc |-> Min(ttcs \union {BigTtc}),
         min_clearance |-> MinClearance(robot.x),
         obstacle_imminent |-> ObstacleHit(robot.x, RobotRadius + HitMargin),
         stale |-> FALSE, prediction_valid |-> TRUE]

Command(action) == Denormalize(<<action, 0>>, prev_v, 0)

\* What the actions of the policy may become
Decisions ==
    LET commands == {Command(action) : action \in PolicyActions}
    IN  IF setup.safe_filter
        THEN {Filter(cmd, s) : cmd \in commands, s \in {RiskSignals}}
        ELSE {Decision(cmd, "off") : cmd \in commands}

\* Mutant: the delay line keeps one command too many.
DelayedTooLong(v) ==
    SubSeq(Append(buf, v), Greatest(1, Len(buf) - latency), Len(buf) + 1)

\* The commands delay_action may still look at; the first one is executed.
Delayed(v) ==
    SubSeq(Append(buf, v), Greatest(1, Len(buf) + 1 - latency), Len(buf) + 1)

\* Speeds at which a drive base executes a command
Tracked(v) ==
    IF setup.dr THEN {n \in 0..(2 * MaxLinVel) : 100 * AbsVal(n - v) <= TrackingError * v}
    ELSE {v}

\* step of the mock, after delay_action: the robot and the people have moved.
MockStep(v) ==
    /\ buf' = Delayed(v)
    /\ \E executed \in Tracked(buf'[1]) :
            robot' = [x |-> robot.x + executed, v |-> executed]
    /\ clock'  = clock + 1
    /\ humans' = PeopleAt(setup.crowd, clock + 1)
    /\ UNCHANGED <<wait, real>>

\* step in Gazebo, up to its spin: the command is published and kept.
GazeboStep(v) ==
    /\ real' = [real EXCEPT !.v = v]
    /\ wait' = 1
    /\ UNCHANGED <<buf, robot, clock, humans>>

\* step, up to and including the backend's
Act ==
    /\ phase = "act"
    /\ \E decided \in Decisions :
        /\ prev_v' = decided.v
        /\ kind'   = decided.kind
        /\ stops'  = IF decided.kind # "emergency_stop" THEN 0 ELSE Least(stops + 1, MaxLatency + 1)
        /\ IF InMock THEN MockStep(decided.v) ELSE GazeboStep(decided.v)
    /\ frames'     = Stacked(<<episode, steps>>)
    /\ need_reset' = FALSE
    /\ phase'      = "spin"
    /\ UNCHANGED <<setup, episode, steps, prev_goal_dist, latency, odom, scan_min, teleport,
                   path_length, straight_dist, prev_x, outcome>>

-----------------------------------------------------------------------------
(***************************************************************************)
(* step: the events, and what run_episode makes of them                    *)
(***************************************************************************)

HumanHit(x) ==
    LET clearance == MinClearance(x)
    IN  clearance # None /\ clearance < Contact

\* _transition: the events of a step that ends at x
Transition(x) ==
    [reached         |-> GoalDist(x) < ArrivalRadius,
     human_collision |-> HumanHit(x),
     collision       |-> ObstacleHit(x, RobotRadius)]

EndStep ==
    LET r      == IF InMock THEN robot ELSE Synced
        events == Transition(r.x)
        hit    == events.human_collision \/ events.collision
        done   == events.reached \/ hit \/ steps + 1 >= MaxSteps
    IN  /\ phase = "spin" /\ wait = 0
        /\ robot'          = r
        /\ steps'          = steps + 1
        /\ prev_goal_dist' = GoalDist(r.x)
        /\ path_length'    = path_length + AbsVal(r.x - prev_x)
        /\ prev_x'         = r.x
        /\ outcome' = IF ~ done THEN "none"
                      ELSE IF hit THEN "collision" ELSE IF events.reached THEN "reached" ELSE "timeout"
        /\ phase'   = IF done THEN "reset" ELSE "act"
        /\ UNCHANGED <<setup, episode, prev_v, kind, latency, buf, msgVars, wait, worldVars,
                       straight_dist, frames, need_reset, stops>>

-----------------------------------------------------------------------------
(***************************************************************************)
(* Gazebo, while the program spins: time passes and messages come          *)
(***************************************************************************)

Spinning == phase \in {"settle", "spin"} /\ ~ InMock

\* Mutant: the end of the wait is computed anew whenever time has passed.
WaitFromNow == wait

\* What is left of the wait when a period has passed
WaitLeft == wait - 1

SimulationAdvances ==
    /\ Spinning /\ wait > 0
    /\ wait'  = WaitLeft
    /\ clock' = (clock + 1) % Period
    /\ real'  = [real EXCEPT !.x = @ + real.v]
    /\ UNCHANGED <<setup, phase, episode, envVars, robot, msgVars, teleport, driverVars,
                   stops>>

\* A teleport the program no longer waits for; the robot keeps its velocity.
TeleportLate ==
    /\ Spinning /\ teleport = "pending"
    /\ real'     = [real EXCEPT !.x = RobotStart]
    /\ teleport' = "none"
    /\ UNCHANGED <<setup, phase, episode, envVars, robot, msgVars, wait, clock, driverVars,
                   stops>>

OdomArrives ==
    /\ Spinning
    /\ odom' = [x |-> real.x, v |-> AbsVal(real.v), stamp |-> episode]
    /\ UNCHANGED <<setup, phase, episode, envVars, robot, humans, scan_min, wait, worldVars,
                   driverVars, stops>>

HumansArrive ==
    /\ Spinning
    /\ humans' = PeopleAt(setup.crowd, clock)
    /\ UNCHANGED <<setup, phase, episode, envVars, robot, odom, scan_min, wait, worldVars,
                   driverVars, stops>>

ScanArrives ==
    /\ Spinning
    /\ scan_min' = ScanAt(real.x)
    /\ UNCHANGED <<setup, phase, episode, envVars, robot, odom, humans, wait, worldVars,
                   driverVars, stops>>

-----------------------------------------------------------------------------
Program == ResetMock \/ ResetGazebo \/ Settled \/ Act \/ EndStep

Next ==
    Program \/ SimulationAdvances \/ TeleportLate \/ OdomArrives \/ HumansArrive \/ ScanArrives

Spec == Init /\ [][Next]_vars

(***************************************************************************)
(* The program runs, and so does the simulation it waits for: Gazebo is    *)
(* neither paused nor gone.  Nothing is assumed of the messages.           *)
(***************************************************************************)
FairSpec == Spec /\ WF_vars(Program) /\ WF_vars(SimulationAdvances)
-----------------------------------------------------------------------------
(***************************************************************************)
(* Properties                                                              *)
(***************************************************************************)

\* Between two steps, with the robot where the program believes it to be
Rests == phase = "act" \/ (phase = "reset" /\ episode > 0)

TypeOK ==
    /\ setup \in Setups
    /\ phase \in {"reset", "settle", "act", "spin"} /\ episode \in 0..Episodes
    /\ steps \in 0..MaxSteps /\ prev_v \in 0..MaxLinVel
    /\ kind \in {"none", "off", "slow", "emergency_stop"}
    /\ latency \in 0..MaxLatency /\ Len(buf) <= latency + 1
    /\ \A i \in DOMAIN buf : buf[i] \in 0..MaxLinVel
    /\ {robot.x, odom.x, real.x, prev_x} \subseteq Int
    /\ {robot.v, odom.v, real.v} \subseteq 0..(2 * MaxLinVel)
    /\ odom.stamp \in None..Episodes /\ DOMAIN humans \in {{}, DOMAIN setup.crowd}
    /\ scan_min \in Nat
    /\ wait \in 0..Greatest(1, SettlePeriods) /\ clock \in 0..Greatest(Period, MaxSteps)
    /\ teleport \in {"none", "pending", "answered"} /\ need_reset \in BOOLEAN
    /\ {path_length, straight_dist, prev_goal_dist} \subseteq Nat
    /\ outcome \in {"none", "reached", "collision", "timeout"}
    /\ DOMAIN frames = 1..StackDepth /\ stops \in 0..(MaxLatency + 1)

\* Nobody of the crowd walks during an episode.
EverybodyStands ==
    \A time \in 0..Greatest(Period, MaxSteps) : \A i \in DOMAIN setup.crowd :
        /\ PeopleAt(setup.crowd, time)[i] = PeopleAt(setup.crowd, 0)[i]
        /\ PeopleAt(setup.crowd, 0)[i].v = 0

\* In the mock the supervised robot, when it touches somebody who stands in its way, does
\* so at no more than the speed of one period's acceleration from rest: it was stopped in
\* time, though it may creep up again.
CreepsAtWorst ==
    (InMock /\ setup.safe_filter /\ ~ setup.dr /\ Rests /\ HumanHit(robot.x)
        /\ EverybodyStands)
        => robot.v <= MaxLinAccel

\* In the mock the supervised robot drives into no obstacle: the margin of the imminent
\* hit is wider than what it drives in one period.
WallNeverHit ==
    (InMock /\ setup.safe_filter /\ ~ setup.dr /\ HitMargin >= MaxLinVel)
        => ~ ObstacleHit(robot.x, RobotRadius)

\* With domain randomization an emergency stop that lasts reaches the drive base after
\* the latency of the episode: no command from before the stop is executed any more.
StopReachesRobot ==
    (InMock /\ stops > latency) => robot.v = 0

\* The frames a learned policy is given are those of this episode, the newest last,
\* consecutive, with empty ones only before the first.
FramesOfThisEpisode ==
    phase = "spin" =>
        \A i \in 1..StackDepth :
            LET step == steps - (StackDepth - i)
            IN  frames[i] = IF step >= 0 THEN <<episode, step>> ELSE NoFrame

\* In Gazebo, when the teleport was answered and odometry has come since, the episode
\* begins with the robot at the start but for what the last command, which nobody
\* cancels, makes it drive while reset waits.
StartsWhereTold ==
    (phase = "act" /\ steps = 0 /\ ~ InMock /\ teleport = "answered" /\ odom.stamp = episode)
        => robot.x \in RobotStart..(RobotStart + SettlePeriods * MaxLinVel)

\* Every episode that begins ends with an outcome.
EpisodesEnd == phase \in {"settle", "act", "spin"} ~> phase = "reset"

\* safety.py, "Every candidate (v, w) passes through here and is
\* rejected/modified/braked/stopped when it would be unsafe": the supervised robot does
\* not drive into somebody who stands still.
NobodyRunInto ==
    (InMock /\ setup.safe_filter /\ ~ setup.dr /\ Rests) => ~ HumanHit(robot.x)
=============================================================================
