------------------------ MODULE SocialNavController ------------------------
(***************************************************************************)
(* The Nav2 controller plugin (social_nav_controller.cpp) as two threads   *)
(* that share its members.  The controller thread runs one planning cycle  *)
(* after another (computeVelocityCommands); the executor thread of the     *)
(* node runs, one at a time, the callback of the humans topic,             *)
(* setSpeedLimit and the lifecycle transitions.  Only latest_humans_ is    *)
(* protected by a mutex; the two members of the speed limit are not, and   *)
(* are read and written as separate steps here.                            *)
(*                                                                         *)
(* Speeds are integers in cm/s, turn rates in hundredths of rad/s, the     *)
(* clock counts periods of the human feed.                                 *)
(***************************************************************************)
EXTENDS BehaviorModes, Sequences

CONSTANTS
    max_linear_vel,
    max_angular_vel,
    human_timeout,      \* in clock periods
    \* What the environment may do
    DesiredSpeeds,      \* what pure pursuit asks for, before the limit
    TurnRates,          \* what pure pursuit asks for
    VFactors,           \* v_factors, in tenths
    WOffsets,           \* w_offsets
    Limits,             \* pairs <<speed_limit, percentage>> Nav2 may set
    HumanCounts,        \* how many humans a message may list
    Clearances,         \* clearance of the nearest human in a cycle
    Ttcs,               \* time to the first closest approach in a cycle
    \* Bounds
    QueueDepth,         \* history depth of the subscription
    MaxTime,            \* the last period of the clock
    \* A value that is no number: nothing is loaded
    NotRead

ASSUME ControllerAssumption ==
    /\ max_linear_vel \in Nat \ {0}
    /\ max_angular_vel \in Nat \ {0}
    /\ human_timeout \in Nat
    /\ DesiredSpeeds \subseteq Nat
    /\ TurnRates \subseteq Int
    /\ VFactors \subseteq 0..10
    /\ WOffsets \subseteq Int
    /\ Limits \subseteq Int \X BOOLEAN
    /\ HumanCounts \subseteq Nat
    /\ Clearances \subseteq Nat
    /\ Ttcs \subseteq Nat
    /\ QueueDepth \in Nat \ {0}
    /\ MaxTime \in Nat
    /\ NotRead \notin Int

VARIABLES
    now,                        \* node_->now()
    channel,                    \* messages of the humans topic on their way
    \* members of the plugin
    lifecycle,                  \* which transitions Nav2 has made
    has_plan,                   \* global_plan_.poses is not empty
    latest_humans_,
    humans_mutex_,              \* who holds it
    current_mode_,
    last_humans_stale_,
    speed_limit_,
    speed_limit_is_percentage_,
    \* the executor thread
    executor,                   \* what it is in the middle of
    arriving,                   \* the message of the callback it is in
    new_percentage,             \* the argument of the setSpeedLimit it is in
    \* the controller thread, inside computeVelocityCommands
    pc,
    limit_read,                 \* speed_limit_, loaded but not yet applied
    v, omega,                   \* the command as far as it is computed
    used,                       \* the snapshot of currentHumans()
    seen,                       \* the mode inputs of the last full cycle
    cmd, status,                \* what the last cycle returned and published
    \* history
    limit_raced                 \* a limit was written since the last clamp

humansVars == <<latest_humans_, humans_mutex_>>
modeVars   == <<current_mode_, last_humans_stale_>>
limitVars  == <<speed_limit_, speed_limit_is_percentage_>>
threadVars == <<executor, arriving, new_percentage>>
returnVars == <<limit_read, v, omega, used, cmd, status>>

\* What neither thread's step on one member touches
plugin == <<lifecycle, has_plan, humansVars, modeVars, limitVars>>
cycle  == <<pc, seen, returnVars>>
vars   == <<now, channel, plugin, threadVars, cycle, limit_raced>>

-----------------------------------------------------------------------------

(***************************************************************************)
(* Messages.  `at' is the period the humans were seen in; it equals the    *)
(* header stamp of every message sent, and tells a torn copy from a real   *)
(* one.  `finite' of the `listed' humans have no NaN or Inf.               *)
(***************************************************************************)
FiniteCounts == {0} \cup UNION {0..k : k \in HumanCounts}

Humans  == [at : Nat, listed : Nat, finite : FiniteCounts]
Message == [stamp : Nat, humans : Humans]

NobodyAt(t) == [stamp |-> t, humans |-> [at |-> t, listed |-> 0, finite |-> 0]]

\* What currentHumans() hands to the cycle: how many humans, seen when, and
\* the time of the snapshot
Snapshot == [count : FiniteCounts, at : Nat, taken : Nat]
NoSnapshot == [count |-> 0, at |-> 0, taken |-> 0]

Halt == [v |-> 0, omega |-> 0]
Commands ==
    [v : 0..max_linear_vel, omega : -max_angular_vel..max_angular_vel]

\* The mode inputs a cycle may compute from n finite humans
SituationsOf(n) ==
    IF n = 0 THEN {NoHumans}
    ELSE [num_humans : {n}, min_human_clearance : Clearances,
          min_ttc : Ttcs \cup {Unbounded}]

Clamp(x, low, high) ==
    IF x < low THEN low ELSE IF x > high THEN high ELSE x

ClampTurn(w) == Clamp(w, -max_angular_vel, max_angular_vel)

\* effectiveMaxSpeed(), from the values its two loads return
EffectiveMaxSpeed(limit, percentage) ==
    IF limit <= 0 THEN max_linear_vel
    ELSE Clamp(IF percentage THEN (max_linear_vel * limit) \div 100 ELSE limit,
               0, max_linear_vel)

-----------------------------------------------------------------------------

Init ==
    /\ now = 0
    /\ channel = << >>
    /\ lifecycle = "unconfigured"
    /\ has_plan = FALSE
    /\ latest_humans_ = NobodyAt(0)
    /\ humans_mutex_ = "free"
    /\ current_mode_ = kNormal
    /\ last_humans_stale_ = FALSE
    /\ speed_limit_ = 0
    /\ speed_limit_is_percentage_ = FALSE
    /\ executor = "idle"
    /\ arriving = NobodyAt(0)
    /\ new_percentage = FALSE
    /\ pc = "idle"
    /\ limit_read = NotRead
    /\ v = 0
    /\ omega = 0
    /\ used = NoSnapshot
    /\ seen = NoHumans
    /\ cmd = Halt
    /\ status = "none"
    /\ limit_raced = FALSE

-----------------------------------------------------------------------------
(***************************************************************************)
(* The environment: the clock and the publisher of the humans.             *)
(***************************************************************************)

Tick ==
    /\ now < MaxTime
    /\ now' = now + 1
    /\ UNCHANGED <<channel, plugin, threadVars, cycle, limit_raced>>

\* The stamp of the last message sent
NewestStamp ==
    IF channel # << >> THEN channel[Len(channel)].stamp
    ELSE IF executor = "humans" THEN arriving.stamp
    ELSE latest_humans_.stamp

\* One message per period; a full queue loses its oldest
PublishHumans ==
    /\ now > NewestStamp
    /\ \E listed \in HumanCounts : \E finite \in 0..listed :
         LET msg == [stamp  |-> now,
                     humans |-> [at |-> now, listed |-> listed, finite |-> finite]]
         IN  channel' = IF Len(channel) < QueueDepth THEN Append(channel, msg)
                        ELSE Append(Tail(channel), msg)
    /\ UNCHANGED <<now, plugin, threadVars, cycle, limit_raced>>

-----------------------------------------------------------------------------
(***************************************************************************)
(* The executor thread.                                                    *)
(***************************************************************************)

Configure ==
    /\ lifecycle = "unconfigured"
    /\ executor = "idle"
    /\ lifecycle' = "inactive"
    /\ UNCHANGED <<now, channel, has_plan, humansVars, modeVars, limitVars,
                   threadVars, cycle, limit_raced>>

Activate ==
    /\ lifecycle = "inactive"
    /\ executor = "idle"
    /\ lifecycle' = "active"
    /\ UNCHANGED <<now, channel, has_plan, humansVars, modeVars, limitVars,
                   threadVars, cycle, limit_raced>>

\* Nav2 ends the running goal before it deactivates the plugin
Deactivate ==
    /\ lifecycle = "active"
    /\ executor = "idle"
    /\ pc = "idle"
    /\ lifecycle' = "inactive"
    /\ UNCHANGED <<now, channel, has_plan, humansVars, modeVars, limitVars,
                   threadVars, cycle, limit_raced>>

\* cleanup() drops the publishers and the subscription, with what is queued
\* for it; every other member keeps its value
Cleanup ==
    /\ lifecycle = "inactive"
    /\ executor = "idle"
    /\ lifecycle' = "unconfigured"
    /\ channel' = << >>
    /\ UNCHANGED <<now, has_plan, humansVars, modeVars, limitVars, threadVars,
                   cycle, limit_raced>>

\* Mutant: nobody waits for the mutex
MutexIgnored == TRUE

\* std::lock_guard gets humans_mutex_
MutexFree == humans_mutex_ = "free"

\* The humans callback, up to the middle of its assignment: it holds the mutex
\* and has copied the header
HumansCallbackBegin ==
    /\ lifecycle # "unconfigured"
    /\ executor = "idle"
    /\ channel # << >>
    /\ MutexFree
    /\ humans_mutex_' = "callback"
    /\ latest_humans_' = [latest_humans_ EXCEPT !.stamp = Head(channel).stamp]
    /\ executor' = "humans"
    /\ arriving' = Head(channel)
    /\ channel' = Tail(channel)
    /\ UNCHANGED <<now, lifecycle, has_plan, modeVars, limitVars, new_percentage,
                   cycle, limit_raced>>

\* Mutant: the mutex is locked by hand, and not unlocked
HumansCallbackEndHolding ==
    /\ executor = "humans"
    /\ latest_humans_' = [latest_humans_ EXCEPT !.humans = arriving.humans]
    /\ executor' = "idle"
    /\ arriving' = NobodyAt(0)
    /\ UNCHANGED <<now, channel, lifecycle, has_plan, humans_mutex_, modeVars,
                   limitVars, new_percentage, cycle, limit_raced>>

\* The rest of it: the list of humans, and the lock guard's destructor
HumansCallbackEnd ==
    /\ executor = "humans"
    /\ latest_humans_' = [latest_humans_ EXCEPT !.humans = arriving.humans]
    /\ humans_mutex_' = "free"
    /\ executor' = "idle"
    /\ arriving' = NobodyAt(0)
    /\ UNCHANGED <<now, channel, lifecycle, has_plan, modeVars, limitVars,
                   new_percentage, cycle, limit_raced>>

\* setSpeedLimit: its two assignments, with no lock around them
SetSpeedLimitBegin ==
    /\ lifecycle # "unconfigured"
    /\ executor = "idle"
    /\ \E limit \in Limits :
         /\ speed_limit_' = limit[1]
         /\ new_percentage' = limit[2]
    /\ executor' = "limit"
    /\ limit_raced' = TRUE
    /\ UNCHANGED <<now, channel, lifecycle, has_plan, humansVars, modeVars,
                   speed_limit_is_percentage_, arriving, cycle>>

SetSpeedLimitEnd ==
    /\ executor = "limit"
    /\ speed_limit_is_percentage_' = new_percentage
    /\ executor' = "idle"
    /\ new_percentage' = FALSE
    /\ limit_raced' = TRUE
    /\ UNCHANGED <<now, channel, lifecycle, has_plan, humansVars, modeVars,
                   speed_limit_, arriving, cycle>>

-----------------------------------------------------------------------------
(***************************************************************************)
(* The controller thread: setPlan between cycles, and the cycle itself.    *)
(***************************************************************************)

SetPlan ==
    /\ lifecycle = "active"
    /\ pc = "idle"
    /\ has_plan' \in BOOLEAN
    /\ UNCHANGED <<now, channel, lifecycle, humansVars, modeVars, limitVars,
                   threadVars, cycle, limit_raced>>

\* The cycle returns a command and publishes a status
Return(c, s) ==
    /\ pc' = "idle"
    /\ cmd' = c
    /\ status' = s
    /\ limit_read' = NotRead
    /\ v' = 0
    /\ omega' = 0
    /\ used' = NoSnapshot

\* An empty plan ends the cycle with a halt; a plan with a point in it always
\* has a carrot, so that early return needs no step of its own
StartCycle ==
    /\ lifecycle = "active"
    /\ pc = "idle"
    /\ IF has_plan
       THEN pc' = "pursue" /\ UNCHANGED returnVars
       ELSE Return(Halt, "EMPTY_PLAN")
    /\ UNCHANGED <<now, channel, plugin, threadVars, seen, limit_raced>>

\* The first load of effectiveMaxSpeed(), wherever the cycle calls it
ReadSpeedLimit ==
    /\ pc \in {"pursue", "sample", "command"}
    /\ limit_read = NotRead
    /\ limit_read' = speed_limit_
    /\ limit_raced' = IF pc = "command" THEN executor = "limit"
                      ELSE limit_raced
    /\ UNCHANGED <<now, channel, plugin, threadVars, pc, v, omega, used, seen,
                   cmd, status>>

\* The second load, and what the limit comes out as
ReadCap == EffectiveMaxSpeed(limit_read, speed_limit_is_percentage_)

\* Mutant: the speed that pure pursuit asks for is not clamped
PursueUnclamped ==
    /\ pc = "pursue"
    /\ limit_read # NotRead
    /\ v' \in DesiredSpeeds
    /\ \E w \in TurnRates : omega' = ClampTurn(w)
    /\ limit_read' = NotRead
    /\ pc' = "sample"
    /\ UNCHANGED <<now, channel, plugin, threadVars, used, seen, cmd, status,
                   limit_raced>>

\* Step 1: pure pursuit, or a turn in place when the carrot is off the heading
Pursue ==
    /\ pc = "pursue"
    /\ \/ /\ limit_read = NotRead
          /\ v' = 0
          /\ \E w \in TurnRates : omega' = ClampTurn(w)
          /\ UNCHANGED limit_read
       \/ /\ limit_read # NotRead
          /\ \E desired \in DesiredSpeeds : v' = Clamp(desired, 0, ReadCap)
          /\ \E w \in TurnRates : omega' = IF v' = 0 THEN 0 ELSE ClampTurn(w)
          /\ limit_read' = NotRead
    /\ pc' = "sample"
    /\ UNCHANGED <<now, channel, plugin, threadVars, used, seen, cmd, status,
                   limit_raced>>

\* Step 2: the candidates around it, of which this is the one step 4 will pick;
\* which one is picked is up to the humans and the costmap
Sample ==
    /\ pc = "sample"
    /\ limit_read # NotRead
    /\ \E vf \in VFactors, wo \in WOffsets :
         /\ v' = Clamp((v * vf) \div 10, 0, ReadCap)
         /\ omega' = ClampTurn(omega + wo)
    /\ limit_read' = NotRead
    /\ pc' = "humans"
    /\ UNCHANGED <<now, channel, plugin, threadVars, used, seen, cmd, status,
                   limit_raced>>

\* Mutant: the age is not checked
StaleNever == FALSE

\* A list that is empty is not checked for its age
Stale ==
    /\ latest_humans_.humans.listed > 0
    /\ now - latest_humans_.stamp > human_timeout

\* Step 3: currentHumans()
CurrentHumans ==
    LET humans == latest_humans_.humans
    IN  /\ pc = "humans"
        /\ MutexFree
        /\ last_humans_stale_' = Stale
        /\ used' = IF Stale \/ humans.listed = 0 THEN NoSnapshot
                   ELSE [count |-> humans.finite, at |-> humans.at, taken |-> now]
        /\ pc' = "score"
        /\ UNCHANGED <<now, channel, lifecycle, has_plan, humansVars,
                       current_mode_, limitVars, threadVars, limit_read, v, omega,
                       seen, cmd, status, limit_raced>>

\* Step 4: every candidate is rolled out and checked against the costmap
SelectCandidate ==
    /\ pc = "score"
    /\ \/ Return(Halt, "NO_VALID_TRAJECTORY")
       \/ pc' = "command" /\ UNCHANGED returnVars
    /\ UNCHANGED <<now, channel, plugin, threadVars, seen, limit_raced>>

\* Mutant: the command is not clamped to the limit once more
ScaledCommandUnclamped(mode) ==
    [v     |-> (v * ModeSpeedScale(mode)) \div 10,
     omega |-> ClampTurn(IF mode = kEmergency THEN 0 ELSE omega)]

\* Mutant: an emergency stops the driving only
ScaledCommandTurning(mode) ==
    [v     |-> Clamp((v * ModeSpeedScale(mode)) \div 10, 0, ReadCap),
     omega |-> ClampTurn(omega)]

\* The selected command in this mode: scaled, no turn in an emergency, clamped
ScaledCommand(mode) ==
    [v     |-> Clamp((v * ModeSpeedScale(mode)) \div 10, 0, ReadCap),
     omega |-> ClampTurn(IF mode = kEmergency THEN 0 ELSE omega)]

\* Step 5: the mode, the scaled and clamped command, and the status
Command ==
    /\ pc = "command"
    /\ limit_read # NotRead
    /\ \E in \in SituationsOf(used.count) :
         LET mode == NextMode(current_mode_, in)
         IN  /\ seen' = in
             /\ current_mode_' = mode
             /\ Return(ScaledCommand(mode),
                       IF mode = kEmergency THEN "EMERGENCY_STOP"
                       ELSE IF last_humans_stale_ THEN "STALE_HUMAN_DATA" ELSE "OK")
    /\ limit_raced' = (limit_raced \/ executor = "limit")
    /\ UNCHANGED <<now, channel, lifecycle, has_plan, humansVars,
                   last_humans_stale_, limitVars, threadVars>>

-----------------------------------------------------------------------------

ControllerThread ==
    \/ StartCycle
    \/ ReadSpeedLimit
    \/ Pursue
    \/ Sample
    \/ CurrentHumans
    \/ SelectCandidate
    \/ Command

ExecutorThread ==
    \/ Configure
    \/ Activate
    \/ Deactivate
    \/ Cleanup
    \/ HumansCallbackBegin
    \/ HumansCallbackEnd
    \/ SetSpeedLimitBegin
    \/ SetSpeedLimitEnd

Next ==
    \/ Tick
    \/ PublishHumans
    \/ SetPlan
    \/ ControllerThread
    \/ ExecutorThread

(***************************************************************************)
(* Fairness: Nav2 runs the cycle it has started, the executor ends the     *)
(* callback it is in and takes the messages that wait, the clock goes on.  *)
(* Nothing is assumed of the publisher, of Nav2's calls, of the lifecycle  *)
(* or of the outcome of a cycle.                                           *)
(***************************************************************************)
Fairness ==
    /\ WF_vars(Tick)
    /\ WF_vars(ControllerThread /\ pc # "idle")
    /\ WF_vars(HumansCallbackEnd)
    /\ WF_vars(SetSpeedLimitEnd)

Spec     == Init /\ [][Next]_vars
FairSpec == Spec /\ Fairness

-----------------------------------------------------------------------------

TypeOK ==
    /\ now \in 0..MaxTime
    /\ channel \in Seq(Message)
    /\ lifecycle \in {"unconfigured", "inactive", "active"}
    /\ has_plan \in BOOLEAN
    /\ latest_humans_ \in Message
    /\ humans_mutex_ \in {"free", "callback"}
    /\ current_mode_ \in BehaviorMode
    /\ last_humans_stale_ \in BOOLEAN
    /\ speed_limit_ \in Int
    /\ speed_limit_is_percentage_ \in BOOLEAN
    /\ executor \in {"idle", "humans", "limit"}
    /\ arriving \in Message
    /\ new_percentage \in BOOLEAN
    /\ pc \in {"idle", "pursue", "sample", "humans", "score", "command"}
    /\ limit_read \in Int \cup {NotRead}
    /\ v \in 0..max_linear_vel
    /\ omega \in -max_angular_vel..max_angular_vel
    /\ used \in Snapshot
    /\ seen \in ModeInputs
    /\ cmd \in Commands
    /\ status \in {"none", "EMPTY_PLAN", "NO_VALID_TRAJECTORY", "OK",
                   "STALE_HUMAN_DATA", "EMERGENCY_STOP"}
    /\ limit_raced \in BOOLEAN

(***************************************************************************)
(* Safety.                                                                 *)
(***************************************************************************)

\* The humans a cycle scores were seen no longer than human_timeout before
\* the cycle took them: the age is checked against the stamp of the very list
\* it uses, although the callback may be replacing both at that moment
\* (currentHumans and the callback under humans_mutex_).
HumansAreFresh ==
    used.count > 0 => used.taken - used.at <= human_timeout

\* If no setSpeedLimit overlaps the end of a cycle, the command it returned
\* respects the limit in force, although the limit was changed while the cycle
\* was pursuing, sampling or scoring (the last effectiveMaxSpeed() clamp).
LimitObeyed ==
    ~ limit_raced =>
        \/ pc = "command" /\ limit_read # NotRead
        \/ cmd.v <= EffectiveMaxSpeed(speed_limit_, speed_limit_is_percentage_)

\* Every situation a cycle may compute
Scenes == UNION {SituationsOf(n) : n \in FiniteCounts}

\* The plugin implements the contract of its mode and its commands: each
\* planning cycle, however the threads interleave, is one step of it or none.
Contract == INSTANCE ModeSupervisor WITH
    mode       <- current_mode_,
    Situations <- Scenes

ImplementsContract == Contract!Spec

(***************************************************************************)
(* Liveness.                                                               *)
(***************************************************************************)

\* A cycle that was started returns: nobody keeps humans_mutex_ for ever.
CycleCompletes == pc # "idle" ~> pc = "idle"

\* A feed that has died cannot hold the robot in EMERGENCY, or in any mode:
\* if the last message stays stale and cycles keep finding a safe trajectory,
\* the mode comes back to NORMAL for good (the age check of currentHumans, and
\* the mode inputs of an empty scene).
DeadFeedReleases ==
    /\ <>[](now - latest_humans_.stamp > human_timeout)
    /\ []<>(pc = "command")
    => <>[](current_mode_ = kNormal)
=============================================================================
