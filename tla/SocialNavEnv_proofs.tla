------------------------- MODULE SocialNavEnv_proofs -------------------------
(***************************************************************************)
(* Proofs about SocialNavEnv, for every crowd, corridor, configuration of  *)
(* the supervisor, latency and number of episodes: what the mapper and the *)
(* supervisor may put out, and from it the types and the safety properties *)
(* of the episodes.                                                        *)
(***************************************************************************)
EXTENDS SocialNavEnv, SequenceTheorems, WellFoundedInduction, TLAPS

-----------------------------------------------------------------------------
(***************************************************************************)
(* Arithmetic                                                              *)
(***************************************************************************)

\* The time to collision of who does not come closer
LEMMA BigTtcType == BigTtc \in Nat
BY DEF BigTtc

\* A set of naturals has a least element, which Min chooses.
LEMMA MinOfNaturals ==
    ASSUME NEW S, S \subseteq Nat, S # {}
    PROVE  Min(S) \in S /\ \A x \in S : Min(S) <= x
<1>1. PICK x \in S : \A y \in S : ~ (<<y, x>> \in OpToRel(<, Nat))
  BY WFMin, NatLessThanWellFounded
<1>2. \A y \in S : y \in Nat /\ x \in Nat /\ ~ (y < x)
  <2>. SUFFICES ASSUME NEW y \in S, y < x PROVE FALSE
    OBVIOUS
  <2>. x \in Nat /\ y \in Nat
    OBVIOUS
  <2>. QED
    BY <1>1 DEF OpToRel
<1>3. \A y \in S : x <= y
  BY <1>2
<1>. QED
  BY <1>3 DEF Min

\* A product of naturals is one, and grows with its factors.
LEMMA ProductGrows ==
    ASSUME NEW a \in Nat, NEW b \in Nat, NEW c \in Nat, a <= b
    PROVE  a * c \in Nat /\ a * c <= b * c /\ c * a \in Nat /\ c * a <= c * b
<1>1. PICK d \in Nat : b = a + d
  BY b - a \in Nat
<1>2. d * c >= 0 /\ a * c >= 0 /\ b * c = a * c + d * c
  BY <1>1
<1>. QED
  BY <1>2

\* What a quotient of naturals is.
LEMMA QuotientBounds ==
    ASSUME NEW a \in Nat, NEW d \in Nat \ {0}
    PROVE  a \div d \in Nat /\ d * (a \div d) <= a
OBVIOUS

-----------------------------------------------------------------------------
(***************************************************************************)
(* The mapper and the supervisor                                           *)
(***************************************************************************)

Speeds == 0..MaxLinVel

\* Whatever the policy puts out, the mapper makes a speed of it that the robot has and
\* that it reaches within its acceleration.
LEMMA CommandType ==
    ASSUME NEW action \in Int \union {NaN}, NEW last \in Speeds
    PROVE  LET cmd == Denormalize(<<action, 0>>, last, 0)
           IN  cmd.v \in Speeds /\ cmd.v <= last + MaxLinAccel /\ cmd.w \in Int
<1>. DEFINE lin == IF NaN \notin {action, 0}
                   THEN MinLinVel + ((Clip(action, -100, 100) + 100) * (MaxLinVel - MinLinVel)) \div 200
                   ELSE MinLinVel
            ang == IF NaN \notin {action, 0} THEN (Clip(0, -100, 100) * MaxAngVel) \div 100 ELSE 0
            cmd == Denormalize(<<action, 0>>, last, 0)
<1>. USE SupervisorAssumption, EnvAssumption
<1>1. cmd.v = AccelClamp(last, lin, MaxLinAccel) /\ cmd.w = AccelClamp(0, ang, MaxAngAccel)
  BY DEF Denormalize
<1>2. lin \in Speeds
  <2>1. CASE NaN \notin {action, 0}
    <3>. DEFINE p == Clip(action, -100, 100) + 100
    <3>1. action \in Int
      BY <2>1
    <3>2. p \in 0..200
      BY <3>1 DEF Clip, Least, Greatest
    <3>. HIDE DEF p
    <3>3. p * MaxLinVel \in Nat /\ p * MaxLinVel <= 200 * MaxLinVel
      BY <3>2, ProductGrows
    <3>4. (p * MaxLinVel) \div 200 \in Speeds
      <4>. DEFINE n == p * MaxLinVel
      <4>. n \in Nat /\ n <= 200 * MaxLinVel
        BY <3>3
      <4>. HIDE DEF n
      <4>1. n \div 200 \in Speeds
        BY DEF Speeds
      <4>. QED
        BY <4>1 DEF n
    <3>5. lin = (p * MaxLinVel) \div 200
      BY <2>1, <3>4 DEF p, Speeds
    <3>. QED
      BY <3>4, <3>5
  <2>. QED
    BY <2>1 DEF Speeds
<1>3. ang \in Int
  BY DEF Clip, Least, Greatest
<1>. HIDE DEF lin, ang, cmd
<1>4. cmd.v \in Speeds /\ cmd.v <= last + MaxLinAccel
  BY <1>1, <1>2 DEF AccelClamp, Clip, Least, Greatest, Speeds
<1>5. cmd.w \in Int
  BY <1>1, <1>3 DEF AccelClamp, Clip, Least, Greatest
<1>. QED
  BY <1>4, <1>5 DEF cmd

\* The signals the environment gives to the supervisor
Informed(s) ==
    /\ s.prev_v \in Speeds /\ s.prev_w \in Int
    /\ s.min_ttc \in Nat /\ s.min_clearance \in Int
    /\ ~ s.stale /\ s.prediction_valid

\* The limits lead from the last speed towards the wanted one.
LEMMA LimitedType ==
    ASSUME NEW cmd, NEW s, Informed(s), cmd.v \in Nat, cmd.w \in Int
    PROVE  /\ Limited(cmd, s).v \in Speeds
           /\ Limited(cmd, s).v <= s.prev_v + MaxLinAccel
           /\ Limited(cmd, s).v <= cmd.v \/ Limited(cmd, s).v = s.prev_v - MaxLinAccel
<1>. USE SupervisorAssumption
<1>. DEFINE v == Clip(cmd.v, -MaxLinVel, MaxLinVel)
<1>1. Limited(cmd, s).v = AccelClamp(s.prev_v, v, MaxLinAccel)
  BY DEF Limited
<1>2. v \in Speeds /\ v <= cmd.v
  BY DEF Clip, Least, Greatest, Speeds
<1>3. v \in Int /\ s.prev_v \in Int
  BY <1>2 DEF Informed, Speeds
<1>. HIDE DEF v
<1>. QED
  BY <1>1, <1>2, <1>3 DEF AccelClamp, Clip, Least, Greatest, Speeds, Informed

\* A command slowed down is a speed, and so slow that the time to collision is taken into
\* account.
LEMMA SlowedType ==
    ASSUME NEW s, Informed(s), ~ Imminent(s), NEW v \in Nat
    PROVE  /\ Slowed(v, s) \in Nat
           /\ s.min_ttc < 100 * TtcSlow => 100 * TtcSlow * Slowed(v, s) <= v * s.min_ttc
<1>. USE SupervisorAssumption
<1>1. /\ ByTtc(v, s) \in Nat
      /\ s.min_ttc < 100 * TtcSlow => (100 * TtcSlow) * ByTtc(v, s) <= v * s.min_ttc
  <2>1. v * s.min_ttc \in Nat
    BY ProductGrows DEF Informed
  <2>2. 100 * TtcSlow \in Nat \ {0}
    OBVIOUS
  <2>. QED
    BY <2>1, <2>2, QuotientBounds DEF ByTtc
<1>2. ByClearance(v, s) \in Nat
  <2>. DEFINE c == Greatest(0, s.min_clearance - ClearanceStop)
  <2>1. c \in Nat
    BY DEF Greatest, Informed
  <2>. HIDE DEF c
  <2>2. v * c \in Nat
    BY <2>1, ProductGrows
  <2>3. ClearanceSlow - ClearanceStop \in Nat \ {0}
    OBVIOUS
  <2>. QED
    BY <2>2, <2>3, QuotientBounds DEF ByClearance, c
<1>3. Slowed(v, s) \in Nat /\ Slowed(v, s) <= ByTtc(v, s)
  <2>. DEFINE a == ByTtc(v, s)
              b == ByClearance(v, s)
  <2>1. a \in Nat /\ b \in Nat
    BY <1>1, <1>2
  <2>2. Slowed(v, s) = Least(a, b)
    BY DEF Slowed
  <2>. HIDE DEF a, b
  <2>3. Slowed(v, s) \in Nat /\ Slowed(v, s) <= a
    BY <2>1, <2>2 DEF Least
  <2>. QED
    BY <2>3 DEF a
<1>4. ASSUME s.min_ttc < 100 * TtcSlow
      PROVE  100 * TtcSlow * Slowed(v, s) <= v * s.min_ttc
  <2>. DEFINE k == 100 * TtcSlow
              m == v * s.min_ttc
              x == Slowed(v, s)
              y == ByTtc(v, s)
  <2>1. k \in Nat /\ m \in Nat /\ x \in Nat /\ y \in Nat /\ x <= y
    BY <1>1, <1>3, ProductGrows DEF Informed
  <2>2. k * y <= m
    BY <1>1, <1>4
  <2>. HIDE DEF k, m, x, y
  <2>3. k * x <= k * y /\ k * x \in Nat /\ k * y \in Nat
    BY <2>1, ProductGrows
  <2>4. k * x <= m
    BY <2>1, <2>2, <2>3
  <2>. QED
    BY <2>4 DEF k, m, x
<1>. QED
  BY <1>3, <1>4

\* What the supervisor puts out for a command of the mapper
LEMMA FilterType ==
    ASSUME NEW cmd \in [v : Speeds, w : Int], NEW s, Informed(s)
    PROVE  /\ Filter(cmd, s).v \in Speeds
           /\ Filter(cmd, s).v <= s.prev_v + MaxLinAccel
           /\ Filter(cmd, s).kind \in {"none", "slow", "emergency_stop"}
           /\ Filter(cmd, s).kind = "emergency_stop" <=> Imminent(s)
           /\ Imminent(s) => Filter(cmd, s).v = 0
           /\ ~ Imminent(s) /\ s.min_ttc < 100 * TtcSlow =>
                \/ Filter(cmd, s).v = s.prev_v - MaxLinAccel
                \/ 100 * TtcSlow * Filter(cmd, s).v <= cmd.v * s.min_ttc
<1>. USE SupervisorAssumption
<1>0. cmd.v \in Nat /\ cmd.w \in Int /\ ~ Invalid(cmd) /\ ~ Uninformed(s)
  BY DEF Speeds, Invalid, Uninformed, Informed
<1>1. CASE Imminent(s)
  BY <1>0, <1>1 DEF Filter, Decision, Halt, Speeds, Informed
<1>2. CASE ~ Imminent(s) /\ ~ SlowsDown(s)
  <2>1. Filter(cmd, s) = Decision(Limited(cmd, s), "none") /\ ~ (s.min_ttc < 100 * TtcSlow)
    BY <1>0, <1>2 DEF Filter, SlowsDown
  <2>. QED
    BY <1>0, <1>2, <2>1, LimitedType DEF Decision
<1>3. CASE ~ Imminent(s) /\ SlowsDown(s)
  <2>. DEFINE slowed == [cmd EXCEPT !.v = Slowed(cmd.v, s)]
              v == Limited(slowed, s).v
  <2>1. Filter(cmd, s) = Decision(Limited(slowed, s), "slow")
    BY <1>0, <1>3 DEF Filter
  <2>2. slowed.v = Slowed(cmd.v, s) /\ slowed.w = cmd.w
    OBVIOUS
  <2>3. /\ slowed.v \in Nat
        /\ s.min_ttc < 100 * TtcSlow => 100 * TtcSlow * slowed.v <= cmd.v * s.min_ttc
    BY <1>0, <1>3, <2>2, SlowedType
  <2>. HIDE DEF slowed
  <2>4. /\ v \in Speeds /\ v <= s.prev_v + MaxLinAccel
        /\ v <= slowed.v \/ v = s.prev_v - MaxLinAccel
    BY <1>0, <2>2, <2>3, LimitedType
  <2>5. ASSUME s.min_ttc < 100 * TtcSlow, v <= slowed.v
        PROVE  100 * TtcSlow * v <= cmd.v * s.min_ttc
    <3>. DEFINE k == 100 * TtcSlow
                m == cmd.v * s.min_ttc
                y == slowed.v
    <3>1. k \in Nat /\ m \in Nat /\ v \in Nat /\ y \in Nat /\ v <= y /\ k * y <= m
      BY <1>0, <2>3, <2>4, <2>5, ProductGrows DEF Informed, Speeds
    <3>. HIDE DEF k, m, v, y
    <3>2. k * v <= k * y /\ k * v \in Nat /\ k * y \in Nat
      BY <3>1, ProductGrows
    <3>3. k * v <= m
      BY <3>1, <3>2
    <3>. QED
      BY <3>3 DEF k, m
  <2>6. Filter(cmd, s).v = v /\ Filter(cmd, s).kind = "slow"
    BY <2>1 DEF Decision
  <2>. HIDE DEF v
  <2>. QED
    BY <1>3, <2>4, <2>5, <2>6
<1>. QED
  BY <1>1, <1>2, <1>3

-----------------------------------------------------------------------------
(***************************************************************************)
(* The people, and the signals of risk they are                            *)
(***************************************************************************)

Pose == [x : Int, v : Int]

Times == 0..Greatest(Period, MaxSteps)

\* Nobody is known of, or everybody as they were at some time.
SeenPeople == humans = <<>> \/ \E time \in Times : humans = PeopleAt(setup.crowd, time)

LEMMA SeenType ==
    ASSUME setup \in Setups, SeenPeople
    PROVE  /\ \A i \in DOMAIN humans : humans[i] \in Pose
           /\ humans # <<>> => DOMAIN humans # {}
           /\ DOMAIN humans \in {{}, DOMAIN setup.crowd}
<1>1. CASE humans = <<>>
  BY <1>1
<1>2. ASSUME NEW time \in Times, humans = PeopleAt(setup.crowd, time)
      PROVE  /\ \A i \in DOMAIN humans : humans[i] \in Pose
             /\ humans # <<>> => DOMAIN humans # {}
             /\ DOMAIN humans = DOMAIN setup.crowd
  <2>1. DOMAIN humans = DOMAIN setup.crowd
    BY <1>2 DEF PeopleAt
  <2>2. \A i \in DOMAIN setup.crowd : PeopleAt(setup.crowd, time)[i] \in Pose
    BY <1>2, CrowdAssumption DEF Pose, Times
  <2>3. DOMAIN humans = {} => humans = <<>>
    BY <1>2, <2>1 DEF PeopleAt
  <2>. QED
    BY <1>2, <2>1, <2>2, <2>3
<1>. QED
  BY <1>1, <1>2 DEF SeenPeople

LEMMA DistanceType ==
    ASSUME NEW people, NEW x \in Int, \A i \in DOMAIN people : people[i] \in Pose
    PROVE  Distances(people, x) \subseteq Nat
BY DEF Distances, Pose, AbsVal

\* The clearance is the distance of the nearest person.
LEMMA ClearanceType ==
    ASSUME setup \in Setups, SeenPeople, NEW x \in Int
    PROVE  /\ MinClearance(x) \in Nat \union {None}
           /\ MinClearance(x) = None <=> humans = <<>>
           /\ \A i \in DOMAIN humans : MinClearance(x) <= AbsVal(humans[i].x - x)
           /\ humans # <<>> => \E i \in DOMAIN humans : MinClearance(x) = AbsVal(humans[i].x - x)
<1>1. CASE humans = <<>>
  BY <1>1 DEF MinClearance, None
<1>2. CASE humans # <<>>
  <2>1. Distances(humans, x) \subseteq Nat /\ Distances(humans, x) # {}
    BY <1>2, SeenType, DistanceType DEF Distances
  <2>2. /\ Min(Distances(humans, x)) \in Distances(humans, x)
        /\ \A d \in Distances(humans, x) : Min(Distances(humans, x)) <= d
    BY <2>1, MinOfNaturals
  <2>3. MinClearance(x) = Min(Distances(humans, x))
    BY <1>2 DEF MinClearance
  <2>4. MinClearance(x) \in Nat /\ MinClearance(x) # None
    BY <2>1, <2>2, <2>3 DEF None
  <2>5. /\ \A i \in DOMAIN humans : AbsVal(humans[i].x - x) \in Distances(humans, x)
        /\ \A d \in Distances(humans, x) : \E i \in DOMAIN humans : d = AbsVal(humans[i].x - x)
    BY DEF Distances
  <2>6. \A i \in DOMAIN humans : MinClearance(x) <= AbsVal(humans[i].x - x)
    BY <2>2, <2>3, <2>5
  <2>7. \E i \in DOMAIN humans : MinClearance(x) = AbsVal(humans[i].x - x)
    BY <2>2, <2>3, <2>5
  <2>. QED
    BY <1>2, <2>4, <2>6, <2>7
<1>. QED
  BY <1>1, <1>2

\* A time to collision is a natural number.
LEMMA CollisionTimeType ==
    ASSUME NEW rel_pos \in Int, NEW rel_vel \in Int, NEW contact \in Nat
    PROVE  TimeToCollision(rel_pos, rel_vel, contact) \in Nat
<1>. DEFINE enters == -Sign(rel_vel) * rel_pos - contact
            leaves == enters + 2 * contact
            gap == IF enters >= 0 THEN enters ELSE leaves
<1>1. enters \in Int /\ leaves \in Int
  BY DEF Sign
<1>2. CASE rel_vel = 0 \/ leaves < 0
  BY <1>2 DEF TimeToCollision, BigTtc
<1>3. CASE ~ (rel_vel = 0 \/ leaves < 0)
  <2>1. gap \in Nat /\ AbsVal(rel_vel) \in Nat \ {0}
    BY <1>1, <1>3 DEF AbsVal
  <2>2. TimeToCollision(rel_pos, rel_vel, contact)
            = Least(BigTtc, (100 * gap) \div AbsVal(rel_vel))
    BY <1>3 DEF TimeToCollision
  <2>. HIDE DEF gap
  <2>3. (100 * gap) \div AbsVal(rel_vel) \in Nat
    BY <2>1, QuotientBounds, 100 * gap \in Nat
  <2>. QED
    BY <2>2, <2>3 DEF Least, BigTtc
<1>. QED
  BY <1>2, <1>3

\* What the supervisor is given is what it asks for, and the time to collision is the
\* least over everybody.
LEMMA SignalsType ==
    ASSUME setup \in Setups, SeenPeople, robot \in Pose, prev_v \in Speeds
    PROVE  /\ Informed(RiskSignals)
           /\ RiskSignals.prev_v = prev_v
           /\ RiskSignals.obstacle_imminent <=> ObstacleHit(robot.x, RobotRadius + HitMargin)
           /\ \A i \in DOMAIN humans :
                RiskSignals.min_ttc
                    <= TimeToCollision(humans[i].x - robot.x, humans[i].v - robot.v, Contact)
<1>. DEFINE ttc(i) == TimeToCollision(humans[i].x - robot.x, humans[i].v - robot.v, Contact)
            ttcs == {ttc(i) : i \in DOMAIN humans}
<1>1. \A i \in DOMAIN humans : ttc(i) \in Nat
  <2>. SUFFICES ASSUME NEW i \in DOMAIN humans PROVE ttc(i) \in Nat
    OBVIOUS
  <2>1. humans[i] \in Pose
    BY SeenType
  <2>2. humans[i].x - robot.x \in Int /\ humans[i].v - robot.v \in Int
    BY <2>1 DEF Pose
  <2>3. Contact \in Nat
    BY EnvAssumption DEF Contact
  <2>. QED
    BY <2>2, <2>3, CollisionTimeType
<1>2. ttcs \union {BigTtc} \subseteq Nat
  BY <1>1 DEF BigTtc
<1>3. /\ Min(ttcs \union {BigTtc}) \in Nat
      /\ \A n \in ttcs \union {BigTtc} : Min(ttcs \union {BigTtc}) <= n
  <2>1. ttcs \union {BigTtc} # {}
    OBVIOUS
  <2>. HIDE DEF ttcs
  <2>. QED
    BY <1>2, <2>1, MinOfNaturals
<1>4. /\ RiskSignals.min_ttc = Min(ttcs \union {BigTtc})
      /\ RiskSignals.prev_v = prev_v /\ RiskSignals.prev_w = 0
      /\ RiskSignals.min_clearance = MinClearance(robot.x)
      /\ RiskSignals.obstacle_imminent = ObstacleHit(robot.x, RobotRadius + HitMargin)
      /\ RiskSignals.stale = FALSE /\ RiskSignals.prediction_valid = TRUE
  BY DEF RiskSignals
<1>5. MinClearance(robot.x) \in Int
  BY ClearanceType DEF Pose, None
<1>6. \A i \in DOMAIN humans : ttc(i) \in ttcs
  OBVIOUS
<1>. HIDE DEF ttcs
<1>7. Informed(RiskSignals)
  BY <1>3, <1>4, <1>5 DEF Informed
<1>8. \A i \in DOMAIN humans : RiskSignals.min_ttc <= ttc(i)
  BY <1>3, <1>4, <1>6
<1>. QED
  BY <1>4, <1>7, <1>8

\* Every policy puts out percents, or a learned one something that is not finite.
LEMMA ActionsType ==
    ASSUME setup \in Setups
    PROVE  PolicyActions \subseteq Int \union {NaN}
<1>1. CASE setup.policy = "stop"
  BY <1>1 DEF PolicyActions
<1>2. CASE setup.policy = "straight"
  <2>1. PolicyActions = {StraightToGoal(robot.x, Greatest(0, MinClearance(robot.x)))}
    BY <1>2 DEF PolicyActions
  <2>2. \A x, d : StraightToGoal(x, d) \in {10, 20, 100}
    BY DEF StraightToGoal, Least
  <2>. QED
    BY <2>1, <2>2
<1>3. CASE setup.policy = "rl"
  BY <1>3, EnvAssumption DEF PolicyActions
<1>. QED
  BY <1>1, <1>2, <1>3, EnvAssumption

\* What the policy's actions may become
LEMMA DecisionsType ==
    ASSUME setup \in Setups, SeenPeople, robot \in Pose, prev_v \in Speeds,
           NEW decided \in Decisions
    PROVE  /\ decided.v \in Speeds
           /\ decided.kind \in {"none", "off", "slow", "emergency_stop"}
           /\ decided.kind = "emergency_stop" => decided.v = 0
           /\ decided.v <= prev_v + MaxLinAccel
           /\ setup.safe_filter =>
                \E cmd \in [v : Speeds, w : Int] :
                    cmd.v <= prev_v + MaxLinAccel /\ decided = Filter(cmd, RiskSignals)
<1>1. \A action \in PolicyActions :
        Command(action) \in [v : Speeds, w : Int] /\ Command(action).v <= prev_v + MaxLinAccel
  <2>. SUFFICES ASSUME NEW action \in PolicyActions
                PROVE  /\ Command(action) \in [v : Speeds, w : Int]
                       /\ Command(action).v <= prev_v + MaxLinAccel
    OBVIOUS
  <2>1. action \in Int \union {NaN}
    BY ActionsType
  <2>2. /\ Command(action).v \in Speeds /\ Command(action).w \in Int
        /\ Command(action).v <= prev_v + MaxLinAccel
    BY <2>1, CommandType DEF Command
  <2>3. Command(action) = [v |-> Command(action).v, w |-> Command(action).w]
    BY DEF Command, Denormalize
  <2>. QED
    BY <2>2, <2>3
<1>2. CASE setup.safe_filter
  <2>1. PICK cmd \in [v : Speeds, w : Int] :
            cmd.v <= prev_v + MaxLinAccel /\ decided = Filter(cmd, RiskSignals)
    BY <1>1, <1>2 DEF Decisions
  <2>2. Informed(RiskSignals) /\ RiskSignals.prev_v = prev_v
    BY SignalsType
  <2>. QED
    BY <2>1, <2>2, FilterType
<1>3. CASE ~ setup.safe_filter
  <2>1. PICK action \in PolicyActions : decided = Decision(Command(action), "off")
    BY <1>3 DEF Decisions
  <2>. QED
    BY <1>1, <1>3, <2>1 DEF Decision
<1>. QED
  BY <1>2, <1>3

-----------------------------------------------------------------------------
(***************************************************************************)
(* The delay line and the stacker of frames                                *)
(***************************************************************************)

\* The delay line keeps the newest commands, as many as the latency and one more.
LEMMA DelayedType ==
    ASSUME buf \in Seq(Speeds), latency \in Nat, NEW v \in Speeds
    PROVE  /\ Delayed(v) \in Seq(Speeds)
           /\ Len(Delayed(v)) \in 1..(latency + 1)
           /\ Len(Delayed(v)) <= Len(buf) + 1
           /\ Delayed(v)[Len(Delayed(v))] = v
           /\ \A i \in 1..(Len(Delayed(v)) - 1) :
                Delayed(v)[i] = buf[i + Len(buf) + 1 - Len(Delayed(v))]
<1>. DEFINE line  == Append(buf, v)
            first == Greatest(1, Len(buf) + 1 - latency)
<1>1. /\ line \in Seq(Speeds) /\ Len(line) = Len(buf) + 1
      /\ \A i \in 1..Len(buf) : line[i] = buf[i]
      /\ line[Len(buf) + 1] = v
  BY AppendProperties
<1>2. /\ first \in 1..(Len(buf) + 1) /\ Len(buf) + 1 - first <= latency
  BY DEF Greatest
<1>3. Delayed(v) = SubSeq(line, first, Len(line))
  BY <1>1 DEF Delayed
<1>. HIDE DEF line, first
<1>4. /\ SubSeq(line, first, Len(line)) \in Seq(Speeds)
      /\ Len(SubSeq(line, first, Len(line))) = Len(line) - first + 1
      /\ \A i \in 1..(Len(line) - first + 1) :
            SubSeq(line, first, Len(line))[i] = line[first + i - 1]
  <2>1. first \in 1..(Len(line) + 1) /\ Len(line) \in (first - 1)..Len(line)
    BY <1>1, <1>2
  <2>. QED
    BY <1>1, <2>1, SubSeqProperties
<1>5. /\ Delayed(v) \in Seq(Speeds)
      /\ Len(Delayed(v)) = Len(buf) + 2 - first
  BY <1>1, <1>2, <1>3, <1>4
<1>6. \A i \in 1..Len(Delayed(v)) : Delayed(v)[i] = line[first + i - 1]
  BY <1>1, <1>2, <1>3, <1>4
<1>7. Len(buf) \in Nat
  OBVIOUS
<1>. DEFINE n == Len(Delayed(v))
            m == Len(buf)
<1>8. n \in 1..(latency + 1) /\ n <= m + 1 /\ first = m + 2 - n
  BY <1>2, <1>5, <1>7
<1>9. Delayed(v)[n] = v
  <2>1. n \in 1..n /\ first + n - 1 = m + 1
    BY <1>7, <1>8
  <2>2. Delayed(v)[n] = line[first + n - 1]
    BY <1>6, <2>1
  <2>. QED
    BY <1>1, <2>1, <2>2
<1>10. ASSUME NEW i \in 1..(n - 1)
       PROVE  Delayed(v)[i] = buf[i + m + 1 - n]
  <2>1. i \in 1..n /\ first + i - 1 = i + m + 1 - n /\ i + m + 1 - n \in 1..m
    BY <1>7, <1>8
  <2>2. Delayed(v)[i] = line[first + i - 1]
    BY <1>6, <2>1
  <2>. HIDE DEF n
  <2>. QED
    BY <1>1, <2>1, <2>2
<1>. QED
  BY <1>5, <1>8, <1>9, <1>10

\* The stacker drops the oldest frame for the new one, or begins anew with it.
LEMMA StackedType ==
    ASSUME frames \in Seq(Int \X Int), Len(frames) = StackDepth, NEW frame \in Int \X Int
    PROVE  /\ Stacked(frame) \in Seq(Int \X Int)
           /\ Len(Stacked(frame)) = StackDepth
           /\ Stacked(frame)[StackDepth] = frame
           /\ \A i \in 1..(StackDepth - 1) :
                Stacked(frame)[i] = IF need_reset THEN NoFrame ELSE frames[i + 1]
<1>. USE EnvAssumption DEF NoFrame
<1>. StackDepth \in Nat \ {0}
  OBVIOUS
<1>1. CASE need_reset
  <2>1. Stacked(frame) = [i \in 1..StackDepth |-> IF i = StackDepth THEN frame ELSE NoFrame]
    BY <1>1 DEF Stacked
  <2>2. \A i \in 1..StackDepth : (IF i = StackDepth THEN frame ELSE NoFrame) \in Int \X Int
    OBVIOUS
  <2>3. Stacked(frame) \in [1..StackDepth -> Int \X Int]
    BY <2>1, <2>2
  <2>4. Stacked(frame) \in Seq(Int \X Int) /\ Len(Stacked(frame)) = StackDepth
    BY <2>3
  <2>. QED
    BY <1>1, <2>1, <2>4
<1>2. CASE ~ need_reset
  <2>1. frames # <<>>
    OBVIOUS
  <2>2. /\ Tail(frames) \in Seq(Int \X Int) /\ Len(Tail(frames)) = StackDepth - 1
        /\ \A i \in 1..(StackDepth - 1) : Tail(frames)[i] = frames[i + 1]
    BY <2>1, HeadTailProperties
  <2>3. Stacked(frame) = Append(Tail(frames), frame)
    BY <1>2 DEF Stacked
  <2>4. /\ Stacked(frame) \in Seq(Int \X Int) /\ Len(Stacked(frame)) = StackDepth
        /\ Stacked(frame)[StackDepth] = frame
    BY <2>2, <2>3, AppendProperties
  <2>5. \A i \in 1..(StackDepth - 1) : Stacked(frame)[i] = Tail(frames)[i]
    BY <2>2, <2>3, AppendProperties
  <2>. QED
    BY <1>2, <2>2, <2>4, <2>5
<1>. QED
  BY <1>1, <1>2

-----------------------------------------------------------------------------
(***************************************************************************)
(* Type correctness                                                        *)
(***************************************************************************)

Moving == [x : Int, v : 0..(2 * MaxLinVel)]

ControlTypes ==
    /\ setup \in Setups
    /\ phase \in {"reset", "settle", "act", "spin"}
    /\ kind \in {"none", "off", "slow", "emergency_stop"}
    /\ outcome \in {"none", "reached", "collision", "timeout"}
    /\ teleport \in {"none", "pending", "answered"} /\ need_reset \in BOOLEAN

CountTypes ==
    /\ episode \in 0..Episodes /\ steps \in 0..MaxSteps
    /\ latency \in 0..MaxLatency /\ stops \in 0..(MaxLatency + 1)
    /\ wait \in 0..Greatest(1, SettlePeriods)
    /\ phase \in {"act", "spin"} => steps < MaxSteps
    /\ ~ setup.dr => latency = 0

\* The clock of the mock counts the steps.
ClockTypes ==
    /\ clock \in 0..Greatest(Period, MaxSteps)
    /\ InMock => /\ phase # "settle"
                 /\ phase = "act" => clock = steps
                 /\ phase = "spin" => clock = steps + 1

MotionTypes ==
    /\ prev_v \in Speeds /\ robot \in Moving /\ real \in [x : Int, v : Speeds]
    /\ prev_x \in Int
    /\ path_length \in Nat /\ straight_dist \in Nat /\ prev_goal_dist \in Nat

MessageTypes ==
    /\ odom \in [x : Int, v : 0..(2 * MaxLinVel), stamp : None..Episodes]
    /\ SeenPeople
    /\ scan_min \in Nat

BufferTypes ==
    /\ buf \in Seq(Speeds) /\ Len(buf) <= latency + 1
    /\ frames \in Seq(Int \X Int) /\ Len(frames) = StackDepth

\* TypeOK, with what it needs to be inductive: whole records and sequences, the people as
\* they were at some time, and the clock of the mock.
EnvTypes ==
    ControlTypes /\ CountTypes /\ ClockTypes /\ MotionTypes /\ MessageTypes /\ BufferTypes

LEMMA ConstantTypes ==
    /\ MaxLinVel \in Nat /\ MaxLinAccel \in Nat
    /\ MaxSteps \in Nat /\ MaxLatency \in Nat /\ SettlePeriods \in Nat /\ Period \in Nat
    /\ StackDepth \in Nat /\ Episodes \in Nat
    /\ MaxSteps > 0 /\ StackDepth > 0 /\ Period > 0
    /\ RobotStart \in Int /\ Goal \in Int
BY SupervisorAssumption, EnvAssumption

LEMMA TypesSuffice ==
    ASSUME EnvTypes
    PROVE  TypeOK
<1>. USE ConstantTypes
<1>1. DOMAIN humans \in {{}, DOMAIN setup.crowd}
  BY SeenType DEF EnvTypes, ControlTypes, MessageTypes
<1>2. DOMAIN frames = 1..StackDepth /\ \A i \in DOMAIN buf : buf[i] \in 0..MaxLinVel
  BY DEF EnvTypes, BufferTypes, Speeds
<1>3. {robot.v, odom.v, real.v} \subseteq 0..(2 * MaxLinVel)
  BY DEF EnvTypes, MotionTypes, MessageTypes, Moving, Speeds
<1>4. /\ {robot.x, odom.x, real.x, prev_x} \subseteq Int
      /\ {path_length, straight_dist, prev_goal_dist} \subseteq Nat
  BY DEF EnvTypes, MotionTypes, MessageTypes, Moving
<1>. QED
  BY <1>1, <1>2, <1>3, <1>4
  DEF TypeOK, EnvTypes, ControlTypes, CountTypes, ClockTypes, MotionTypes, MessageTypes,
      BufferTypes, Speeds

LEMMA SyncedType ==
    ASSUME EnvTypes
    PROVE  Synced \in Moving
BY DEF EnvTypes, MotionTypes, MessageTypes, Synced, Moving

LEMMA InitTypes == Init => EnvTypes
<1>. SUFFICES ASSUME Init PROVE EnvTypes
  OBVIOUS
<1>. USE ConstantTypes DEF Init
<1>1. ControlTypes
  BY DEF ControlTypes
<1>2. CountTypes
  BY DEF CountTypes, Greatest
<1>3. ClockTypes
  BY DEF ClockTypes, Greatest
<1>4. MotionTypes
  BY DEF MotionTypes, Moving, Speeds
<1>5. MessageTypes
  BY BigTtcType DEF MessageTypes, SeenPeople, None, Far
<1>6. BufferTypes
  <2>1. frames \in [1..StackDepth -> Int \X Int]
    BY DEF NoFrame
  <2>2. frames \in Seq(Int \X Int) /\ Len(frames) = StackDepth
    BY <2>1
  <2>3. buf = <<>> /\ latency = 0
    OBVIOUS
  <2>. QED
    BY <2>2, <2>3 DEF BufferTypes
<1>. QED
  BY <1>1, <1>2, <1>3, <1>4, <1>5, <1>6 DEF EnvTypes

\* An episode begins in the types, with the robot where it is said to be.
LEMMA BeginType ==
    ASSUME NEW r \in Moving, BeginEpisode(r), prev_v \in Speeds
    PROVE  /\ robot' = r /\ steps' = 0 /\ prev_v' = 0 /\ kind' = "none"
           /\ prev_goal_dist' \in Nat /\ straight_dist' \in Nat /\ path_length' = 0
           /\ prev_x' \in Int /\ stops' = 0 /\ outcome' = "none" /\ need_reset' = TRUE
           /\ phase' = "act"
<1>1. GoalDist(r.x) \in Nat /\ r.x \in Int
  BY ConstantTypes DEF GoalDist, AbsVal, Moving
<1>. QED
  BY <1>1 DEF BeginEpisode, EnvReset, PolicyReset

LEMMA ResetMockTypes ==
    ASSUME EnvTypes, ResetMock
    PROVE  EnvTypes'
<1>. USE ConstantTypes
<1>. DEFINE r == [x |-> RobotStart, v |-> 0]
<1>1. r \in Moving /\ BeginEpisode(r)
  BY DEF Moving, ResetMock
<1>. HIDE DEF r
<1>2. /\ robot' \in Moving /\ steps' = 0 /\ prev_v' = 0 /\ kind' = "none"
      /\ prev_goal_dist' \in Nat /\ straight_dist' \in Nat /\ path_length' = 0
      /\ prev_x' \in Int /\ stops' = 0 /\ outcome' = "none" /\ need_reset' = TRUE
      /\ phase' = "act"
  BY <1>1, BeginType DEF EnvTypes, MotionTypes
<1>3. /\ humans' = PeopleAt(setup.crowd, 0) /\ latency' \in Latencies
      /\ episode < Episodes /\ episode' = episode + 1 /\ buf' = <<>> /\ clock' = 0
      /\ setup' = setup /\ odom' = odom /\ scan_min' = scan_min /\ wait' = wait
      /\ real' = real /\ teleport' = teleport /\ frames' = frames
  BY DEF ResetMock
<1>4. ControlTypes'
  BY <1>2, <1>3 DEF EnvTypes, ControlTypes
<1>5. CountTypes'
  BY <1>2, <1>3 DEF EnvTypes, CountTypes, Latencies
<1>6. ClockTypes'
  BY <1>2, <1>3 DEF ClockTypes, Greatest
<1>7. MotionTypes'
  BY <1>2, <1>3 DEF EnvTypes, MotionTypes, Speeds
<1>8. MessageTypes'
  <2>1. 0 \in Times
    BY DEF Times, Greatest
  <2>2. SeenPeople'
    BY <1>3, <2>1 DEF SeenPeople
  <2>. QED
    BY <1>3, <2>2 DEF EnvTypes, MessageTypes
<1>9. BufferTypes'
  <2>1. latency' \in Nat
    BY <1>3 DEF Latencies
  <2>2. buf' \in Seq(Speeds) /\ Len(buf') = 0
    BY <1>3
  <2>3. frames' \in Seq(Int \X Int) /\ Len(frames') = StackDepth
    BY <1>3 DEF EnvTypes, BufferTypes
  <2>4. \A n \in Nat : 0 <= n + 1
    OBVIOUS
  <2>5. Len(buf') <= latency' + 1
    BY <2>1, <2>2, <2>4, Zenon
  <2>. QED
    BY <2>2, <2>3, <2>5 DEF BufferTypes
<1>. QED
  BY <1>4, <1>5, <1>6, <1>7, <1>8, <1>9 DEF EnvTypes

LEMMA ResetGazeboTypes ==
    ASSUME EnvTypes, ResetGazebo
    PROVE  EnvTypes'
<1>. USE ConstantTypes
<1>1. real' \in [x : Int, v : Speeds] /\ teleport' \in {"none", "pending", "answered"}
  BY DEF ResetGazebo, EnvTypes, MotionTypes
<1>2. /\ ~ InMock /\ episode < Episodes /\ episode' = episode + 1
      /\ wait' = SettlePeriods /\ phase' = "settle"
      /\ setup' = setup /\ robot' = robot /\ clock' = clock /\ stops' = stops
      /\ steps' = steps /\ prev_v' = prev_v /\ prev_goal_dist' = prev_goal_dist
      /\ kind' = kind /\ latency' = latency /\ buf' = buf
      /\ odom' = odom /\ humans' = humans /\ scan_min' = scan_min
      /\ path_length' = path_length /\ straight_dist' = straight_dist /\ prev_x' = prev_x
      /\ outcome' = outcome /\ frames' = frames /\ need_reset' = need_reset
  BY DEF ResetGazebo, envVars, msgVars, driverVars
<1>3. ControlTypes'
  BY <1>1, <1>2 DEF EnvTypes, ControlTypes
<1>4. CountTypes'
  BY <1>2 DEF EnvTypes, CountTypes, Greatest
<1>5. ClockTypes'
  BY <1>2 DEF EnvTypes, ClockTypes, InMock
<1>6. MotionTypes'
  BY <1>1, <1>2 DEF EnvTypes, MotionTypes
<1>7. MessageTypes'
  BY <1>2 DEF EnvTypes, MessageTypes, SeenPeople
<1>8. BufferTypes'
  BY <1>2 DEF EnvTypes, BufferTypes
<1>. QED
  BY <1>3, <1>4, <1>5, <1>6, <1>7, <1>8 DEF EnvTypes

LEMMA SettledTypes ==
    ASSUME EnvTypes, Settled
    PROVE  EnvTypes'
<1>. USE ConstantTypes
<1>1. AfterSettling \in Moving /\ BeginEpisode(AfterSettling)
  BY SyncedType DEF Settled, AfterSettling
<1>2. /\ robot' \in Moving /\ steps' = 0 /\ prev_v' = 0 /\ kind' = "none"
      /\ prev_goal_dist' \in Nat /\ straight_dist' \in Nat /\ path_length' = 0
      /\ prev_x' \in Int /\ stops' = 0 /\ outcome' = "none" /\ need_reset' = TRUE
      /\ phase' = "act"
  BY <1>1, BeginType DEF EnvTypes, MotionTypes
<1>3. /\ phase = "settle" /\ setup' = setup /\ episode' = episode /\ latency' = latency
      /\ buf' = buf /\ odom' = odom /\ humans' = humans /\ scan_min' = scan_min
      /\ wait' = wait /\ clock' = clock /\ real' = real /\ teleport' = teleport
      /\ frames' = frames
  BY DEF Settled, msgVars, worldVars
<1>4. ControlTypes'
  BY <1>2, <1>3 DEF EnvTypes, ControlTypes
<1>5. CountTypes'
  BY <1>2, <1>3 DEF EnvTypes, CountTypes
<1>6. ClockTypes'
  BY <1>2, <1>3 DEF EnvTypes, ClockTypes, InMock
<1>7. MotionTypes'
  BY <1>2, <1>3 DEF EnvTypes, MotionTypes, Speeds
<1>8. MessageTypes'
  BY <1>3 DEF EnvTypes, MessageTypes, SeenPeople
<1>9. BufferTypes'
  BY <1>3 DEF EnvTypes, BufferTypes
<1>. QED
  BY <1>4, <1>5, <1>6, <1>7, <1>8, <1>9 DEF EnvTypes

\* A step as the mock takes it, in the types
LEMMA MockStepTypes ==
    ASSUME EnvTypes, phase = "act", InMock, NEW v \in Speeds, MockStep(v)
    PROVE  /\ robot' \in Moving
           /\ buf' \in Seq(Speeds) /\ Len(buf') <= latency + 1
           /\ clock' = steps + 1 /\ clock' \in 0..Greatest(Period, MaxSteps)
           /\ wait' = wait /\ real' = real
           /\ \E time \in Times : humans' = PeopleAt(setup.crowd, time)
<1>. USE ConstantTypes
<1>1. buf \in Seq(Speeds) /\ latency \in Nat /\ robot \in Moving
  BY DEF EnvTypes, BufferTypes, CountTypes, MotionTypes
<1>2. /\ buf' \in Seq(Speeds) /\ Len(buf') \in 1..(latency + 1)
  BY <1>1, DelayedType DEF MockStep
<1>3. buf'[1] \in Speeds
  BY <1>2
<1>4. PICK executed \in Tracked(buf'[1]) :
        robot' = [x |-> robot.x + executed, v |-> executed]
  BY DEF MockStep
<1>5. executed \in 0..(2 * MaxLinVel)
  BY <1>3, <1>4 DEF Tracked, Speeds
<1>6. robot' \in Moving
  BY <1>1, <1>4, <1>5 DEF Moving
<1>7. clock = steps /\ steps < MaxSteps /\ steps \in Nat
  BY DEF EnvTypes, ClockTypes, CountTypes
<1>8. clock' = clock + 1 /\ humans' = PeopleAt(setup.crowd, clock + 1)
      /\ wait' = wait /\ real' = real
  BY DEF MockStep
<1>9. clock + 1 \in Times
  BY <1>7 DEF Times, Greatest
<1>. QED
  BY <1>2, <1>6, <1>7, <1>8, <1>9 DEF Times

\* What Act leaves alone in either backend, and which decision it is about
LEMMA ActType ==
    ASSUME EnvTypes, Act
    PROVE  /\ phase = "act" /\ phase' = "spin" /\ need_reset' = FALSE
           /\ frames' = Stacked(<<episode, steps>>)
           /\ \E decided \in Decisions :
                /\ decided.v \in Speeds
                /\ prev_v' = decided.v /\ kind' = decided.kind
                /\ kind' \in {"none", "off", "slow", "emergency_stop"}
                /\ stops' = IF kind' # "emergency_stop" THEN 0 ELSE Least(stops + 1, MaxLatency + 1)
                /\ kind' = "emergency_stop" => decided.v = 0
                /\ IF InMock THEN MockStep(decided.v) ELSE GazeboStep(decided.v)
           /\ setup' = setup /\ episode' = episode /\ steps' = steps
           /\ prev_goal_dist' = prev_goal_dist /\ latency' = latency /\ odom' = odom
           /\ scan_min' = scan_min /\ teleport' = teleport
           /\ path_length' = path_length /\ straight_dist' = straight_dist
           /\ prev_x' = prev_x /\ outcome' = outcome
<1>1. setup \in Setups /\ SeenPeople /\ robot \in Pose /\ prev_v \in Speeds
  BY DEF EnvTypes, ControlTypes, MessageTypes, MotionTypes, Moving, Pose
<1>2. PICK decided \in Decisions :
        /\ prev_v' = decided.v
        /\ kind'   = decided.kind
        /\ stops'  = IF decided.kind # "emergency_stop" THEN 0 ELSE Least(stops + 1, MaxLatency + 1)
        /\ IF InMock THEN MockStep(decided.v) ELSE GazeboStep(decided.v)
  BY DEF Act
<1>3. /\ decided.v \in Speeds
      /\ decided.kind \in {"none", "off", "slow", "emergency_stop"}
      /\ decided.kind = "emergency_stop" => decided.v = 0
  BY <1>1, DecisionsType
<1>. QED
  BY <1>2, <1>3 DEF Act

LEMMA ActTypes ==
    ASSUME EnvTypes, Act
    PROVE  EnvTypes'
<1>. USE ConstantTypes
<1>1. PICK decided \in Decisions :
        /\ decided.v \in Speeds
        /\ prev_v' = decided.v
        /\ kind' \in {"none", "off", "slow", "emergency_stop"}
        /\ stops' = IF kind' # "emergency_stop" THEN 0 ELSE Least(stops + 1, MaxLatency + 1)
        /\ IF InMock THEN MockStep(decided.v) ELSE GazeboStep(decided.v)
  BY ActType
<1>2. /\ phase = "act" /\ phase' = "spin" /\ need_reset' = FALSE
      /\ frames' = Stacked(<<episode, steps>>)
      /\ setup' = setup /\ episode' = episode /\ steps' = steps
      /\ prev_goal_dist' = prev_goal_dist /\ latency' = latency /\ odom' = odom
      /\ scan_min' = scan_min /\ teleport' = teleport
      /\ path_length' = path_length /\ straight_dist' = straight_dist
      /\ prev_x' = prev_x /\ outcome' = outcome
  BY ActType
<1>3. /\ robot' \in Moving /\ real' \in [x : Int, v : Speeds]
      /\ buf' \in Seq(Speeds) /\ Len(buf') <= latency + 1
      /\ wait' \in 0..Greatest(1, SettlePeriods)
      /\ SeenPeople'
      /\ clock' \in 0..Greatest(Period, MaxSteps)
      /\ InMock => clock' = steps + 1
  <2>1. CASE InMock
    <3>1. MockStep(decided.v)
      BY <1>1, <2>1
    <3>2. /\ robot' \in Moving
          /\ buf' \in Seq(Speeds) /\ Len(buf') <= latency + 1
          /\ clock' = steps + 1 /\ clock' \in 0..Greatest(Period, MaxSteps)
          /\ wait' = wait /\ real' = real
          /\ \E time \in Times : humans' = PeopleAt(setup.crowd, time)
      BY <1>1, <1>2, <2>1, <3>1, MockStepTypes
    <3>3. real \in [x : Int, v : Speeds] /\ wait \in 0..Greatest(1, SettlePeriods)
      BY DEF EnvTypes, MotionTypes, CountTypes
    <3>. QED
      BY <1>2, <3>2, <3>3 DEF SeenPeople
  <2>2. CASE ~ InMock
    <3>1. /\ real' = [real EXCEPT !.v = decided.v] /\ wait' = 1
          /\ buf' = buf /\ robot' = robot /\ clock' = clock /\ humans' = humans
      BY <1>1, <2>2 DEF GazeboStep
    <3>2. real' \in [x : Int, v : Speeds]
      BY <1>1, <3>1 DEF EnvTypes, MotionTypes
    <3>3. wait' \in 0..Greatest(1, SettlePeriods)
      BY <3>1 DEF Greatest
    <3>4. SeenPeople'
      BY <1>2, <3>1 DEF EnvTypes, MessageTypes, SeenPeople
    <3>. QED
      BY <2>2, <3>1, <3>2, <3>3, <3>4 DEF EnvTypes, MotionTypes, BufferTypes, ClockTypes
  <2>. QED
    BY <2>1, <2>2
<1>4. ControlTypes'
  BY <1>1, <1>2 DEF EnvTypes, ControlTypes
<1>5. CountTypes'
  <2>1. stops' \in 0..(MaxLatency + 1)
    BY <1>1 DEF EnvTypes, CountTypes, Least
  <2>. QED
    BY <1>2, <1>3, <2>1 DEF EnvTypes, CountTypes
<1>6. ClockTypes'
  BY <1>2, <1>3 DEF ClockTypes, InMock
<1>7. MotionTypes'
  BY <1>1, <1>2, <1>3 DEF EnvTypes, MotionTypes
<1>8. MessageTypes'
  BY <1>2, <1>3 DEF EnvTypes, MessageTypes
<1>9. BufferTypes'
  <2>1. <<episode, steps>> \in Int \X Int
    BY DEF EnvTypes, CountTypes
  <2>2. frames' \in Seq(Int \X Int) /\ Len(frames') = StackDepth
    BY <1>2, <2>1, StackedType DEF EnvTypes, BufferTypes
  <2>. QED
    BY <1>2, <1>3, <2>2 DEF BufferTypes
<1>. QED
  BY <1>4, <1>5, <1>6, <1>7, <1>8, <1>9 DEF EnvTypes

LEMMA EndStepTypes ==
    ASSUME EnvTypes, EndStep
    PROVE  EnvTypes'
<1>. USE ConstantTypes
<1>. DEFINE r == IF InMock THEN robot ELSE Synced
<1>1. r \in Moving
  BY SyncedType DEF EnvTypes, MotionTypes
<1>2. /\ phase = "spin" /\ robot' = r /\ steps' = steps + 1
      /\ prev_goal_dist' = GoalDist(r.x)
      /\ path_length' = path_length + AbsVal(r.x - prev_x)
      /\ prev_x' = r.x
      /\ outcome' \in {"none", "collision", "reached", "timeout"}
      /\ phase' \in {"reset", "act"}
      /\ phase' = "act" => ~ (steps + 1 >= MaxSteps)
  BY DEF EndStep
<1>3. /\ setup' = setup /\ episode' = episode /\ prev_v' = prev_v /\ kind' = kind
      /\ latency' = latency /\ buf' = buf /\ odom' = odom /\ humans' = humans
      /\ scan_min' = scan_min /\ wait' = wait /\ clock' = clock /\ real' = real
      /\ teleport' = teleport /\ straight_dist' = straight_dist /\ frames' = frames
      /\ need_reset' = need_reset /\ stops' = stops
  BY DEF EndStep, msgVars, worldVars
<1>. HIDE DEF r
<1>4. ControlTypes'
  BY <1>2, <1>3 DEF EnvTypes, ControlTypes
<1>5. CountTypes'
  BY <1>2, <1>3 DEF EnvTypes, CountTypes
<1>6. ClockTypes'
  BY <1>2, <1>3 DEF EnvTypes, ClockTypes, InMock
<1>7. MotionTypes'
  <2>1. r.x \in Int /\ prev_x \in Int /\ path_length \in Nat
    BY <1>1 DEF EnvTypes, MotionTypes, Moving
  <2>2. GoalDist(r.x) \in Nat /\ AbsVal(r.x - prev_x) \in Nat
    BY <2>1 DEF GoalDist, AbsVal
  <2>. QED
    BY <1>1, <1>2, <1>3, <2>1, <2>2 DEF EnvTypes, MotionTypes
<1>8. MessageTypes'
  BY <1>3 DEF EnvTypes, MessageTypes, SeenPeople
<1>9. BufferTypes'
  BY <1>3 DEF EnvTypes, BufferTypes
<1>. QED
  BY <1>4, <1>5, <1>6, <1>7, <1>8, <1>9 DEF EnvTypes

\* The shortest range of a scan: everything it meets is at some distance.
LEMMA ScanType ==
    ASSUME EnvTypes, NEW x \in Int
    PROVE  ScanAt(x) \in Nat
<1>. DEFINE people == {Greatest(0, d - HumanRadius) : d \in Distances(PeopleAt(setup.crowd, clock), x)}
            walls  == {IF InBox(x, box, 0) THEN 0 ELSE Least(AbsVal(box[1] - x), AbsVal(box[2] - x)) :
                            box \in setup.walls}
<1>. setup \in Setups /\ clock \in Times /\ HumanRadius \in Nat
  BY EnvAssumption DEF EnvTypes, ControlTypes, ClockTypes, Times
<1>1. people \subseteq Nat
  <2>1. \A i \in DOMAIN PeopleAt(setup.crowd, clock) : PeopleAt(setup.crowd, clock)[i] \in Pose
    BY CrowdAssumption DEF PeopleAt, Pose, Times
  <2>2. Distances(PeopleAt(setup.crowd, clock), x) \subseteq Nat
    BY <2>1, DistanceType
  <2>. QED
    BY <2>2 DEF Greatest
<1>2. walls \subseteq Nat
  <2>1. \A box \in setup.walls : box[1] \in Int /\ box[2] \in Int
    BY EnvAssumption
  <2>2. \A a \in Int : AbsVal(a - x) \in Nat
    BY DEF AbsVal
  <2>. QED
    BY <2>1, <2>2 DEF Least
<1>3. ScanAt(x) = Min(people \union walls \union {Far})
  BY DEF ScanAt
<1>4. people \union walls \union {Far} \subseteq Nat
  BY <1>1, <1>2, BigTtcType DEF Far
<1>. HIDE DEF people, walls
<1>. QED
  BY <1>3, <1>4, MinOfNaturals

LEMMA GazeboTypes ==
    ASSUME EnvTypes,
           SimulationAdvances \/ TeleportLate \/ OdomArrives \/ HumansArrive \/ ScanArrives
    PROVE  EnvTypes'
<1>. USE ConstantTypes
<1>1. /\ ~ InMock
      /\ setup' = setup /\ phase' = phase /\ episode' = episode /\ robot' = robot
      /\ steps' = steps /\ prev_v' = prev_v /\ prev_goal_dist' = prev_goal_dist
      /\ kind' = kind /\ latency' = latency /\ buf' = buf
      /\ teleport' \in {teleport, "none"}
      /\ path_length' = path_length /\ straight_dist' = straight_dist /\ prev_x' = prev_x
      /\ outcome' = outcome /\ frames' = frames /\ need_reset' = need_reset /\ stops' = stops
  BY DEF SimulationAdvances, TeleportLate, OdomArrives, HumansArrive, ScanArrives, Spinning,
         envVars, driverVars, msgVars, worldVars
<1>2. /\ wait' \in 0..Greatest(1, SettlePeriods)
      /\ clock' \in 0..Greatest(Period, MaxSteps)
      /\ real' \in [x : Int, v : Speeds]
  <2>1. CASE SimulationAdvances
    <3>1. wait' = wait - 1 /\ wait > 0
      BY <2>1 DEF SimulationAdvances, WaitLeft
    <3>2. (clock + 1) % Period \in 0..(Period - 1)
      BY DEF EnvTypes, ClockTypes
    <3>3. real' = [real EXCEPT !.x = @ + real.v] /\ clock' = (clock + 1) % Period
      BY <2>1 DEF SimulationAdvances
    <3>4. real' \in [x : Int, v : Speeds]
      BY <3>3 DEF EnvTypes, MotionTypes, Speeds
    <3>. QED
      BY <3>1, <3>2, <3>3, <3>4 DEF EnvTypes, CountTypes, Greatest
  <2>2. CASE OdomArrives \/ HumansArrive \/ ScanArrives
    <3>1. wait' = wait /\ clock' = clock /\ real' = real
      BY <2>2 DEF OdomArrives, HumansArrive, ScanArrives, worldVars
    <3>. QED
      BY <3>1 DEF EnvTypes, CountTypes, ClockTypes, MotionTypes
  <2>3. CASE TeleportLate
    <3>1. wait' = wait /\ clock' = clock /\ real' = [real EXCEPT !.x = RobotStart]
      BY <2>3 DEF TeleportLate
    <3>. QED
      BY <3>1 DEF EnvTypes, CountTypes, ClockTypes, MotionTypes
  <2>. QED
    BY <2>1, <2>2, <2>3
<1>3. ControlTypes'
  BY <1>1 DEF EnvTypes, ControlTypes
<1>4. CountTypes'
  BY <1>1, <1>2 DEF EnvTypes, CountTypes
<1>5. ClockTypes'
  BY <1>1, <1>2 DEF ClockTypes, InMock
<1>6. MotionTypes'
  BY <1>1, <1>2 DEF EnvTypes, MotionTypes
<1>7. MessageTypes'
  <2>1. real.x \in Int /\ real.v \in 0..MaxLinVel /\ episode \in 0..Episodes
    BY DEF EnvTypes, MotionTypes, Speeds, CountTypes
  <2>2. odom' \in [x : Int, v : 0..(2 * MaxLinVel), stamp : None..Episodes]
    <3>1. CASE OdomArrives
      BY <2>1, <3>1 DEF OdomArrives, AbsVal, None
    <3>2. CASE ~ OdomArrives
      <4>1. odom' = odom
        BY <3>2 DEF SimulationAdvances, TeleportLate, HumansArrive, ScanArrives, msgVars
      <4>. QED
        BY <4>1 DEF EnvTypes, MessageTypes
    <3>. QED
      BY <3>1, <3>2
  <2>3. SeenPeople'
    <3>1. CASE HumansArrive
      <4>1. humans' = PeopleAt(setup'.crowd, clock) /\ clock \in Times
        BY <1>1, <3>1 DEF HumansArrive, EnvTypes, ClockTypes, Times
      <4>. QED
        BY <4>1 DEF SeenPeople
    <3>2. CASE ~ HumansArrive
      <4>1. humans' = humans
        BY <3>2 DEF SimulationAdvances, TeleportLate, OdomArrives, ScanArrives, msgVars
      <4>. QED
        BY <1>1, <4>1 DEF EnvTypes, MessageTypes, SeenPeople
    <3>. QED
      BY <3>1, <3>2
  <2>4. scan_min' \in Nat
    <3>1. CASE ScanArrives
      BY <2>1, <3>1, ScanType DEF ScanArrives
    <3>2. CASE ~ ScanArrives
      <4>1. scan_min' = scan_min
        BY <3>2 DEF SimulationAdvances, TeleportLate, OdomArrives, HumansArrive, msgVars
      <4>. QED
        BY <4>1 DEF EnvTypes, MessageTypes
    <3>. QED
      BY <3>1, <3>2
  <2>. QED
    BY <2>2, <2>3, <2>4 DEF MessageTypes
<1>8. BufferTypes'
  BY <1>1 DEF EnvTypes, BufferTypes
<1>. QED
  BY <1>3, <1>4, <1>5, <1>6, <1>7, <1>8 DEF EnvTypes

LEMMA TypesStutter ==
    ASSUME EnvTypes, UNCHANGED vars
    PROVE  EnvTypes'
BY DEF vars, envVars, msgVars, worldVars, driverVars, EnvTypes, ControlTypes, CountTypes,
       ClockTypes, MotionTypes, MessageTypes, BufferTypes, SeenPeople, InMock

\* EnvTypes is an invariant, and with it TypeOK.
THEOREM TypesHold == Spec => []EnvTypes
<1>1. EnvTypes /\ [Next]_vars => EnvTypes'
  BY ResetMockTypes, ResetGazeboTypes, SettledTypes, ActTypes, EndStepTypes, GazeboTypes,
     TypesStutter DEF Next, Program
<1>. QED
  BY <1>1, InitTypes, PTL DEF Spec

\* Whatever the policy puts out and whenever the messages come, every command is a speed
\* the robot has, and every count of an episode stays within its bound.
THEOREM TypeCorrect == Spec => []TypeOK
BY TypesHold, TypesSuffice, PTL

-----------------------------------------------------------------------------
(***************************************************************************)
(* An emergency stop that lasts reaches the robot                          *)
(***************************************************************************)

\* The commands of the last stops periods are the newest of the delay line, and stop.
StopsInLine ==
    InMock => \A i \in 1..Len(buf) : i > Len(buf) - stops => buf[i] = 0

\* A drive base that is told to stop stops, whatever its tracking error.
LEMMA StopIsTracked ==
    ASSUME NEW executed \in Tracked(0)
    PROVE  executed = 0
<1>1. TrackingError \in Nat /\ TrackingError * 0 = 0
  BY EnvAssumption
<1>2. CASE setup.dr
  <2>1. executed \in Nat /\ 100 * AbsVal(executed - 0) <= 0
    BY <1>1, <1>2 DEF Tracked
  <2>. QED
    BY <2>1 DEF AbsVal
<1>3. CASE ~ setup.dr
  BY <1>3 DEF Tracked
<1>. QED
  BY <1>2, <1>3

LEMMA ActStopsInLine ==
    ASSUME EnvTypes, StopsInLine, Act
    PROVE  StopsInLine' /\ StopReachesRobot'
<1>. SUFFICES ASSUME InMock PROVE StopsInLine' /\ StopReachesRobot'
  BY ActType DEF StopsInLine, StopReachesRobot, InMock
<1>1. PICK decided \in Decisions :
        /\ decided.v \in Speeds
        /\ stops' = IF kind' # "emergency_stop" THEN 0 ELSE Least(stops + 1, MaxLatency + 1)
        /\ kind' = "emergency_stop" => decided.v = 0
        /\ MockStep(decided.v)
  BY ActType
<1>2. latency' = latency
  BY ActType
<1>3. /\ buf \in Seq(Speeds) /\ Len(buf) \in Nat /\ Len(buf) <= latency + 1
      /\ latency \in Nat /\ latency <= MaxLatency /\ MaxLatency \in Nat /\ stops \in Nat
  BY ConstantTypes DEF EnvTypes, BufferTypes, CountTypes
<1>4. buf' = Delayed(decided.v)
  BY <1>1 DEF MockStep
<1>. DEFINE n == Len(buf')
<1>5. /\ n \in 1..(latency + 1) /\ n <= Len(buf) + 1
      /\ buf'[n] = decided.v
      /\ \A i \in 1..(n - 1) : buf'[i] = buf[i + Len(buf) + 1 - n]
  BY <1>1, <1>3, <1>4, DelayedType
<1>. HIDE DEF n
<1>6. CASE kind' # "emergency_stop"
  <2>1. stops' = 0
    BY <1>1, <1>6
  <2>. QED
    BY <1>2, <1>3, <1>5, <2>1 DEF StopsInLine, StopReachesRobot, n
<1>7. CASE kind' = "emergency_stop"
  <2>1. stops' = Least(stops + 1, MaxLatency + 1) /\ decided.v = 0
    BY <1>1, <1>7
  <2>2. ASSUME NEW i \in 1..n, i > n - stops'
        PROVE  buf'[i] = 0
    <3>1. CASE i = n
      BY <1>5, <2>1, <3>1
    <3>2. CASE i # n
      <4>. DEFINE j == i + Len(buf) + 1 - n
      <4>1. i \in 1..(n - 1) /\ j \in 1..Len(buf) /\ j > Len(buf) - stops
        BY <1>3, <1>5, <2>1, <2>2, <3>2 DEF Least
      <4>2. buf'[i] = buf[j]
        BY <1>5, <4>1
      <4>. HIDE DEF j
      <4>. QED
        BY <4>1, <4>2 DEF StopsInLine
    <3>. QED
      BY <3>1, <3>2
  <2>3. ASSUME stops' > latency
        PROVE  robot'.v = 0
    <3>1. 1 \in 1..n /\ 1 > n - stops'
      BY <1>3, <1>5, <2>1, <2>3 DEF Least
    <3>2. buf'[1] = 0
      BY <2>2, <3>1
    <3>3. PICK executed \in Tracked(0) : robot' = [x |-> robot.x + executed, v |-> executed]
      BY <1>1, <3>2 DEF MockStep
    <3>. QED
      BY <3>3, StopIsTracked
  <2>. QED
    BY <1>2, <2>2, <2>3 DEF StopsInLine, StopReachesRobot, n
<1>. QED
  BY <1>6, <1>7

\* With any latency and tracking error of the domain randomization, an emergency stop
\* that has lasted longer than the latency holds the robot: the delay line keeps no
\* command from before it.
THEOREM StopIsObeyed == Spec => []StopReachesRobot
<1>. DEFINE Inv == StopsInLine /\ StopReachesRobot
<1>1. Init => Inv
  BY DEF Init, StopsInLine, StopReachesRobot
<1>2. EnvTypes /\ Inv /\ [Next]_vars => Inv'
  <2>. SUFFICES ASSUME EnvTypes, Inv, [Next]_vars PROVE Inv'
    OBVIOUS
  <2>1. CASE ResetMock
    <3>1. buf' = <<>> /\ stops' = 0 /\ latency' \in Nat
      BY <2>1, ConstantTypes DEF ResetMock, BeginEpisode, Latencies
    <3>2. Len(buf') = 0 /\ ~ (stops' > latency')
      BY <3>1
    <3>. QED
      BY <3>2 DEF StopsInLine, StopReachesRobot
  <2>2. CASE Act
    BY <2>2, ActStopsInLine
  <2>3. CASE EndStep
    <3>1. InMock => robot' = robot
      BY <2>3 DEF EndStep
    <3>2. setup' = setup /\ buf' = buf /\ stops' = stops /\ latency' = latency
      BY <2>3 DEF EndStep
    <3>. QED
      BY <3>1, <3>2 DEF StopsInLine, StopReachesRobot, InMock
  <2>4. CASE ResetGazebo \/ Settled \/ SimulationAdvances \/ TeleportLate \/ OdomArrives
             \/ HumansArrive \/ ScanArrives
    <3>1. ~ InMock /\ setup' = setup
      BY <2>4 DEF ResetGazebo, Settled, SimulationAdvances, TeleportLate, OdomArrives, HumansArrive,
                  ScanArrives, Spinning, EnvTypes, ClockTypes
    <3>. QED
      BY <3>1 DEF StopsInLine, StopReachesRobot, InMock
  <2>5. CASE UNCHANGED vars
    BY <2>5 DEF vars, envVars, StopsInLine, StopReachesRobot, InMock
  <2>. QED
    BY <2>1, <2>2, <2>3, <2>4, <2>5 DEF Next, Program
<1>. QED
  BY <1>1, <1>2, TypesHold, PTL DEF Spec

-----------------------------------------------------------------------------
(***************************************************************************)
(* The frames of the policy                                                *)
(***************************************************************************)

\* The frames once those of the steps up to last have been pushed
FramesUpTo(last) ==
    \A i \in 1..StackDepth :
        LET step == last - (StackDepth - i)
        IN  frames[i] = IF step >= 0 THEN <<episode, step>> ELSE NoFrame

\* A policy that was reset stands before its first step; one that was not has been given
\* the frame of the step before.
FramesInOrder ==
    /\ phase = "act" => IF need_reset THEN steps = 0 ELSE FramesUpTo(steps - 1)
    /\ phase = "spin" => ~ need_reset /\ FramesUpTo(steps)

\* Whatever ends the episodes, the frames a learned policy is given are those of this
\* episode, consecutive, the newest last.
THEOREM FramesAreFresh == Spec => []FramesOfThisEpisode
<1>1. Init => FramesInOrder
  BY DEF Init, FramesInOrder
<1>2. EnvTypes /\ FramesInOrder /\ [Next]_vars => FramesInOrder'
  <2>. SUFFICES ASSUME EnvTypes, FramesInOrder, [Next]_vars PROVE FramesInOrder'
    OBVIOUS
  <2>1. CASE ResetMock \/ Settled
    BY <2>1 DEF ResetMock, Settled, BeginEpisode, EnvReset, PolicyReset, FramesInOrder
  <2>2. CASE Act
    <3>1. /\ phase = "act" /\ phase' = "spin" /\ need_reset' = FALSE
          /\ frames' = Stacked(<<episode, steps>>)
          /\ episode' = episode /\ steps' = steps
      BY <2>2, ActType
    <3>2. /\ steps \in Nat /\ episode \in Nat /\ StackDepth \in Nat \ {0}
          /\ frames \in Seq(Int \X Int) /\ Len(frames) = StackDepth
      BY ConstantTypes DEF EnvTypes, CountTypes, BufferTypes
    <3>3. /\ frames'[StackDepth] = <<episode, steps>>
          /\ \A i \in 1..(StackDepth - 1) :
                frames'[i] = IF need_reset THEN NoFrame ELSE frames[i + 1]
      <4>1. <<episode, steps>> \in Int \X Int
        BY <3>2
      <4>. QED
        BY <3>1, <3>2, <4>1, StackedType
    <3>4. ASSUME NEW i \in 1..StackDepth
          PROVE  frames'[i] = IF steps - (StackDepth - i) >= 0
                              THEN <<episode, steps - (StackDepth - i)>> ELSE NoFrame
      <4>1. CASE i = StackDepth
        <5>1. steps - (StackDepth - i) = steps /\ steps >= 0
          BY <3>2, <4>1
        <5>. QED
          BY <3>3, <4>1, <5>1
      <4>2. CASE i # StackDepth /\ need_reset
        <5>1. steps = 0 /\ i \in 1..(StackDepth - 1)
          BY <3>1, <3>2, <4>2 DEF FramesInOrder
        <5>2. ~ (steps - (StackDepth - i) >= 0)
          BY <3>2, <5>1
        <5>. QED
          BY <3>3, <4>2, <5>1, <5>2
      <4>3. CASE i # StackDepth /\ ~ need_reset
        <5>1. i \in 1..(StackDepth - 1) /\ i + 1 \in 1..StackDepth
              /\ (steps - 1) - (StackDepth - (i + 1)) = steps - (StackDepth - i)
          BY <3>2, <4>3
        <5>2. FramesUpTo(steps - 1)
          BY <3>1, <4>3 DEF FramesInOrder
        <5>3. frames[i + 1] = IF steps - (StackDepth - i) >= 0
                              THEN <<episode, steps - (StackDepth - i)>> ELSE NoFrame
          BY <5>1, <5>2 DEF FramesUpTo
        <5>. QED
          BY <3>3, <4>3, <5>1, <5>3
      <4>. QED
        BY <4>1, <4>2, <4>3
    <3>5. FramesUpTo(steps)'
      BY <3>1, <3>4 DEF FramesUpTo
    <3>. QED
      BY <3>1, <3>5 DEF FramesInOrder
  <2>3. CASE EndStep
    <3>1. /\ phase = "spin" /\ phase' \in {"reset", "act"} /\ need_reset' = need_reset
          /\ frames' = frames /\ episode' = episode /\ steps' = steps + 1
      BY <2>3 DEF EndStep
    <3>2. ~ need_reset /\ FramesUpTo(steps)
      BY <3>1 DEF FramesInOrder
    <3>3. steps' - 1 = steps
      BY <3>1 DEF EnvTypes, CountTypes
    <3>4. FramesUpTo(steps - 1)'
      BY <3>1, <3>2, <3>3 DEF FramesUpTo
    <3>. QED
      BY <3>1, <3>2, <3>4 DEF FramesInOrder
  <2>4. CASE ResetGazebo
    BY <2>4 DEF ResetGazebo, FramesInOrder
  <2>5. CASE SimulationAdvances \/ TeleportLate \/ OdomArrives \/ HumansArrive \/ ScanArrives
    <3>1. /\ phase' = phase /\ need_reset' = need_reset /\ frames' = frames
          /\ episode' = episode /\ steps' = steps
      BY <2>5 DEF SimulationAdvances, TeleportLate, OdomArrives, HumansArrive, ScanArrives,
                  envVars, driverVars
    <3>. QED
      BY <3>1 DEF FramesInOrder, FramesUpTo
  <2>6. CASE UNCHANGED vars
    BY <2>6 DEF vars, envVars, driverVars, FramesInOrder, FramesUpTo
  <2>. QED
    BY <2>1, <2>2, <2>3, <2>4, <2>5, <2>6 DEF Next, Program
<1>3. FramesInOrder => FramesOfThisEpisode
  BY DEF FramesInOrder, FramesUpTo, FramesOfThisEpisode
<1>. QED
  BY <1>1, <1>2, <1>3, TypesHold, PTL DEF Spec

-----------------------------------------------------------------------------
(***************************************************************************)
(* The supervised robot in the mock                                        *)
(***************************************************************************)

Supervised == InMock /\ setup.safe_filter /\ ~ setup.dr

\* Without randomization the mock carries out at once what the supervisor decides.
LEMMA DirectStep ==
    ASSUME EnvTypes, Supervised, Act
    PROVE  \E cmd \in [v : Speeds, w : Int] :
            LET v == Filter(cmd, RiskSignals).v
            IN  /\ cmd.v <= prev_v + MaxLinAccel
                /\ prev_v' = v /\ robot' = [x |-> robot.x + v, v |-> v]
                /\ humans' = PeopleAt(setup.crowd, steps + 1)
<1>1. PICK decided \in Decisions :
        prev_v' = decided.v /\ decided.v \in Speeds /\ MockStep(decided.v)
  BY ActType DEF Supervised
<1>2. setup \in Setups /\ SeenPeople /\ robot \in Pose /\ prev_v \in Speeds
  BY DEF EnvTypes, ControlTypes, MessageTypes, MotionTypes, Moving, Pose
<1>3. PICK cmd \in [v : Speeds, w : Int] :
        cmd.v <= prev_v + MaxLinAccel /\ decided = Filter(cmd, RiskSignals)
  BY <1>2, DecisionsType DEF Supervised
<1>4. latency = 0 /\ buf \in Seq(Speeds) /\ phase = "act" /\ clock = steps
  BY ActType DEF EnvTypes, CountTypes, BufferTypes, ClockTypes, Supervised
<1>5. buf' = Delayed(decided.v) /\ Len(buf') = 1 /\ buf'[1] = decided.v
  <2>1. /\ Len(Delayed(decided.v)) \in 1..1
        /\ Delayed(decided.v)[Len(Delayed(decided.v))] = decided.v
    BY <1>1, <1>4, DelayedType
  <2>. QED
    BY <1>1, <2>1 DEF MockStep
<1>6. Tracked(buf'[1]) = {decided.v}
  BY <1>5 DEF Tracked, Supervised
<1>7. /\ robot' = [x |-> robot.x + decided.v, v |-> decided.v]
      /\ humans' = PeopleAt(setup.crowd, steps + 1)
  BY <1>1, <1>4, <1>6 DEF MockStep
<1>. QED
  BY <1>1, <1>3, <1>7

ClearOfWalls(x) == \A s \in Setups : \A box \in s.walls : ~ InBox(x, box, RobotRadius)

\* A robot that is not within the margin of a box cannot reach it in one period.
LEMMA MarginIsEnough ==
    ASSUME EnvTypes, InMock, HitMargin >= MaxLinVel, NEW v \in Speeds,
           ~ ObstacleHit(robot.x, RobotRadius + HitMargin)
    PROVE  ~ ObstacleHit(robot.x + v, RobotRadius)
<1>. SUFFICES ASSUME NEW box \in setup.walls PROVE ~ InBox(robot.x + v, box, RobotRadius)
  BY DEF ObstacleHit
<1>1. box[1] \in Int /\ box[2] \in Int
  BY EnvAssumption DEF EnvTypes, ControlTypes
<1>2. robot.x \in Int /\ v \in 0..MaxLinVel
  BY DEF EnvTypes, MotionTypes, Moving, Speeds
<1>3. RobotRadius \in Nat /\ HitMargin \in Nat /\ MaxLinVel \in Nat
  BY EnvAssumption, ConstantTypes
<1>4. ~ InBox(robot.x, box, RobotRadius + HitMargin)
  BY DEF ObstacleHit
<1>. QED
  BY <1>1, <1>2, <1>3, <1>4 DEF InBox

\* The environment is built once.
LEMMA SetupStays ==
    ASSUME [Next]_vars
    PROVE  setup' = setup
<1>1. CASE ResetMock \/ ResetGazebo \/ Settled
  BY <1>1 DEF ResetMock, ResetGazebo, Settled
<1>2. CASE Act
  BY <1>2 DEF Act
<1>3. CASE EndStep
  BY <1>3 DEF EndStep
<1>4. CASE SimulationAdvances \/ TeleportLate \/ OdomArrives \/ HumansArrive \/ ScanArrives
  BY <1>4 DEF SimulationAdvances, TeleportLate, OdomArrives, HumansArrive, ScanArrives
<1>5. CASE UNCHANGED vars
  BY <1>5 DEF vars
<1>. QED
  BY <1>1, <1>2, <1>3, <1>4, <1>5 DEF Next, Program

\* No step leads from beside the walls into one.
LEMMA WallIsMissed ==
    ASSUME ClearOfWalls(RobotStart), EnvTypes, [Next]_vars, Supervised,
           HitMargin >= MaxLinVel, ~ ObstacleHit(robot.x, RobotRadius)
    PROVE  ~ ObstacleHit(robot'.x, RobotRadius)
<1>1. setup \in Setups /\ InMock
  BY DEF EnvTypes, ControlTypes, Supervised
<1>2. CASE ResetMock
  <2>1. robot'.x = RobotStart /\ setup' = setup
    BY <1>2 DEF ResetMock, BeginEpisode, EnvReset
  <2>. QED
    BY <1>1, <2>1 DEF ClearOfWalls, ObstacleHit
<1>3. CASE Act
  <2>1. PICK cmd \in [v : Speeds, w : Int] :
          robot' = [x |-> robot.x + Filter(cmd, RiskSignals).v, v |-> Filter(cmd, RiskSignals).v]
    BY <1>3, DirectStep
  <2>. DEFINE v == Filter(cmd, RiskSignals).v
  <2>2. robot \in Pose /\ SeenPeople /\ prev_v \in Speeds
    BY DEF EnvTypes, MotionTypes, MessageTypes, Moving, Pose
  <2>3. /\ Informed(RiskSignals)
        /\ RiskSignals.obstacle_imminent <=> ObstacleHit(robot.x, RobotRadius + HitMargin)
    BY <1>1, <2>2, SignalsType
  <2>4. v \in Speeds /\ (Imminent(RiskSignals) => v = 0)
    BY <2>3, FilterType
  <2>5. robot'.x = robot.x + v /\ setup' = setup
    BY <1>3, <2>1 DEF Act
  <2>. HIDE DEF v
  <2>6. CASE ObstacleHit(robot.x, RobotRadius + HitMargin)
    <3>1. v = 0
      BY <2>3, <2>4, <2>6 DEF Imminent
    <3>2. robot'.x = robot.x
      BY <2>2, <2>5, <3>1 DEF Pose
    <3>. QED
      BY <2>5, <3>2
  <2>7. CASE ~ ObstacleHit(robot.x, RobotRadius + HitMargin)
    BY <1>1, <2>4, <2>5, <2>7, MarginIsEnough
  <2>. QED
    BY <2>6, <2>7
<1>4. CASE EndStep
  BY <1>1, <1>4 DEF EndStep
<1>5. CASE ResetGazebo \/ Settled \/ SimulationAdvances \/ TeleportLate \/ OdomArrives
           \/ HumansArrive \/ ScanArrives
  BY <1>1, <1>5 DEF ResetGazebo, Settled, SimulationAdvances, TeleportLate, OdomArrives, HumansArrive,
                    ScanArrives, Spinning, EnvTypes, ClockTypes
<1>6. CASE UNCHANGED vars
  BY <1>6 DEF vars
<1>. QED
  BY <1>2, <1>3, <1>4, <1>5, <1>6 DEF Next, Program

\* Whatever the policy wants, the supervised robot of the mock drives into no obstacle,
\* if the margin of the imminent hit is what it drives in one period and it is not put
\* into one.
THEOREM WallsAreMissed ==
    ASSUME ClearOfWalls(0), ClearOfWalls(RobotStart)
    PROVE  Spec => []WallNeverHit
<1>1. Init => WallNeverHit
  BY DEF Init, WallNeverHit, ObstacleHit, ClearOfWalls
<1>2. EnvTypes /\ WallNeverHit /\ [Next]_vars => WallNeverHit'
  <2>. SUFFICES ASSUME EnvTypes, WallNeverHit, [Next]_vars PROVE WallNeverHit'
    OBVIOUS
  <2>1. setup' = setup
    BY SetupStays
  <2>2. CASE Supervised /\ HitMargin >= MaxLinVel
    <3>1. ~ ObstacleHit(robot.x, RobotRadius)
      BY <2>2 DEF WallNeverHit, Supervised
    <3>2. ~ ObstacleHit(robot'.x, RobotRadius)
      BY <2>2, <3>1, WallIsMissed
    <3>3. ~ ObstacleHit(robot.x, RobotRadius)'
      BY <2>1, <2>2, <3>2 DEF ObstacleHit, Supervised, InMock
    <3>. QED
      BY <3>3 DEF WallNeverHit
  <2>3. CASE ~ (Supervised /\ HitMargin >= MaxLinVel)
    BY <2>1, <2>3 DEF WallNeverHit, Supervised, InMock
  <2>. QED
    BY <2>2, <2>3
<1>. QED
  BY <1>1, <1>2, TypesHold, PTL DEF Spec

-----------------------------------------------------------------------------
(***************************************************************************)
(* Somebody in the way of the supervised robot                             *)
(***************************************************************************)

\* A robot at speed v that is slowed in proportion to its time t to a contact, which is
\* gap away, does not close the gap in the next period, if it does not stop at once.
LEMMA GapIsKept ==
    ASSUME NEW v \in Nat \ {0}, NEW w \in Nat, NEW c \in Nat, NEW t \in Nat, NEW gap \in Nat,
           NEW a \in Nat, NEW slow \in Nat, a < slow,
           w <= v + a, c <= v + a, v * t <= 100 * gap, 100 <= t,
           t < 100 * slow => w = v - a \/ 100 * slow * w <= c * t
    PROVE  w <= gap
<1>. SUFFICES ASSUME gap < w PROVE FALSE
  OBVIOUS
<1>1. v < w
  <2>1. 100 * v <= t * v
    BY ProductGrows
  <2>2. t * v = v * t
    OBVIOUS
  <2>. QED
    BY <2>1, <2>2
<1>2. v + a <= slow * v
  <2>1. (a + 1) * v <= slow * v
    BY ProductGrows
  <2>2. a * 1 <= a * v
    BY ProductGrows
  <2>. QED
    BY <2>1, <2>2
<1>3. CASE t >= 100 * slow
  <2>1. (100 * slow) * v <= t * v
    BY <1>3, ProductGrows
  <2>2. 100 * (slow * v) <= 100 * gap
    BY <2>1
  <2>3. slow * v \in Nat
    BY ProductGrows
  <2>4. slow * v <= gap
    BY <2>2, <2>3
  <2>. QED
    BY <1>2, <2>3, <2>4
<1>4. CASE t < 100 * slow
  <2>1. 100 * slow * w <= c * t
    BY <1>1, <1>4
  <2>2. c * t <= (slow * v) * t
    <3>1. slow * v \in Nat /\ c <= slow * v
      BY <1>2, ProductGrows
    <3>. QED
      BY <3>1, ProductGrows
  <2>3. (slow * v) * t <= slow * (100 * gap)
    <3>1. v * t \in Nat /\ 100 * gap \in Nat
      BY ProductGrows
    <3>2. slow * (v * t) <= slow * (100 * gap)
      BY <3>1, ProductGrows
    <3>. QED
      BY <3>2
  <2>4. (100 * slow) * (gap + 1) <= (100 * slow) * w
    BY ProductGrows
  <2>5. (100 * slow) * (gap + 1) = slow * (100 * gap) + 100 * slow
    OBVIOUS
  <2>6. /\ 100 * slow * w \in Nat /\ c * t \in Nat /\ (slow * v) * t \in Nat
        /\ slow * (100 * gap) \in Nat /\ 100 * slow > 0
    BY ProductGrows
  <2>. QED
    BY <2>1, <2>2, <2>3, <2>4, <2>5, <2>6
<1>. QED
  BY <1>3, <1>4

\* The time of the robot to somebody who stands ahead
LEMMA TimeToStanding ==
    ASSUME NEW d \in Int, NEW v \in Nat \ {0}, NEW contact \in Nat, d >= contact
    PROVE  /\ TimeToCollision(d, 0 - v, contact) \in Nat
           /\ v * TimeToCollision(d, 0 - v, contact) <= 100 * (d - contact)
<1>. DEFINE gap == d - contact
            t == TimeToCollision(d, 0 - v, contact)
            q == (100 * gap) \div v
<1>1. 0 - v \in Int /\ 0 - v # 0 /\ gap \in Nat
  OBVIOUS
<1>2. t = Least(BigTtc, q)
  <2>1. AbsVal(0 - v) = v /\ Sign(0 - v) = -1
    BY <1>1 DEF AbsVal, Sign
  <2>. DEFINE enters == -Sign(0 - v) * d - contact
  <2>2. enters = gap
    BY <2>1
  <2>3. enters >= 0 /\ ~ (0 - v = 0 \/ enters + 2 * contact < 0)
    BY <1>1, <2>2
  <2>4. t = Least(BigTtc, (100 * enters) \div AbsVal(0 - v))
    BY <2>3 DEF TimeToCollision
  <2>. HIDE DEF t, enters
  <2>. QED
    BY <2>1, <2>2, <2>4
<1>3. q \in Nat /\ v * q <= 100 * gap
  <2>1. 100 * gap \in Nat
    BY <1>1
  <2>. QED
    BY <2>1, QuotientBounds
<1>. HIDE DEF q, t
<1>4. t \in Nat /\ t <= q
  BY <1>2, <1>3, BigTtcType DEF Least
<1>5. v * t <= v * q /\ v * t \in Nat /\ v * q \in Nat
  BY <1>3, <1>4, ProductGrows
<1>. QED
  BY <1>3, <1>4, <1>5 DEF t

\* While an episode runs, everybody stands where they stood when it began.
PeopleStand == humans = PeopleAt(setup.crowd, 0)

\* The supervisor knows the speed of the robot; a robot that touches somebody before a
\* step was put there and stands, and one that touches somebody after it is slow.
TouchesSlowly ==
    Supervised /\ EverybodyStands =>
        /\ prev_v = robot.v
        /\ phase \in {"act", "spin"} => PeopleStand
        /\ phase = "act" /\ HumanHit(robot.x) => robot.v = 0
        /\ phase = "spin" /\ HumanHit(robot.x) => robot.v <= MaxLinAccel
        /\ phase = "reset" /\ episode > 0 /\ HumanHit(robot.x) => robot.v <= MaxLinAccel

LEMMA StandingPeople ==
    ASSUME EverybodyStands, NEW time \in Times
    PROVE  PeopleAt(setup.crowd, time) = PeopleAt(setup.crowd, 0)
<1>1. \A i \in DOMAIN setup.crowd : PeopleAt(setup.crowd, time)[i] = PeopleAt(setup.crowd, 0)[i]
  BY DEF EverybodyStands, Times
<1>2. /\ PeopleAt(setup.crowd, time)
            = [i \in DOMAIN setup.crowd |-> PeopleAt(setup.crowd, time)[i]]
      /\ PeopleAt(setup.crowd, 0) = [i \in DOMAIN setup.crowd |-> PeopleAt(setup.crowd, 0)[i]]
  BY DEF PeopleAt
<1>. QED
  BY <1>1, <1>2

\* Whoever the robot touches after a step it has come to slowly.
LEMMA ActTouchesSlowly ==
    ASSUME EverybodyStands, MaxLinAccel < TtcSlow, TtcStop > 0,
           EnvTypes, TouchesSlowly, Supervised, Act
    PROVE  /\ prev_v' = robot'.v
           /\ humans' = PeopleAt(setup.crowd, 0)
           /\ HumanHit(robot.x)' => robot'.v <= MaxLinAccel
<1>. USE SupervisorAssumption
<1>1. PICK cmd \in [v : Speeds, w : Int] :
        /\ cmd.v <= prev_v + MaxLinAccel
        /\ prev_v' = Filter(cmd, RiskSignals).v
        /\ robot' = [x |-> robot.x + Filter(cmd, RiskSignals).v, v |-> Filter(cmd, RiskSignals).v]
        /\ humans' = PeopleAt(setup.crowd, steps + 1)
  BY DirectStep
<1>2. setup \in Setups /\ SeenPeople /\ robot \in Pose /\ prev_v \in Speeds
  BY DEF EnvTypes, ControlTypes, MessageTypes, MotionTypes, Moving, Pose
<1>3. phase = "act" /\ phase' = "spin" /\ setup' = setup
  BY ActType
<1>4. prev_v = robot.v /\ humans = PeopleAt(setup.crowd, 0)
  BY <1>3 DEF TouchesSlowly, PeopleStand
<1>5. humans' = PeopleAt(setup.crowd, 0)
  <2>1. steps + 1 \in Times
    BY <1>3, ConstantTypes DEF EnvTypes, CountTypes, Times, Greatest
  <2>. QED
    BY <1>1, <1>2, <2>1, StandingPeople
<1>. DEFINE s == RiskSignals
            w == Filter(cmd, s).v
<1>6. /\ Informed(s) /\ s.prev_v = prev_v
      /\ \A i \in DOMAIN humans :
            s.min_ttc <= TimeToCollision(humans[i].x - robot.x, humans[i].v - robot.v, Contact)
  BY <1>2, SignalsType
<1>7. /\ w \in Nat /\ w <= prev_v + MaxLinAccel
      /\ Imminent(s) => w = 0
      /\ ~ Imminent(s) /\ s.min_ttc < 100 * TtcSlow =>
            w = prev_v - MaxLinAccel \/ 100 * TtcSlow * w <= cmd.v * s.min_ttc
  BY <1>6, FilterType DEF Speeds
<1>8. robot'.x = robot.x + w /\ robot'.v = w /\ prev_v' = w
  BY <1>1
<1>. HIDE DEF w, s
<1>9. ASSUME HumanHit(robot.x)', w > MaxLinAccel
      PROVE  FALSE
  <2>. DEFINE d(i) == humans[i].x - robot.x
  <2>1. robot.v \in Nat \ {0} /\ ~ HumanHit(robot.x)
    BY <1>2, <1>3, <1>4, <1>7, <1>9 DEF TouchesSlowly, Speeds
  <2>2. ~ Imminent(s) /\ s.min_ttc >= 100 * TtcStop /\ s.min_ttc \in Nat
    BY <1>6, <1>7, <1>9 DEF Imminent, Informed
  <2>3. Contact \in Nat
    BY EnvAssumption DEF Contact
  <2>4. PICK i \in DOMAIN humans : AbsVal(humans[i].x - (robot.x + w)) < Contact
    <3>1. MinClearance(robot.x)' = MinClearance(robot.x + w)
      BY <1>4, <1>5, <1>8 DEF MinClearance, Distances
    <3>2. MinClearance(robot.x + w) # None /\ MinClearance(robot.x + w) < Contact
      BY <1>9, <3>1 DEF HumanHit, Contact
    <3>3. robot.x + w \in Int
      BY <1>2, <1>7 DEF Pose
    <3>. QED
      BY <1>2, <3>2, <3>3, ClearanceType
  <2>5. humans[i] \in Pose /\ humans[i].v = 0
    <3>1. i \in DOMAIN setup.crowd
      BY <1>4 DEF PeopleAt
    <3>2. 0 \in Times
      BY ConstantTypes DEF Times, Greatest
    <3>. QED
      BY <1>2, <1>4, <3>1, <3>2, SeenType DEF EverybodyStands, Times
  <2>6. d(i) \in Int /\ robot.x \in Int
    BY <1>2, <2>5 DEF Pose
  <2>7. AbsVal(d(i)) >= Contact
    <3>1. MinClearance(robot.x) # None /\ MinClearance(robot.x) <= AbsVal(d(i))
      BY <1>2, <2>4, <2>6, ClearanceType
    <3>2. ~ (MinClearance(robot.x) < Contact)
      BY <2>1, <3>1 DEF HumanHit
    <3>3. MinClearance(robot.x) \in Nat
      BY <1>2, <2>6, <3>1, ClearanceType
    <3>. QED
      BY <2>3, <2>6, <3>1, <3>2, <3>3 DEF AbsVal
  <2>8. AbsVal(d(i) - w) < Contact
    BY <1>7, <2>4, <2>5, <2>6 DEF Pose
  <2>9. d(i) >= Contact /\ d(i) - Contact < w
    BY <1>7, <2>3, <2>6, <2>7, <2>8 DEF AbsVal
  <2>. DEFINE gap == d(i) - Contact
              t == s.min_ttc
              u == TimeToCollision(d(i), 0 - robot.v, Contact)
  <2>10. t <= u /\ u \in Nat /\ robot.v * u <= 100 * gap
    BY <1>6, <2>1, <2>3, <2>5, <2>6, <2>9, TimeToStanding
  <2>11. robot.v * t <= 100 * gap
    <3>. HIDE DEF t, u, gap
    <3>1. t \in Nat
      BY <2>2 DEF t
    <3>2. robot.v * t <= robot.v * u /\ robot.v * t \in Nat /\ robot.v * u \in Nat
      BY <2>1, <2>10, <3>1, ProductGrows
    <3>3. gap \in Int
      BY <2>3, <2>6 DEF gap
    <3>. QED
      BY <2>10, <3>2, <3>3
  <2>12. gap \in Nat /\ 100 <= t /\ t \in Nat /\ cmd.v \in Nat /\ cmd.v <= robot.v + MaxLinAccel
    BY <1>1, <1>4, <2>2, <2>3, <2>6, <2>9 DEF Speeds
  <2>13. w <= gap
    <3>. HIDE DEF gap, t
    <3>1. t < 100 * TtcSlow => w = robot.v - MaxLinAccel \/ 100 * TtcSlow * w <= cmd.v * t
      BY <1>4, <1>7, <2>2 DEF t
    <3>. QED
      BY <1>4, <1>7, <2>1, <2>11, <2>12, <3>1, GapIsKept
  <2>. QED
    BY <1>7, <2>9, <2>12, <2>13
<1>. QED
  BY <1>5, <1>7, <1>8, <1>9

\* Where everybody stands, and if the acceleration of a period leads from the least speed
\* above rest to less than TtcSlow times it, the supervised robot touches people at no more
\* than the speed of one period's acceleration: it does creep up to them, but is stopped
\* before it has any speed.
THEOREM TouchIsSlow ==
    ASSUME MaxLinAccel < TtcSlow, TtcStop > 0
    PROVE  Spec => []CreepsAtWorst
<1>1. Init => TouchesSlowly
  BY DEF Init, TouchesSlowly
<1>2. EnvTypes /\ TouchesSlowly /\ [Next]_vars => TouchesSlowly'
  <2>. SUFFICES ASSUME EnvTypes, TouchesSlowly, [Next]_vars PROVE TouchesSlowly'
    OBVIOUS
  <2>1. setup' = setup /\ (Supervised' <=> Supervised)
        /\ (EverybodyStands' <=> EverybodyStands)
    BY SetupStays DEF Supervised, InMock, EverybodyStands
  <2>. SUFFICES ASSUME Supervised, EverybodyStands PROVE TouchesSlowly'
    BY <2>1 DEF TouchesSlowly
  <2>2. CASE ResetMock
    <3>1. /\ prev_v' = 0 /\ robot'.v = 0 /\ phase' = "act"
          /\ humans' = PeopleAt(setup.crowd, 0)
      BY <2>2 DEF ResetMock, BeginEpisode, EnvReset
    <3>. QED
      BY <2>1, <3>1 DEF TouchesSlowly, PeopleStand
  <2>3. CASE Act
    <3>1. /\ prev_v' = robot'.v /\ humans' = PeopleAt(setup.crowd, 0)
          /\ HumanHit(robot.x)' => robot'.v <= MaxLinAccel
      BY <2>3, ActTouchesSlowly
    <3>2. phase' = "spin"
      BY <2>3, ActType
    <3>. QED
      BY <2>1, <3>1, <3>2 DEF TouchesSlowly, PeopleStand
  <2>4. CASE EndStep
    <3>1. /\ phase = "spin" /\ robot' = robot /\ humans' = humans /\ prev_v' = prev_v
          /\ phase' \in {"act", "reset"} /\ episode' = episode
          /\ phase' = "act" => ~ HumanHit(robot.x)
      BY <2>4 DEF EndStep, msgVars, Supervised, Transition
    <3>2. HumanHit(robot.x)' <=> HumanHit(robot.x)
      BY <3>1 DEF HumanHit, MinClearance
    <3>. QED
      BY <2>1, <3>1, <3>2 DEF TouchesSlowly, PeopleStand
  <2>5. CASE ResetGazebo \/ Settled \/ SimulationAdvances \/ TeleportLate \/ OdomArrives
             \/ HumansArrive \/ ScanArrives
    BY <2>5 DEF ResetGazebo, Settled, SimulationAdvances, TeleportLate, OdomArrives, HumansArrive,
                ScanArrives, Spinning, EnvTypes, ClockTypes, Supervised
  <2>6. CASE UNCHANGED vars
    BY <2>6 DEF vars, envVars, msgVars, TouchesSlowly, PeopleStand, Supervised, InMock,
                HumanHit, MinClearance
  <2>. QED
    BY <2>2, <2>3, <2>4, <2>5, <2>6 DEF Next, Program
<1>3. TouchesSlowly => CreepsAtWorst
  BY ConstantTypes DEF TouchesSlowly, CreepsAtWorst, Rests, Supervised
<1>. QED
  BY <1>1, <1>2, <1>3, TypesHold, PTL DEF Spec

-----------------------------------------------------------------------------
(***************************************************************************)
(* The beginning of an episode in Gazebo                                   *)
(***************************************************************************)

\* Where the robot may have driven to since the teleport, while reset waits
Driven == RobotStart..(RobotStart + (SettlePeriods - wait) * MaxLinVel)

\* After a teleport that was answered the robot drives from the start on, and
\* odometry of this episode is from where it has been since.
StartInSight ==
    /\ odom.stamp <= episode
    /\ phase = "settle" /\ teleport = "answered" =>
        /\ wait <= SettlePeriods
        /\ real.x \in Driven
        /\ odom.stamp = episode => odom.x \in Driven
    /\ StartsWhereTold

LEMMA SettleStartInSight ==
    ASSUME EnvTypes, StartInSight, SimulationAdvances \/ OdomArrives
    PROVE  StartInSight'
<1>. USE ConstantTypes
<1>1. /\ phase' = phase /\ episode' = episode /\ teleport' = teleport
      /\ setup' = setup /\ steps' = steps /\ robot' = robot
      /\ phase \in {"settle", "spin"} /\ ~ InMock
  BY DEF SimulationAdvances, OdomArrives, Spinning, envVars, worldVars
<1>2. /\ real.x \in Int /\ real.v \in 0..MaxLinVel /\ wait \in Nat
      /\ odom.stamp \in Int /\ episode \in Nat
  BY DEF EnvTypes, MotionTypes, MessageTypes, CountTypes, Speeds, None
<1>3. StartsWhereTold'
  BY <1>1 DEF StartsWhereTold
<1>4. CASE SimulationAdvances
  <2>1. /\ wait > 0 /\ wait' = wait - 1 /\ odom' = odom
        /\ real' = [real EXCEPT !.x = @ + real.v]
    BY <1>4 DEF SimulationAdvances, WaitLeft, msgVars
  <2>2. real'.x = real.x + real.v
    BY <2>1 DEF EnvTypes, MotionTypes
  <2>3. ASSUME wait <= SettlePeriods
        PROVE  (SettlePeriods - wait') * MaxLinVel = (SettlePeriods - wait) * MaxLinVel + MaxLinVel
               /\ (SettlePeriods - wait) * MaxLinVel \in Nat
    <3>1. SettlePeriods - wait \in Nat /\ SettlePeriods - wait' = (SettlePeriods - wait) + 1
      BY <1>2, <2>1, <2>3
    <3>2. \A n \in Nat : (n + 1) * MaxLinVel = n * MaxLinVel + MaxLinVel /\ n * MaxLinVel \in Nat
      BY ProductGrows
    <3>. QED
      BY <3>1, <3>2
  <2>4. ASSUME phase = "settle", teleport = "answered"
        PROVE  /\ wait' <= SettlePeriods
               /\ real'.x \in Driven'
               /\ odom'.stamp = episode => odom'.x \in Driven'
    <3>. DEFINE way == (SettlePeriods - wait) * MaxLinVel
    <3>1. /\ wait <= SettlePeriods /\ real.x \in Driven
          /\ odom.stamp = episode => odom.x \in Driven
      BY <2>4 DEF StartInSight
    <3>2. /\ Driven = RobotStart..(RobotStart + way)
          /\ Driven' = RobotStart..(RobotStart + (way + MaxLinVel)) /\ way \in Nat
      BY <2>3, <3>1 DEF Driven
    <3>3. SettlePeriods \in Nat /\ MaxLinVel \in Nat /\ RobotStart \in Int
      OBVIOUS
    <3>. HIDE DEF way
    <3>4. wait' <= SettlePeriods
      BY <1>2, <2>1, <3>1, <3>3
    <3>5. \A x \in Driven, v \in 0..MaxLinVel : x \in Driven' /\ x + v \in Driven'
      BY <3>2, <3>3
    <3>6. 0 \in 0..MaxLinVel
      BY <3>3
    <3>7. real'.x \in Driven'
      BY <1>2, <2>2, <3>1, <3>5
    <3>8. odom'.stamp = episode => odom'.x \in Driven'
      BY <2>1, <3>1, <3>5, <3>6
    <3>. QED
      BY <3>4, <3>7, <3>8
  <2>. QED
    BY <1>1, <1>3, <2>1, <2>4 DEF StartInSight
<1>5. CASE OdomArrives
  <2>1. /\ odom'.x = real.x /\ odom'.stamp = episode /\ real' = real /\ wait' = wait
    BY <1>5 DEF OdomArrives, worldVars
  <2>2. Driven' = Driven
    BY <2>1 DEF Driven
  <2>. QED
    BY <1>1, <1>2, <1>3, <2>1, <2>2 DEF StartInSight
<1>. QED
  BY <1>4, <1>5

\* However long the settling and whatever messages are lost: once odometry has come after
\* a teleport that was answered, the episode begins with the robot no further from the
\* start than the command it keeps can have made it drive.
THEOREM StartIsKnown == Spec => []StartsWhereTold
<1>. USE ConstantTypes
<1>1. Init => StartInSight
  BY DEF Init, StartInSight, StartsWhereTold, None
<1>2. EnvTypes /\ StartInSight /\ [Next]_vars => StartInSight'
  <2>. SUFFICES ASSUME EnvTypes, StartInSight, [Next]_vars PROVE StartInSight'
    OBVIOUS
  <2>0. odom.stamp \in Int /\ episode \in Nat /\ odom.stamp <= episode
    BY DEF EnvTypes, MessageTypes, CountTypes, StartInSight, None
  <2>1. CASE ResetMock
    <3>1. InMock /\ setup' = setup /\ odom' = odom /\ episode' = episode + 1 /\ phase' = "act"
      BY <2>1 DEF ResetMock, BeginEpisode
    <3>. QED
      BY <2>0, <3>1 DEF StartInSight, StartsWhereTold, InMock
  <2>2. CASE ResetGazebo
    <3>1. /\ odom' = odom /\ episode' = episode + 1 /\ phase' = "settle"
          /\ wait' = SettlePeriods
          /\ teleport' = "answered" => real'.x = RobotStart
      BY <2>2 DEF ResetGazebo, msgVars, EnvTypes, MotionTypes
    <3>2. RobotStart \in Driven'
      <4>1. RobotStart \in RobotStart..(RobotStart + (SettlePeriods - SettlePeriods) * MaxLinVel)
        OBVIOUS
      <4>2. wait' = SettlePeriods
        BY <3>1, Zenon
      <4>3. Driven' = RobotStart..(RobotStart + (SettlePeriods - wait') * MaxLinVel)
        BY Zenon DEF Driven
      <4>. QED
        BY <4>1, <4>2, <4>3, Zenon
    <3>3. odom'.stamp # episode'
      BY <2>0, <3>1
    <3>4. odom'.stamp <= episode' /\ wait' <= SettlePeriods
      <4>1. SettlePeriods <= SettlePeriods /\ odom.stamp <= episode + 1
        BY <2>0
      <4>. QED
        BY <3>1, <4>1, Zenon
    <3>5. StartsWhereTold'
      BY <3>1 DEF StartsWhereTold
    <3>. QED
      <4>1. teleport' = "answered" => real'.x \in Driven'
        BY <3>1, <3>2, Zenon
      <4>. QED
        BY <3>3, <3>4, <3>5, <4>1, Zenon DEF StartInSight
  <2>3. CASE Settled
    <3>1. /\ phase = "settle" /\ wait = 0 /\ odom' = odom /\ episode' = episode
          /\ setup' = setup /\ teleport' = teleport /\ phase' = "act" /\ robot' = Synced
      BY <2>3 DEF Settled, BeginEpisode, EnvReset, AfterSettling, msgVars, worldVars
    <3>2. ASSUME teleport = "answered", odom.stamp = episode
          PROVE  robot'.x \in RobotStart..(RobotStart + SettlePeriods * MaxLinVel)
      <4>1. odom.x \in Driven /\ SettlePeriods - wait = SettlePeriods
        BY <3>1, <3>2 DEF StartInSight
      <4>2. robot'.x = odom.x
        BY <2>0, <3>1, <3>2 DEF Synced, None
      <4>. QED
        BY <4>1, <4>2 DEF Driven
    <3>. QED
      BY <2>0, <3>1, <3>2 DEF StartInSight, StartsWhereTold
  <2>4. CASE Act
    <3>1. phase' = "spin" /\ odom' = odom /\ episode' = episode
      BY <2>4 DEF Act
    <3>. QED
      BY <2>0, <3>1 DEF StartInSight, StartsWhereTold
  <2>5. CASE EndStep
    <3>1. /\ phase' \in {"reset", "act"} /\ odom' = odom /\ episode' = episode
          /\ steps' = steps + 1
      BY <2>5 DEF EndStep, msgVars
    <3>2. steps' # 0
      BY <3>1 DEF EnvTypes, CountTypes
    <3>. QED
      BY <2>0, <3>1, <3>2 DEF StartInSight, StartsWhereTold
  <2>6. CASE SimulationAdvances \/ OdomArrives
    BY <2>6, SettleStartInSight
  <2>7. CASE HumansArrive \/ ScanArrives
    <3>1. /\ phase' = phase /\ odom' = odom /\ episode' = episode /\ wait' = wait
          /\ real' = real /\ teleport' = teleport /\ setup' = setup /\ steps' = steps
          /\ robot' = robot
      BY <2>7 DEF HumansArrive, ScanArrives, envVars, worldVars
    <3>. QED
      BY <3>1 DEF StartInSight, StartsWhereTold, Driven, InMock
  <2>8. CASE UNCHANGED vars
    BY <2>8 DEF vars, envVars, msgVars, worldVars, StartInSight, StartsWhereTold, Driven, InMock
  <2>9. CASE TeleportLate
    <3>1. /\ phase' = phase /\ odom' = odom /\ episode' = episode /\ teleport' # "answered"
      BY <2>9 DEF TeleportLate, msgVars
    <3>. QED
      BY <3>1 DEF StartInSight, StartsWhereTold
  <2>. QED
    BY <2>1, <2>2, <2>3, <2>4, <2>5, <2>6, <2>7, <2>8, <2>9 DEF Next, Program
<1>3. StartInSight => StartsWhereTold
  BY DEF StartInSight
<1>. QED
  BY <1>1, <1>2, <1>3, TypesHold, PTL DEF Spec
=============================================================================
