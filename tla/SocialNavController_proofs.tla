--------------------- MODULE SocialNavController_proofs ---------------------
(***************************************************************************)
(* Proofs about SocialNavController, for every value of its constants:     *)
(* type correctness, the freshness of the humans a cycle scores, the mode  *)
(* fitting the situation, the speed limit, and the implementation of       *)
(* ModeSupervisor.                                                         *)
(***************************************************************************)
EXTENDS SocialNavController, TLAPS

-----------------------------------------------------------------------------
(***************************************************************************)
(* Operators.                                                              *)
(***************************************************************************)

\* std::clamp stays between its bounds.
LEMMA ClampRange ==
    ASSUME NEW x \in Int, NEW low \in Int, NEW high \in Int, low <= high
    PROVE  Clamp(x, low, high) \in low..high
BY DEF Clamp

\* Clamped to a cap, a speed is one the robot can drive, within the cap, and
\* not raised.
LEMMA ClampSpeed ==
    ASSUME NEW speed \in Int, NEW cap \in 0..max_linear_vel
    PROVE  /\ Clamp(speed, 0, cap) \in 0..max_linear_vel
           /\ Clamp(speed, 0, cap) <= cap
           /\ speed >= 0 => Clamp(speed, 0, cap) <= speed
<1>1. max_linear_vel \in Nat
  BY ControllerAssumption
<1>. QED
  BY <1>1 DEF Clamp

\* A turn rate is always within the limit of the robot.
LEMMA ClampTurnRange ==
    ASSUME NEW w \in Int
    PROVE  ClampTurn(w) \in -max_angular_vel..max_angular_vel
BY ClampRange, ControllerAssumption DEF ClampTurn

\* Scaling an integer gives an integer.
LEMMA ProductType ==
    /\ \A x, y \in Int : x * y \in Int
    /\ \A x \in Int : x \div 10 \in Int
OBVIOUS

\* The effective maximum speed is a speed the robot can drive, whichever limit
\* and flag it is computed from: a torn pair of them included.
LEMMA EffectiveMaxSpeedRange ==
    ASSUME NEW limit \in Int, NEW percentage \in BOOLEAN
    PROVE  EffectiveMaxSpeed(limit, percentage) \in 0..max_linear_vel
<1>1. CASE limit <= 0
  BY <1>1, ControllerAssumption DEF EffectiveMaxSpeed
<1>2. CASE limit > 0
  <2>1. (max_linear_vel * limit) \div 100 \in Int
    BY ControllerAssumption
  <2>2. /\ Clamp((max_linear_vel * limit) \div 100, 0, max_linear_vel)
              \in 0..max_linear_vel
        /\ Clamp(limit, 0, max_linear_vel) \in 0..max_linear_vel
    BY <2>1, ClampRange, ControllerAssumption
  <2>. QED
    BY <1>2, <2>2, ControllerAssumption DEF EffectiveMaxSpeed
<1>. QED
  BY <1>1, <1>2

\* The stand-in of 1e9 is beyond every threshold, so nobody in sight is NORMAL.
LEMMA NobodyInSight ==
    /\ Unbounded \in Nat
    /\ NoHumans \in ModeInputs
    /\ Classify(NoHumans, BaseMargin) = kNormal
<1>. DEFINE a == 100 + hysteresis
            b == cautious_clearance + crowded_clearance + emergency_clearance
                   + emergency_ttc + 1
<1>1. /\ a \in Nat /\ a >= 1 /\ b \in Nat /\ Unbounded = 2 * a * b
      /\ {cautious_clearance, crowded_clearance, emergency_clearance, emergency_ttc}
           \subseteq 0..(b - 1)
  BY ThresholdsAssumption DEF Unbounded
<1>. HIDE DEF a, b
<1>2. Unbounded \in Nat /\ Unbounded >= b
  BY <1>1
<1>. QED
  BY <1>1, <1>2, ThresholdsAssumption
  DEF NoHumans, ModeInputs, Classify, Closer, BaseMargin, kNormal, kEmergency,
      kCrowded, kCautious

\* Whatever the mode was, the next one is at least as cautious as the situation.
LEMMA NextModeFits ==
    ASSUME NEW m \in BehaviorMode, NEW in \in ModeInputs
    PROVE  /\ NextMode(m, in) \in BehaviorMode
           /\ NextMode(m, in) >= Classify(in, BaseMargin)
<1>1. \A threshold \in Nat :
          Closer(in, threshold, BaseMargin) => Closer(in, threshold, LeaveMargin)
  <2>1. \A threshold \in Nat : threshold * 100 <= threshold * (100 + hysteresis)
    BY ThresholdsAssumption
  <2>. QED
    BY <2>1, ThresholdsAssumption DEF Closer, ModeInputs, BaseMargin, LeaveMargin
<1>2. Classify(in, BaseMargin) <= Classify(in, LeaveMargin)
  BY <1>1, ThresholdsAssumption
  DEF Classify, kNormal, kCautious, kCrowded, kEmergency
<1>3. \A margin : Classify(in, margin) \in BehaviorMode
  BY DEF Classify, BehaviorMode, kNormal, kCautious, kCrowded, kEmergency
<1>. QED
  BY <1>2, <1>3 DEF NextMode, BehaviorMode, kNormal, kEmergency

\* modeSpeedScale is a share of the whole, in tenths.
LEMMA SpeedScaleType ==
    ASSUME NEW m \in BehaviorMode
    PROVE  ModeSpeedScale(m) \in {0, 4, 6, 10}
BY DEF ModeSpeedScale

\* What a cycle computes from a snapshot is a mode input.
LEMMA SituationType ==
    ASSUME NEW n \in Nat, NEW in \in SituationsOf(n)
    PROVE  in \in ModeInputs
BY NobodyInSight, ControllerAssumption DEF SituationsOf, ModeInputs

\* A speed scaled by a mode is a speed no higher than it, and within the share
\* of the maximum that the mode has.
LEMMA ScaledSpeed ==
    ASSUME NEW speed \in 0..max_linear_vel, NEW m \in BehaviorMode
    PROVE  LET scaled == (speed * ModeSpeedScale(m)) \div 10
           IN  /\ scaled \in 0..max_linear_vel
               /\ scaled * 10 <= ModeSpeedScale(m) * max_linear_vel
<1>1. max_linear_vel \in Nat
  BY ControllerAssumption
<1>2. ModeSpeedScale(m) \in {0, 4, 6, 10}
  BY SpeedScaleType
<1>3. ASSUME NEW scale \in {0, 4, 6, 10}
      PROVE  /\ (speed * scale) \div 10 \in 0..max_linear_vel
             /\ ((speed * scale) \div 10) * 10 <= scale * max_linear_vel
  BY <1>1
<1>. QED
  BY <1>2, <1>3

-----------------------------------------------------------------------------
(***************************************************************************)
(* Type correctness.                                                       *)
(***************************************************************************)

\* How many humans a message can hold is a number.
LEMMA FiniteCountsNat == FiniteCounts \subseteq Nat
BY ControllerAssumption DEF FiniteCounts

\* What the last step of a cycle makes of the mode, the inputs and the command,
\* in the terms of the contract.
LEMMA CommandStep ==
    ASSUME TypeOK, Command
    PROVE  \E in \in Scenes :
              /\ in \in ModeInputs
              /\ seen' = in
              /\ current_mode_' = NextMode(current_mode_, in)
              /\ current_mode_' \in BehaviorMode
              /\ cmd' \in Commands
              /\ cmd'.v * 10 <= ModeSpeedScale(current_mode_') * max_linear_vel
              /\ current_mode_' = kEmergency => cmd' = Halt
              /\ cmd'.v <= ReadCap
<1>1. PICK in \in SituationsOf(used.count) :
        LET mode   == NextMode(current_mode_, in)
            scaled == (v * ModeSpeedScale(mode)) \div 10
            turn   == IF mode = kEmergency THEN 0 ELSE omega
        IN  /\ seen' = in
            /\ current_mode_' = mode
            /\ cmd' = [v |-> Clamp(scaled, 0, ReadCap), omega |-> ClampTurn(turn)]
  BY DEF Command, ScaledCommand, Return
<1> DEFINE mode   == NextMode(current_mode_, in)
           scaled == (v * ModeSpeedScale(mode)) \div 10
           turn   == IF mode = kEmergency THEN 0 ELSE omega
           speed  == Clamp(scaled, 0, ReadCap)
<1>2. used.count \in FiniteCounts /\ in \in ModeInputs /\ in \in Scenes
  BY SituationType, FiniteCountsNat DEF TypeOK, Snapshot, Scenes
<1>3. mode \in BehaviorMode
  BY <1>2, NextModeFits DEF TypeOK
<1>4. /\ scaled \in 0..max_linear_vel
      /\ scaled * 10 <= ModeSpeedScale(mode) * max_linear_vel
  BY <1>3, ScaledSpeed DEF TypeOK
<1>5. ReadCap \in 0..max_linear_vel
  BY EffectiveMaxSpeedRange DEF Command, ScaledCommand, ReadCap, TypeOK
<1>6. speed \in 0..max_linear_vel /\ speed <= ReadCap /\ speed <= scaled
  <2>1. scaled \in Int /\ scaled >= 0
    BY <1>4, ControllerAssumption
  <2> HIDE DEF scaled
  <2>2. /\ Clamp(scaled, 0, ReadCap) \in 0..max_linear_vel
        /\ Clamp(scaled, 0, ReadCap) <= ReadCap
        /\ scaled >= 0 => Clamp(scaled, 0, ReadCap) <= scaled
    BY <1>5, <2>1, ClampSpeed
  <2>. QED
    BY <2>1, <2>2
<1>7. ClampTurn(turn) \in -max_angular_vel..max_angular_vel
  <2>1. turn \in Int
    BY ControllerAssumption DEF TypeOK
  <2>. QED
    BY <2>1, ClampTurnRange
<1>8. mode = kEmergency => scaled = 0 /\ ClampTurn(turn) = 0
  <2> SUFFICES ASSUME mode = kEmergency
               PROVE  scaled = 0 /\ ClampTurn(turn) = 0
    OBVIOUS
  <2>1. ModeSpeedScale(mode) = 0
    BY DEF ModeSpeedScale, kEmergency, kCautious, kCrowded
  <2>2. scaled = 0
    BY <2>1 DEF TypeOK
  <2>3. ClampTurn(0) = 0
    BY ControllerAssumption DEF ClampTurn, Clamp
  <2>. QED
    BY <2>2, <2>3
<1>9. cmd' = [v |-> speed, omega |-> ClampTurn(turn)]
  BY <1>1
<1>10. current_mode_' = mode /\ seen' = in
  BY <1>1
<1> HIDE DEF mode, scaled, speed, turn
<1>11. cmd' \in Commands /\ cmd'.v <= ReadCap
  BY <1>5, <1>6, <1>7, <1>9, ControllerAssumption DEF Commands
<1>12. cmd'.v * 10 <= ModeSpeedScale(mode) * max_linear_vel
  <2>1. speed \in Int /\ scaled \in Int
    BY <1>4, <1>6, ControllerAssumption
  <2>2. ModeSpeedScale(mode) * max_linear_vel \in Int
    BY <1>3, SpeedScaleType, ControllerAssumption
  <2>3. speed * 10 <= ModeSpeedScale(mode) * max_linear_vel
    BY <1>4, <1>6, <2>1, <2>2
  <2>. QED
    BY <1>9, <2>3
<1>13. mode = kEmergency => cmd' = Halt
  BY <1>5, <1>6, <1>8, <1>9, ControllerAssumption DEF Halt
<1>14. mode = NextMode(current_mode_, in)
  BY DEF mode
<1>. QED
  BY <1>2, <1>3, <1>10, <1>11, <1>12, <1>13, <1>14

\* What a returning cycle leaves in its locals is of their types.
LEMMA ReturnType ==
    /\ Halt \in Commands
    /\ NoSnapshot \in Snapshot
    /\ 0 \in 0..max_linear_vel
    /\ 0 \in -max_angular_vel..max_angular_vel
BY ControllerAssumption DEF Halt, Commands, NoSnapshot, Snapshot, FiniteCounts

\* The message a new plugin starts from, and goes back to, is a message.
LEMMA NobodyType == NobodyAt(0) \in Message
BY DEF NobodyAt, Message, Humans, FiniteCounts

\* Every step of either thread and of the environment keeps the types.
LEMMA TypeStep == TypeOK /\ [Next]_vars => TypeOK'
<1> SUFFICES ASSUME TypeOK, [Next]_vars PROVE TypeOK'
  OBVIOUS
<1> USE DEF TypeOK, plugin, humansVars, modeVars, limitVars, threadVars, cycle,
            returnVars
<1>1. CASE UNCHANGED vars
  BY <1>1 DEF vars
<1>2. CASE Tick
  BY <1>2, ControllerAssumption DEF Tick
<1>3. CASE PublishHumans
  <2>1. now \in Nat
    BY ControllerAssumption
  <2> DEFINE Msg(listed, finite) ==
               [stamp  |-> now,
                humans |-> [at |-> now, listed |-> listed, finite |-> finite]]
  <2>2. PICK listed \in HumanCounts : \E finite \in 0..listed :
          channel' = IF Len(channel) < QueueDepth
                     THEN Append(channel, Msg(listed, finite))
                     ELSE Append(Tail(channel), Msg(listed, finite))
    BY <1>3 DEF PublishHumans
  <2>3. PICK finite \in 0..listed :
          channel' = IF Len(channel) < QueueDepth
                     THEN Append(channel, Msg(listed, finite))
                     ELSE Append(Tail(channel), Msg(listed, finite))
    BY <2>2
  <2> DEFINE msg == Msg(listed, finite)
  <2>4. msg \in Message
    <3>1. listed \in Nat /\ finite \in FiniteCounts
      BY ControllerAssumption DEF FiniteCounts
    <3>. QED
      BY <2>1, <3>1 DEF Message, Humans
  <2>5. channel = << >> => Len(channel) < QueueDepth
    BY ControllerAssumption
  <2>6. channel' \in Seq(Message)
    <3>0. channel' = IF Len(channel) < QueueDepth THEN Append(channel, msg)
                     ELSE Append(Tail(channel), msg)
      BY <2>3
    <3> HIDE DEF msg
    <3>1. CASE Len(channel) < QueueDepth
      BY <3>0, <2>4, <3>1
    <3>2. CASE ~ Len(channel) < QueueDepth
      <4>1. Tail(channel) \in Seq(Message)
        BY <2>5, <3>2
      <4>. QED
        BY <3>0, <2>4, <3>2, <4>1
    <3>. QED
      BY <3>1, <3>2
  <2>. QED
    BY <1>3, <2>6 DEF PublishHumans
<1>4. CASE SetPlan
  BY <1>4 DEF SetPlan
<1>5. CASE ControllerThread
  <2>1. CASE StartCycle
    BY <2>1, ReturnType DEF StartCycle, Return
  <2>2. CASE ReadSpeedLimit
    BY <2>2 DEF ReadSpeedLimit
  <2>3. CASE Pursue
    <3>1. \A w \in TurnRates : ClampTurn(w) \in -max_angular_vel..max_angular_vel
      BY ClampTurnRange, ControllerAssumption
    <3>2. limit_read # NotRead =>
            \A desired \in DesiredSpeeds :
              Clamp(desired, 0, ReadCap) \in 0..max_linear_vel
      <4> SUFFICES ASSUME limit_read # NotRead, NEW desired \in DesiredSpeeds
                   PROVE  Clamp(desired, 0, ReadCap) \in 0..max_linear_vel
        OBVIOUS
      <4>1. ReadCap \in 0..max_linear_vel
        BY EffectiveMaxSpeedRange DEF ReadCap
      <4>2. desired \in Int
        BY ControllerAssumption
      <4>. QED
        BY <4>1, <4>2, ClampSpeed
    <3>. QED
      BY <2>3, <3>1, <3>2, ControllerAssumption DEF Pursue
  <2>4. CASE Sample
    <3>1. ReadCap \in 0..max_linear_vel
      BY <2>4, EffectiveMaxSpeedRange DEF ReadCap, Sample
    <3>2. PICK vf \in VFactors, wo \in WOffsets :
            /\ v' = Clamp((v * vf) \div 10, 0, ReadCap)
            /\ omega' = ClampTurn(omega + wo)
      BY <2>4 DEF Sample
    <3>3. /\ (v * vf) \div 10 \in Int
          /\ omega + wo \in Int
      <4>1. v \in Int /\ omega \in Int /\ vf \in Int /\ wo \in Int
        BY ControllerAssumption
      <4>2. v * vf \in Int
        BY <4>1, ProductType
      <4>. QED
        BY ONLY <4>1, <4>2, ProductType
    <3>4. Clamp((v * vf) \div 10, 0, ReadCap) \in 0..max_linear_vel
      BY <3>1, <3>3, ClampSpeed
    <3>5. ClampTurn(omega + wo) \in -max_angular_vel..max_angular_vel
      BY <3>3, ClampTurnRange
    <3>. QED
      BY <2>4, <3>2, <3>4, <3>5 DEF Sample
  <2>5. CASE CurrentHumans
    <3>1. now \in Nat
      BY ControllerAssumption
    <3>2. used' \in Snapshot
      BY <2>5, <3>1, ReturnType DEF CurrentHumans, Stale, MutexFree, Snapshot, Message, Humans
    <3>3. last_humans_stale_' \in BOOLEAN
      BY <2>5 DEF CurrentHumans, Stale, MutexFree
    <3>. QED
      BY <2>5, <3>2, <3>3 DEF CurrentHumans, Stale, MutexFree
  <2>6. CASE SelectCandidate
    BY <2>6, ReturnType DEF SelectCandidate, Return
  <2>7. CASE Command
    <3>1. seen' \in ModeInputs /\ current_mode_' \in BehaviorMode /\ cmd' \in Commands
      BY <2>7, CommandStep
    <3>2. v' = 0 /\ omega' = 0 /\ used' = NoSnapshot /\ pc' = "idle"
          /\ limit_read' = NotRead
          /\ status' \in {"OK", "STALE_HUMAN_DATA", "EMERGENCY_STOP"}
      BY <2>7 DEF Command, ScaledCommand, Return
    <3>. QED
      BY <2>7, <3>1, <3>2, ReturnType DEF Command, ScaledCommand
  <2>. QED
    BY <1>5, <2>1, <2>2, <2>3, <2>4, <2>5, <2>6, <2>7 DEF ControllerThread
<1>6. CASE ExecutorThread
  <2>1. CASE Configure \/ Activate \/ Deactivate
    BY <2>1 DEF Configure, Activate, Deactivate
  <2>2. CASE HumansCallbackBegin
    <3>1. Head(channel) \in Message /\ Tail(channel) \in Seq(Message)
      BY <2>2 DEF HumansCallbackBegin, MutexFree
    <3>2. latest_humans_' \in Message
      BY <2>2, <3>1 DEF HumansCallbackBegin, MutexFree, Message
    <3>. QED
      BY <2>2, <3>1, <3>2 DEF HumansCallbackBegin, MutexFree
  <2>3. CASE HumansCallbackEnd
    <3>1. latest_humans_' \in Message
      BY <2>3 DEF HumansCallbackEnd, Message
    <3>. QED
      BY <2>3, <3>1, NobodyType DEF HumansCallbackEnd
  <2>4. CASE SetSpeedLimitBegin
    BY <2>4, ControllerAssumption DEF SetSpeedLimitBegin
  <2>5. CASE SetSpeedLimitEnd
    BY <2>5 DEF SetSpeedLimitEnd
  <2>6. CASE Cleanup
    BY <2>6 DEF Cleanup
  <2>. QED
    BY <1>6, <2>1, <2>2, <2>3, <2>4, <2>5, <2>6 DEF ExecutorThread
<1>. QED
  BY <1>1, <1>2, <1>3, <1>4, <1>5, <1>6 DEF Next

\* The initial values are of their types.
LEMMA TypeInit == Init => TypeOK
<1>1. NoHumans \in ModeInputs
  BY NobodyInSight
<1>2. kNormal \in BehaviorMode
  BY DEF BehaviorMode, kNormal, kEmergency
<1>3. 0 \in 0..MaxTime /\ 0 \in Int
  BY ControllerAssumption
<1>4. << >> \in Seq(Message)
  OBVIOUS
<1>. QED
  BY <1>1, <1>2, <1>3, <1>4, ReturnType, NobodyType DEF Init, TypeOK

\* Every reachable state is of the types that TypeOK says.
THEOREM TypeCorrect == Spec => []TypeOK
BY TypeInit, TypeStep, PTL DEF Spec

-----------------------------------------------------------------------------
(***************************************************************************)
(* The human feed: the mutex makes the stamp and the list one message.     *)
(***************************************************************************)

\* A message is what its publisher sent: the list was seen at the stamp.
Whole(msg) == msg.stamp = msg.humans.at

\* The strengthening of HumansAreFresh.  While the mutex is free latest_humans_
\* is whole; while the callback holds it, the header is already the one of the
\* message whose list is about to be copied.
FeedInv ==
    /\ \A i \in DOMAIN channel : Whole(channel[i])
    /\ humans_mutex_ = "free" => Whole(latest_humans_)
    /\ executor = "humans" =>
         /\ Whole(arriving)
         /\ latest_humans_.stamp = arriving.stamp
    /\ HumansAreFresh

\* Every step keeps the stored message whole wherever the mutex is free.
LEMMA FeedStep == TypeOK /\ FeedInv /\ [Next]_vars => FeedInv'
<1> SUFFICES ASSUME TypeOK, FeedInv, [Next]_vars PROVE FeedInv'
  OBVIOUS
<1> USE DEF FeedInv, HumansAreFresh, Whole, plugin, humansVars, modeVars,
            limitVars, threadVars, cycle, returnVars
<1>1. CASE UNCHANGED vars
  BY <1>1 DEF vars
<1>2. CASE Tick
  BY <1>2 DEF Tick
<1>3. CASE PublishHumans
  <2> DEFINE Msg(listed, finite) ==
               [stamp  |-> now,
                humans |-> [at |-> now, listed |-> listed, finite |-> finite]]
  <2>1. PICK listed \in HumanCounts : \E finite \in 0..listed :
          channel' = IF Len(channel) < QueueDepth
                     THEN Append(channel, Msg(listed, finite))
                     ELSE Append(Tail(channel), Msg(listed, finite))
    BY <1>3 DEF PublishHumans
  <2>2. PICK finite \in 0..listed :
          channel' = IF Len(channel) < QueueDepth
                     THEN Append(channel, Msg(listed, finite))
                     ELSE Append(Tail(channel), Msg(listed, finite))
    BY <2>1
  <2> DEFINE msg == Msg(listed, finite)
  <2>3. Whole(msg)
    OBVIOUS
  <2>4. channel' = IF Len(channel) < QueueDepth THEN Append(channel, msg)
                   ELSE Append(Tail(channel), msg)
    BY <2>2
  <2> HIDE DEF msg, Whole
  <2>5. channel \in Seq(Message) /\ \A i \in 1..Len(channel) : Whole(channel[i])
    BY DEF TypeOK
  <2>6. CASE Len(channel) < QueueDepth
    <3>1. channel' = Append(channel, msg)
      BY <2>4, <2>6
    <3>2. \A i \in DOMAIN channel' : Whole(channel'[i])
      BY <2>3, <2>5, <3>1
    <3>. QED
      BY <1>3, <3>2 DEF PublishHumans
  <2>7. CASE ~ Len(channel) < QueueDepth
    <3>1. channel' = Append(Tail(channel), msg)
      BY <2>4, <2>7
    <3>2. channel # << >>
      BY <2>7, ControllerAssumption
    <3>3. \A i \in DOMAIN channel' : Whole(channel'[i])
      BY <2>3, <2>5, <3>1, <3>2
    <3>. QED
      BY <1>3, <3>3 DEF PublishHumans
  <2>. QED
    BY <2>6, <2>7
<1>4. CASE SetPlan
  BY <1>4 DEF SetPlan
<1>5. CASE ControllerThread
  <2>1. CASE StartCycle
    BY <2>1 DEF StartCycle, Return, NoSnapshot
  <2>2. CASE ReadSpeedLimit
    BY <2>2 DEF ReadSpeedLimit
  <2>3. CASE Pursue
    BY <2>3 DEF Pursue
  <2>4. CASE Sample
    BY <2>4 DEF Sample
  <2>5. CASE CurrentHumans
    <3>1. /\ now \in Nat
          /\ human_timeout \in Nat
          /\ latest_humans_.stamp \in Nat
          /\ latest_humans_.humans.at \in Nat
      BY ControllerAssumption DEF TypeOK, Message, Humans
    <3>2. latest_humans_.stamp = latest_humans_.humans.at
      BY <2>5 DEF CurrentHumans, Stale, MutexFree
    <3>3. used'.count > 0 => used'.taken - used'.at <= human_timeout
      <4> DEFINE humans == latest_humans_.humans
                 stale  == /\ humans.listed > 0
                           /\ now - latest_humans_.stamp > human_timeout
      <4>1. used' = IF stale \/ humans.listed = 0 THEN NoSnapshot
                    ELSE [count |-> humans.finite, at |-> humans.at, taken |-> now]
        BY <2>5 DEF CurrentHumans, Stale, MutexFree
      <4>2. CASE stale \/ humans.listed = 0
        BY <4>1, <4>2 DEF NoSnapshot
      <4>3. CASE ~ (stale \/ humans.listed = 0)
        <5>1. humans.listed \in Nat
          BY DEF TypeOK, Message, Humans
        <5>2. now - latest_humans_.stamp <= human_timeout
          BY <3>1, <4>3, <5>1
        <5>. QED
          BY <3>2, <4>1, <4>3, <5>2
      <4>. QED
        BY <4>2, <4>3
    <3>. QED
      BY <2>5, <3>3 DEF CurrentHumans, Stale, MutexFree
  <2>6. CASE SelectCandidate
    BY <2>6 DEF SelectCandidate, Return, NoSnapshot
  <2>7. CASE Command
    BY <2>7 DEF Command, ScaledCommand, Return, NoSnapshot
  <2>. QED
    BY <1>5, <2>1, <2>2, <2>3, <2>4, <2>5, <2>6, <2>7 DEF ControllerThread
<1>6. CASE ExecutorThread
  <2>1. CASE Configure \/ Activate \/ Deactivate \/ Cleanup
    BY <2>1 DEF Configure, Activate, Deactivate, Cleanup
  <2>2. CASE HumansCallbackBegin
    <3>1. /\ channel' = Tail(channel)
          /\ channel # << >>
          /\ channel \in Seq(Message)
          /\ latest_humans_ \in Message
      BY <2>2 DEF HumansCallbackBegin, MutexFree, TypeOK
    <3>2. \A i \in 1..Len(channel) : Whole(channel[i])
      BY <3>1
    <3>3. \A i \in DOMAIN channel' : Whole(channel'[i])
      <4> HIDE DEF Whole
      <4>. QED
        BY <3>1, <3>2
    <3>4. Whole(Head(channel))
      <4> HIDE DEF Whole
      <4>. QED
        BY <3>1, <3>2
    <3>5. latest_humans_'.stamp = Head(channel).stamp
      BY <2>2, <3>1 DEF HumansCallbackBegin, MutexFree, Message
    <3>. QED
      BY <2>2, <3>3, <3>4, <3>5 DEF HumansCallbackBegin, MutexFree
  <2>3. CASE HumansCallbackEnd
    <3>1. /\ latest_humans_'.stamp = arriving.stamp
          /\ latest_humans_'.humans = arriving.humans
      BY <2>3 DEF HumansCallbackEnd, TypeOK, Message
    <3>. QED
      BY <2>3, <3>1 DEF HumansCallbackEnd
  <2>4. CASE SetSpeedLimitBegin
    BY <2>4 DEF SetSpeedLimitBegin
  <2>5. CASE SetSpeedLimitEnd
    BY <2>5 DEF SetSpeedLimitEnd
  <2>. QED
    BY <1>6, <2>1, <2>2, <2>3, <2>4, <2>5 DEF ExecutorThread
<1>. QED
  BY <1>1, <1>2, <1>3, <1>4, <1>5, <1>6 DEF Next

\* No cycle scores humans that are older than human_timeout, whatever the
\* callback does while the cycle reads them.
THEOREM HumansFresh == Spec => []HumansAreFresh
<1>1. Init => FeedInv
  BY DEF Init, FeedInv, HumansAreFresh, Whole, NobodyAt, NoSnapshot
<1>2. FeedInv => HumansAreFresh
  BY DEF FeedInv
<1>. QED
  BY <1>1, <1>2, TypeCorrect, FeedStep, PTL DEF Spec

-----------------------------------------------------------------------------
(***************************************************************************)
(* The mode and the command: only the last step of a cycle classifies, and *)
(* a cycle that ends before it halts the robot.                            *)
(***************************************************************************)

\* Whatever is not a Command step leaves the mode and the inputs alone, and
\* either leaves the command alone or halts.
LEMMA OtherSteps ==
    ASSUME [Next]_vars, ~ Command
    PROVE  /\ UNCHANGED <<current_mode_, seen>>
           /\ cmd' = cmd \/ cmd' = Halt
<1> USE DEF plugin, humansVars, modeVars, limitVars, threadVars, cycle, returnVars
<1>1. CASE UNCHANGED vars
  BY <1>1 DEF vars
<1>2. CASE Tick \/ PublishHumans \/ SetPlan
  BY <1>2 DEF Tick, PublishHumans, SetPlan
<1>3. CASE ControllerThread
  BY <1>3 DEF ControllerThread, StartCycle, ReadSpeedLimit, Pursue, Sample,
              CurrentHumans, Stale, MutexFree, SelectCandidate, Return
<1>4. CASE ExecutorThread
  BY <1>4 DEF ExecutorThread, Configure, Activate, Deactivate, Cleanup,
              HumansCallbackBegin, MutexFree, HumansCallbackEnd, SetSpeedLimitBegin,
              SetSpeedLimitEnd
<1>. QED
  BY <1>1, <1>2, <1>3, <1>4 DEF Next

\* The mode is never left behind: the last cycle that classified left it at
\* least as cautious as the situation it saw, and a halt in between (empty
\* plan, no safe trajectory) did not lose it.
ModeFitsSituation ==
    current_mode_ >= Classify(seen, BaseMargin)

\* The mode is at least as cautious as the last situation a cycle classified:
\* escalation is immediate, and nothing but a classification moves the mode.
THEOREM ModeFits == Spec => []ModeFitsSituation
<1>1. Init => ModeFitsSituation
  <2> SUFFICES ASSUME Init PROVE ModeFitsSituation
    OBVIOUS
  <2>1. Classify(NoHumans, BaseMargin) = kNormal
    BY NobodyInSight
  <2>. QED
    BY <2>1 DEF Init, ModeFitsSituation, kNormal
<1>2. ASSUME TypeOK, ModeFitsSituation, [Next]_vars
      PROVE  ModeFitsSituation'
  <2>1. CASE Command
    <3>1. PICK in \in ModeInputs :
            seen' = in /\ current_mode_' = NextMode(current_mode_, in)
      BY <1>2, <2>1, CommandStep
    <3>2. NextMode(current_mode_, in) >= Classify(in, BaseMargin)
      BY <1>2, <3>1, NextModeFits DEF TypeOK
    <3>. QED
      BY <3>1, <3>2 DEF ModeFitsSituation, Classify, Closer, BaseMargin
  <2>2. CASE ~ Command
    BY <1>2, <2>2, OtherSteps DEF ModeFitsSituation, Classify, Closer, BaseMargin
  <2>. QED
    BY <2>1, <2>2
<1>. QED
  BY <1>1, <1>2, TypeCorrect, PTL DEF Spec

\* ModeSupervisor classifies and scales with the same operators.
LEMMA SameModes ==
    /\ Contract!NoHumans = NoHumans
    /\ Contract!kNormal = kNormal
    /\ Contract!kEmergency = kEmergency
    /\ \A m : Contract!ModeSpeedScale(m) = ModeSpeedScale(m)
    /\ \A m, in : Contract!NextMode(m, in) = NextMode(m, in)
<1> USE DEF kNormal, kCautious, kCrowded, kEmergency, Contract!kNormal,
            Contract!kCautious, Contract!kCrowded, Contract!kEmergency
<1>1. Contract!NoHumans = NoHumans
  BY DEF NoHumans, Unbounded, Contract!NoHumans, Contract!Unbounded
<1>2. \A m : Contract!ModeSpeedScale(m) = ModeSpeedScale(m)
  BY DEF ModeSpeedScale, Contract!ModeSpeedScale
<1>3. \A in, margin : Contract!Classify(in, margin) = Classify(in, margin)
  BY DEF Classify, Closer, Contract!Classify, Contract!Closer
<1>4. \A m, in : Contract!NextMode(m, in) = NextMode(m, in)
  BY <1>3 DEF NextMode, BaseMargin, LeaveMargin,
              Contract!NextMode, Contract!BaseMargin, Contract!LeaveMargin
<1>. QED
  BY <1>1, <1>2, <1>4

\* Every behaviour of the two threads is a behaviour of ModeSupervisor: a cycle
\* that goes through is its Command, a cycle that gives up is its Stop, and
\* every other step of either thread changes nothing it can see.
THEOREM Implements == Spec => ImplementsContract
<1>1. Init => Contract!Init
  BY SameModes DEF Init, Contract!Init, Halt, Contract!Halt
<1>2. ASSUME TypeOK, [Next]_vars
      PROVE  [Contract!Next]_(Contract!vars)
  <2>1. CASE Command
    <3>1. PICK in \in Scenes :
            /\ seen' = in
            /\ current_mode_' = NextMode(current_mode_, in)
            /\ cmd' \in Commands
            /\ cmd'.v * 10 <= ModeSpeedScale(current_mode_') * max_linear_vel
            /\ current_mode_' = kEmergency => cmd' = Halt
      BY <1>2, <2>1, CommandStep
    <3>2. Contract!Command(in)
      BY <3>1, SameModes DEF Contract!Command, Contract!FitsMode, Contract!Commands,
                  Contract!Halt, Commands, Halt
    <3>. QED
      BY <3>2 DEF Contract!Next
  <2>2. CASE ~ Command
    BY <1>2, <2>2, OtherSteps
    DEF Contract!Next, Contract!Stop, Contract!vars, Contract!Halt, Halt
  <2>. QED
    BY <2>1, <2>2
<1>. QED
  BY <1>1, <1>2, TypeCorrect, PTL DEF Spec, ImplementsContract, Contract!Spec

-----------------------------------------------------------------------------
(***************************************************************************)
(* The speed limit.                                                        *)
(***************************************************************************)

\* The strengthening of LimitObeyed: between the two loads of the last clamp,
\* the limit that was loaded is still the one in force unless a write raced.
LimitInv ==
    /\ LimitObeyed
    /\ ~ limit_raced /\ pc = "command" /\ limit_read # NotRead =>
         limit_read = speed_limit_
    /\ pc \in {"humans", "score"} => limit_read = NotRead

\* Every step keeps the last command within the limit, or notes the race.
LEMMA LimitStep == TypeOK /\ LimitInv /\ [Next]_vars => LimitInv'
<1> SUFFICES ASSUME TypeOK, LimitInv, [Next]_vars PROVE LimitInv'
  OBVIOUS
<1> DEFINE cap == EffectiveMaxSpeed(speed_limit_, speed_limit_is_percentage_)
<1>1. cap \in 0..max_linear_vel
  BY EffectiveMaxSpeedRange DEF TypeOK
<1>2. Halt.v <= cap
  BY <1>1, ControllerAssumption DEF Halt
<1> USE DEF LimitInv, LimitObeyed, plugin, humansVars, modeVars, limitVars,
            threadVars, cycle, returnVars
<1>3. CASE Command
  <2>1. cmd'.v <= ReadCap
    BY <1>3, CommandStep
  <2>2. /\ UNCHANGED <<speed_limit_, speed_limit_is_percentage_>>
        /\ pc' = "idle"
        /\ ~ limit_raced' => ~ limit_raced
        /\ pc = "command" /\ limit_read # NotRead
    BY <1>3 DEF Command, ScaledCommand, Return
  <2>3. ~ limit_raced' => ReadCap = cap
    BY <2>2 DEF ReadCap
  <2>4. ~ limit_raced' =>
          cmd'.v <= EffectiveMaxSpeed(speed_limit_, speed_limit_is_percentage_)'
    BY <2>1, <2>2, <2>3
  <2>. QED
    BY <2>2, <2>4
<1>4. CASE SetSpeedLimitBegin \/ SetSpeedLimitEnd
  BY <1>4 DEF SetSpeedLimitBegin, SetSpeedLimitEnd
<1>5. ASSUME \/ UNCHANGED vars
             \/ Tick \/ PublishHumans \/ SetPlan
             \/ Configure \/ Activate \/ Deactivate \/ Cleanup
             \/ HumansCallbackBegin \/ HumansCallbackEnd
      PROVE  LimitInv'
  <2>1. UNCHANGED <<pc, limit_read, cmd, speed_limit_,
                    speed_limit_is_percentage_, limit_raced>>
    BY <1>5 DEF vars, Tick, PublishHumans, SetPlan, Configure, Activate,
                Deactivate, Cleanup, HumansCallbackBegin, MutexFree, HumansCallbackEnd
  <2>2. cap' = cap
    BY <2>1
  <2>. QED
    BY <2>1, <2>2
<1>6. CASE ReadSpeedLimit
  <2>1. UNCHANGED <<pc, cmd, speed_limit_, speed_limit_is_percentage_>>
    BY <1>6 DEF ReadSpeedLimit
  <2>2. /\ limit_read = NotRead
        /\ limit_read' = speed_limit_
        /\ pc # "command" => limit_raced' = limit_raced
        /\ pc \notin {"humans", "score"}
    BY <1>6 DEF ReadSpeedLimit
  <2>3. speed_limit_ # NotRead
    BY ControllerAssumption DEF TypeOK
  <2>4. cap' = cap
    BY <2>1
  <2>. QED
    BY <2>1, <2>2, <2>3, <2>4
<1>7. CASE StartCycle \/ Pursue \/ Sample \/ CurrentHumans \/ SelectCandidate
  <2>1. /\ UNCHANGED <<speed_limit_, speed_limit_is_percentage_, limit_raced>>
        /\ pc # "command"
        /\ cmd' \in {cmd, Halt}
        /\ pc' = "command" => pc = "score" /\ limit_read' = limit_read
        /\ pc' \in {"humans", "score"} =>
             limit_read' = NotRead \/ (pc = "humans" /\ limit_read' = limit_read)
    BY <1>7 DEF StartCycle, Pursue, Sample, CurrentHumans, Stale, MutexFree, SelectCandidate, Return
  <2>2. cap' = cap
    BY <2>1
  <2>3. ~ limit_raced' => cmd'.v <= cap
    BY <1>2, <2>1
  <2>4. pc = "score" => limit_read = NotRead
    OBVIOUS
  <2>. QED
    BY <2>1, <2>2, <2>3, <2>4
<1>. QED
  BY <1>3, <1>4, <1>5, <1>6, <1>7 DEF Next, ControllerThread, ExecutorThread

\* A command returned while no setSpeedLimit was at work is within the limit in
\* force, however the limit changed earlier in the cycle.
THEOREM LimitIsObeyed == Spec => []LimitObeyed
<1>1. Init => LimitInv
  <2> SUFFICES ASSUME Init PROVE LimitInv
    OBVIOUS
  <2>1. speed_limit_ \in Int /\ speed_limit_is_percentage_ \in BOOLEAN
    BY TypeInit DEF TypeOK
  <2>2. EffectiveMaxSpeed(speed_limit_, speed_limit_is_percentage_)
          \in 0..max_linear_vel
    BY <2>1, EffectiveMaxSpeedRange
  <2>3. cmd.v = 0 /\ pc = "idle"
    BY DEF Init, Halt
  <2>. QED
    BY <2>2, <2>3, ControllerAssumption DEF LimitInv, LimitObeyed
<1>2. LimitInv => LimitObeyed
  BY DEF LimitInv
<1>. QED
  BY <1>1, <1>2, TypeCorrect, LimitStep, PTL DEF Spec
=============================================================================
