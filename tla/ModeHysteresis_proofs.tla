----------------------- MODULE ModeHysteresis_proofs -----------------------
(***************************************************************************)
(* Proofs about the contract of the mode and the commands, for every value *)
(* of the thresholds, the speeds and the situations.                       *)
(***************************************************************************)
EXTENDS ModeHysteresis, TLAPS

-----------------------------------------------------------------------------
(***************************************************************************)
(* What classify, nextMode and modeSpeedScale guarantee for every          *)
(* threshold, every margin and every input.                                *)
(***************************************************************************)

\* Classify always returns one of the four modes.
LEMMA ClassifyType ==
    ASSUME NEW in \in ModeInputs, NEW margin \in Nat
    PROVE  Classify(in, margin) \in BehaviorMode
BY DEF Classify, BehaviorMode, kNormal, kCautious, kCrowded, kEmergency

\* A wider margin counts a human at the same distance as close.
LEMMA CloserMonotone ==
    ASSUME NEW in \in ModeInputs, NEW threshold \in Nat,
           NEW m1 \in Nat, NEW m2 \in Nat, m1 <= m2,
           Closer(in, threshold, m1)
    PROVE  Closer(in, threshold, m2)
<1>1. threshold * m1 <= threshold * m2
  OBVIOUS
<1>2. /\ threshold * m1 \in Int
      /\ threshold * m2 \in Int
      /\ in.min_human_clearance * 100 \in Int
  BY DEF ModeInputs
<1>. QED
  BY <1>1, <1>2 DEF Closer

\* A wider margin never classifies the same situation as calmer: the reason
\* why the leave band of nextMode lies on the cautious side of the enter band.
LEMMA ClassifyMonotone ==
    ASSUME NEW in \in ModeInputs, NEW m1 \in Nat, NEW m2 \in Nat, m1 <= m2
    PROVE  Classify(in, m1) <= Classify(in, m2)
<1>1. Closer(in, emergency_clearance, m1) => Closer(in, emergency_clearance, m2)
  BY CloserMonotone, ThresholdsAssumption
<1>2. Closer(in, crowded_clearance, m1) => Closer(in, crowded_clearance, m2)
  BY CloserMonotone, ThresholdsAssumption
<1>3. Closer(in, cautious_clearance, m1) => Closer(in, cautious_clearance, m2)
  BY CloserMonotone, ThresholdsAssumption
<1>. QED
  BY <1>1, <1>2, <1>3
  DEF Classify, kNormal, kCautious, kCrowded, kEmergency

\* The stand-in of 1e9 is a number.
LEMMA UnboundedType == Unbounded \in Nat
<1> DEFINE a == 100 + hysteresis
           b == cautious_clearance + crowded_clearance + emergency_clearance
                  + emergency_ttc + 1
<1>1. a \in Nat /\ b \in Nat
  BY ThresholdsAssumption
<1>2. Unbounded = 2 * a * b
  BY DEF Unbounded
<1> HIDE DEF a, b
<1>. QED
  BY <1>1, <1>2

\* It is past every threshold, so that a scene without humans is NORMAL.
LEMMA NobodyIsNormal ==
    /\ NoHumans \in ModeInputs
    /\ Classify(NoHumans, BaseMargin) = kNormal
<1> DEFINE a == 100 + hysteresis
           b == cautious_clearance + crowded_clearance + emergency_clearance
                  + emergency_ttc + 1
<1>1. a \in Nat /\ b \in Nat /\ a >= 1 /\ b >= 1
  BY ThresholdsAssumption
<1>2. Unbounded = 2 * a * b
  BY DEF Unbounded
<1>3. /\ cautious_clearance < b
      /\ crowded_clearance < b
      /\ emergency_clearance < b
      /\ emergency_ttc < b
  BY ThresholdsAssumption
<1> HIDE DEF a, b
<1>4. Unbounded \in Nat /\ Unbounded >= b
  <2>1. a * b >= b
    BY <1>1
  <2>. QED
    BY <1>1, <1>2, <2>1
<1>. QED
  BY <1>1, <1>3, <1>4, ThresholdsAssumption
  DEF NoHumans, ModeInputs, Classify, Closer, BaseMargin, kNormal, kEmergency,
      kCrowded, kCautious

\* nextMode is the current mode clamped into the band that goes from the
\* classification on the base thresholds to the one on the widened ones.
THEOREM NextModeIsClamp ==
    ASSUME NEW current \in BehaviorMode, NEW in \in ModeInputs
    PROVE  LET up   == Classify(in, BaseMargin)
               down == Classify(in, LeaveMargin)
           IN  /\ up <= down
               /\ NextMode(current, in) \in up..down
               /\ current \in up..down => NextMode(current, in) = current
               /\ NextMode(current, in) \in BehaviorMode
<1> DEFINE up   == Classify(in, BaseMargin)
           down == Classify(in, LeaveMargin)
<1>1. /\ BaseMargin \in Nat
      /\ LeaveMargin \in Nat
      /\ BaseMargin <= LeaveMargin
  BY ThresholdsAssumption DEF BaseMargin, LeaveMargin
<1>2. up \in BehaviorMode /\ down \in BehaviorMode
  BY <1>1, ClassifyType
<1>3. up <= down
  BY <1>1, ClassifyMonotone
<1>4. NextMode(current, in) =
        IF up > current THEN up ELSE IF down < current THEN down ELSE current
  BY DEF NextMode
<1> HIDE DEF up, down
<1>5. /\ NextMode(current, in) \in up..down
      /\ current \in up..down => NextMode(current, in) = current
      /\ NextMode(current, in) \in BehaviorMode
  BY <1>2, <1>3, <1>4 DEF BehaviorMode, kNormal, kEmergency
<1>. QED
  BY <1>3, <1>5 DEF up, down

\* The mode settles in one step: the same situation seen twice in a row does
\* not move the mode a second time, whatever the mode was before.
THEOREM NextModeSettles ==
    ASSUME NEW current \in BehaviorMode, NEW in \in ModeInputs
    PROVE  NextMode(NextMode(current, in), in) = NextMode(current, in)
BY NextModeIsClamp

\* The scale is a share of the whole, in tenths.
LEMMA SpeedScaleType ==
    ASSUME NEW m \in BehaviorMode
    PROVE  ModeSpeedScale(m) \in {0, 4, 6, 10}
BY DEF ModeSpeedScale

\* A mode that is more cautious scales the speed down at least as much.
LEMMA SpeedScaleAntitone ==
    ASSUME NEW m1 \in BehaviorMode, NEW m2 \in BehaviorMode, m1 <= m2
    PROVE  ModeSpeedScale(m2) <= ModeSpeedScale(m1)
BY DEF ModeSpeedScale, BehaviorMode, kNormal, kCautious, kCrowded, kEmergency

-----------------------------------------------------------------------------
(***************************************************************************)
(* The contract and its history                                            *)
(***************************************************************************)

\* The next mode is a mode, and lies in the band of the situation.
LEMMA NextModeBand ==
    ASSUME NEW m \in BehaviorMode, NEW in \in ModeInputs
    PROVE  LET up   == Classify(in, BaseMargin)
               down == Classify(in, LeaveMargin)
               next == NextMode(m, in)
           IN  /\ up \in BehaviorMode /\ down \in BehaviorMode
               /\ next \in BehaviorMode
               /\ up <= next
               /\ next > m => next = up
               /\ next < m => next = down
<1>1. /\ Classify(in, BaseMargin) \in BehaviorMode
      /\ Classify(in, LeaveMargin) \in BehaviorMode
  BY ClassifyType, ThresholdsAssumption DEF BaseMargin, LeaveMargin
<1>2. Classify(in, BaseMargin) <= Classify(in, LeaveMargin)
  BY NextModeIsClamp
<1>. QED
  BY <1>1, <1>2 DEF NextMode, BehaviorMode, kNormal, kEmergency

\* The initial values are of their types.
LEMMA SupervisorTypeInit == Init => TypeOK
<1>1. NoHumans \in ModeInputs
  BY NobodyIsNormal
<1>2. Halt \in Commands
  BY SupervisorAssumption DEF Halt, Commands
<1>3. kNormal \in BehaviorMode
  BY DEF BehaviorMode, kNormal, kEmergency
<1>. QED
  BY <1>1, <1>2, <1>3 DEF Init, TypeOK

\* Every step keeps the types.
LEMMA SupervisorTypeStep == TypeOK /\ [Next]_vars => TypeOK'
<1> SUFFICES ASSUME TypeOK, [Next]_vars PROVE TypeOK'
  OBVIOUS
<1>1. CASE UNCHANGED vars
  BY <1>1 DEF vars, TypeOK
<1>2. CASE Stop
  <2>1. Halt \in Commands
    BY SupervisorAssumption DEF Halt, Commands
  <2>. QED
    BY <1>2, <2>1 DEF Stop, TypeOK
<1>3. ASSUME NEW in \in Situations, Command(in)
      PROVE  TypeOK'
  <2>1. in \in ModeInputs
    BY SupervisorAssumption
  <2>2. NextMode(mode, in) \in BehaviorMode
    BY <2>1, NextModeBand DEF TypeOK
  <2>. QED
    BY <1>3, <2>1, <2>2 DEF Command, TypeOK
<1>. QED
  BY <1>1, <1>2, <1>3 DEF Next

\* Every state of the contract is of the types that TypeOK says.
THEOREM SupervisorTypeCorrect == Spec => []TypeOK
BY SupervisorTypeInit, SupervisorTypeStep, PTL DEF Spec

\* A halt is within every mode's share of the speed.
LEMMA HaltFits ==
    ASSUME NEW m \in BehaviorMode
    PROVE  FitsMode(Halt, m)
<1>1. ASSUME NEW scale \in {0, 4, 6, 10}
      PROVE  0 <= scale * max_linear_vel
  BY SupervisorAssumption
<1>. QED
  BY <1>1, SpeedScaleType DEF FitsMode, Halt

\* What fits a mode fits every calmer one.
LEMMA FitsCalmer ==
    ASSUME NEW c \in Commands, NEW m \in BehaviorMode, NEW calmer \in BehaviorMode,
           calmer <= m, FitsMode(c, m)
    PROVE  FitsMode(c, calmer)
<1>1. /\ ModeSpeedScale(m) \in Int
      /\ ModeSpeedScale(calmer) \in Int
      /\ ModeSpeedScale(m) <= ModeSpeedScale(calmer)
  BY SpeedScaleAntitone, SpeedScaleType
<1>2. ModeSpeedScale(m) * max_linear_vel <= ModeSpeedScale(calmer) * max_linear_vel
  BY <1>1, SupervisorAssumption
<1>3. /\ ModeSpeedScale(m) * max_linear_vel \in Int
      /\ ModeSpeedScale(calmer) * max_linear_vel \in Int
      /\ c.v * 10 \in Int
  BY <1>1, SupervisorAssumption DEF Commands
<1>4. c.v * 10 <= ModeSpeedScale(calmer) * max_linear_vel
  BY <1>2, <1>3 DEF FitsMode
<1>5. calmer = kEmergency => m = kEmergency
  BY DEF BehaviorMode, kNormal, kEmergency
<1>. QED
  BY <1>4, <1>5 DEF FitsMode

\* The command in force is never faster than the situation last seen allows.
THEOREM CommandFits == Spec => []CommandFitsSituation
<1>1. Init => CommandFitsSituation
  <2>1. Classify(NoHumans, BaseMargin) \in BehaviorMode
    BY NobodyIsNormal, ClassifyType DEF BaseMargin
  <2>. QED
    BY <2>1, HaltFits DEF Init, CommandFitsSituation
<1>2. ASSUME TypeOK, CommandFitsSituation, [Next]_vars
      PROVE  CommandFitsSituation'
  <2>1. CASE UNCHANGED vars
    BY <1>2, <2>1
    DEF vars, CommandFitsSituation, FitsMode, Classify, Closer, BaseMargin
  <2>2. CASE Stop
    <3>1. Classify(seen, BaseMargin) \in BehaviorMode
      BY <1>2, ClassifyType DEF TypeOK, BaseMargin
    <3>2. FitsMode(Halt, Classify(seen, BaseMargin))
      BY <3>1, HaltFits
    <3>. QED
      BY <2>2, <3>2
      DEF Stop, CommandFitsSituation, FitsMode, Classify, Closer, BaseMargin
  <2>3. ASSUME NEW in \in Situations, Command(in)
        PROVE  CommandFitsSituation'
    <3>1. in \in ModeInputs
      BY SupervisorAssumption
    <3>2. /\ Classify(in, BaseMargin) \in BehaviorMode
          /\ NextMode(mode, in) \in BehaviorMode
          /\ Classify(in, BaseMargin) <= NextMode(mode, in)
      BY <1>2, <3>1, NextModeBand DEF TypeOK
    <3>3. /\ cmd' \in Commands
          /\ FitsMode(cmd', NextMode(mode, in))
          /\ seen' = in
      BY <2>3 DEF Command
    <3>4. FitsMode(cmd', Classify(in, BaseMargin))
      BY <3>2, <3>3, FitsCalmer
    <3>. QED
      BY <3>3, <3>4
      DEF CommandFitsSituation, FitsMode, Classify, Closer, BaseMargin
  <2>. QED
    BY <1>2, <2>1, <2>2, <2>3 DEF Next
<1>. QED
  BY <1>1, <1>2, SupervisorTypeCorrect, PTL DEF Spec

\* Out of EMERGENCY the robot moves again only when the nearest human is out of
\* the widened clearance and nobody is about to be met.
THEOREM EmergencyHeld == Spec => EmergencyHeldUntilCleared
<1>1. ASSUME TypeOK, [Next]_vars
      PROVE  [mode = kEmergency /\ cmd'.v > 0 =>
                /\ ~ Closer(seen', emergency_clearance, LeaveMargin)
                /\ seen'.min_ttc >= emergency_ttc]_vars
  <2> SUFFICES ASSUME Next, mode = kEmergency, cmd'.v > 0
               PROVE  /\ ~ Closer(seen', emergency_clearance, LeaveMargin)
                      /\ seen'.min_ttc >= emergency_ttc
    BY <1>1
  <2>1. PICK in \in ModeInputs : Command(in)
    BY SupervisorAssumption DEF Next, Stop, Halt
  <2>2. /\ seen' = in
        /\ NextMode(mode, in) # kEmergency
    BY <2>1 DEF Command, FitsMode, Halt
  <2>3. /\ mode \in BehaviorMode
        /\ NextMode(mode, in) \in BehaviorMode
    BY <1>1, NextModeBand DEF TypeOK
  <2>4. NextMode(mode, in) < mode
    BY <2>2, <2>3 DEF BehaviorMode, kNormal, kEmergency
  <2>5. Classify(in, LeaveMargin) # kEmergency
    BY <2>2, <2>3, <2>4, NextModeBand
  <2>6. in.min_ttc \in Nat
    BY DEF ModeInputs
  <2>. QED
    BY <2>2, <2>5, <2>6, ThresholdsAssumption DEF Classify
<1>. QED
  BY <1>1, SupervisorTypeCorrect, PTL DEF Spec, EmergencyHeldUntilCleared

-----------------------------------------------------------------------------
(***************************************************************************)
(* Hysteresis.                                                             *)
(***************************************************************************)

\* A classification at a level or above, for the clearance only, is for one of
\* the thresholds of that level; one below the level violates none of them.
LEMMA LevelOfClearance ==
    ASSUME NEW in \in ModeInputs, NEW margin \in Nat, NEW m \in Levels
    PROVE  /\ Classify(in, margin) >= m /\ ClearanceOnly(in) =>
                \E t \in ThresholdsFrom(m) : Closer(in, t, margin)
           /\ Classify(in, margin) < m =>
                \A t \in ThresholdsFrom(m) : ~ Closer(in, t, margin)
<1>1. m \in {1, 2, 3}
  BY DEF Levels, kCautious, kEmergency
<1>2. /\ in.min_ttc \in Nat
      /\ in.num_humans \in Nat
  BY DEF ModeInputs
<1>3. CASE m = 1
  BY <1>2, <1>3, ThresholdsAssumption
  DEF Classify, ClearanceOnly, ThresholdsFrom, kNormal, kCautious, kCrowded,
      kEmergency
<1>4. CASE m = 2
  BY <1>2, <1>4, ThresholdsAssumption
  DEF Classify, ClearanceOnly, ThresholdsFrom, kNormal, kCautious, kCrowded,
      kEmergency
<1>5. CASE m = 3
  BY <1>2, <1>5, ThresholdsAssumption
  DEF Classify, ClearanceOnly, ThresholdsFrom, kNormal, kCautious, kCrowded,
      kEmergency
<1>. QED
  BY <1>1, <1>3, <1>4, <1>5

\* What the history keeps: wherever the mode fell below a level, the nearest
\* human was out of every widened threshold of that level.
LeftClear ==
    \A m \in Levels : left[m] # Never =>
        \A t \in ThresholdsFrom(m) : left[m] * 100 >= t * LeaveMargin

\* Every step keeps the recorded clearances out of the widened thresholds.
LEMMA LeftClearStep == HTypeOK /\ LeftClear /\ [HNext]_hvars => HTypeOK' /\ LeftClear'
<1> SUFFICES ASSUME HTypeOK, LeftClear, [HNext]_hvars
             PROVE  HTypeOK' /\ LeftClear'
  OBVIOUS
<1>1. CASE UNCHANGED hvars
  BY <1>1 DEF hvars, HTypeOK, TypeOK, LeftClear
<1>2. CASE HNext
  <2>1. TypeOK'
    BY <1>2, SupervisorTypeStep DEF HNext, HTypeOK
  <2>2. left' = [m \in Levels |-> IF mode >= m /\ mode' < m
                                  THEN seen'.min_human_clearance ELSE left[m]]
    BY <1>2 DEF HNext
  <2>3. left' \in [Levels -> Nat \cup {Never}]
    <3>1. seen'.min_human_clearance \in Nat
      BY <2>1 DEF TypeOK, ModeInputs
    <3>. QED
      BY <2>2, <3>1 DEF HTypeOK
  <2>4. ASSUME NEW m \in Levels, left'[m] # Never, NEW t \in ThresholdsFrom(m)
        PROVE  left'[m] * 100 >= t * LeaveMargin
    <3>1. CASE ~ (mode >= m /\ mode' < m)
      BY <2>2, <2>4, <3>1 DEF LeftClear
    <3>2. CASE mode >= m /\ mode' < m
      <4>1. m \in Int /\ mode \in Int /\ mode' \in Int
        BY <2>1 DEF HTypeOK, TypeOK, BehaviorMode, Levels, kNormal, kCautious,
                    kEmergency
      <4>2. mode' # mode
        BY <3>2, <4>1
      <4>3. PICK in \in ModeInputs : seen' = in /\ mode' = NextMode(mode, in)
        BY <1>2, <4>2, SupervisorAssumption DEF HNext, Next, Stop, Command
      <4>4. Classify(in, LeaveMargin) < m
        BY <3>2, <4>1, <4>3, NextModeBand DEF HTypeOK, TypeOK
      <4>5. ~ Closer(in, t, LeaveMargin)
        BY <4>3, <4>4, LevelOfClearance, ThresholdsAssumption DEF LeaveMargin
      <4>6. /\ left'[m] = in.min_human_clearance
            /\ in.min_human_clearance \in Nat
            /\ t * LeaveMargin \in Int
        BY <2>2, <3>2, <4>3, ThresholdsAssumption
        DEF ModeInputs, LeaveMargin, ThresholdsFrom
      <4>. QED
        BY <4>5, <4>6 DEF Closer
    <3>. QED
      BY <3>1, <3>2
  <2>. QED
    BY <2>1, <2>3, <2>4 DEF HTypeOK, LeftClear
<1>. QED
  BY <1>1, <1>2

\* The mode does not flap on the clearance: it re-enters a level only after the
\* nearest human has come closer by more than the whole band.
THEOREM HysteresisSeparates == HSpec => BandSeparatesModes
<1> DEFINE Separated ==
      \A m \in Levels :
          /\ mode < m
          /\ mode' >= m
          /\ left[m] # Never
          /\ ClearanceOnly(seen')
          => \E t \in ThresholdsFrom(m) :
                (left[m] - seen'.min_human_clearance) * 100 > t * hysteresis
<1>1. HInit => HTypeOK /\ LeftClear
  <2>1. \A m \in Levels : [k \in Levels |-> Never][m] = Never
    OBVIOUS
  <2>. QED
    BY <2>1, SupervisorTypeInit DEF HInit, HTypeOK, LeftClear
<1>2. ASSUME HTypeOK, LeftClear, [HNext]_hvars
      PROVE  [Separated]_hvars
  <2> SUFFICES ASSUME HNext, NEW m \in Levels, mode < m, mode' >= m,
                      left[m] # Never, ClearanceOnly(seen')
               PROVE  \E t \in ThresholdsFrom(m) :
                        (left[m] - seen'.min_human_clearance) * 100
                          > t * hysteresis
    BY <1>2
  <2>1. m \in Int /\ mode \in Int /\ mode \in BehaviorMode
    BY <1>2 DEF HTypeOK, TypeOK, BehaviorMode, Levels, kNormal, kCautious,
                kEmergency
  <2>2. mode' # mode
    BY <2>1
  <2>3. PICK in \in ModeInputs : seen' = in /\ mode' = NextMode(mode, in)
    BY <2>2, SupervisorAssumption DEF HNext, Next, Stop, Command
  <2>4. /\ mode' \in Int
        /\ mode' > mode
        /\ Classify(in, BaseMargin) >= m
    <3>1. mode' \in BehaviorMode
      BY <2>1, <2>3, NextModeBand
    <3>2. mode' \in Int
      BY <3>1 DEF BehaviorMode, kNormal, kEmergency
    <3>3. mode' > mode
      BY <2>1, <3>2
    <3>4. mode' = Classify(in, BaseMargin)
      BY <2>1, <2>3, <3>3, NextModeBand
    <3>. QED
      BY <3>2, <3>3, <3>4
  <2>5. PICK t \in ThresholdsFrom(m) : Closer(in, t, BaseMargin)
    BY <2>3, <2>4, LevelOfClearance DEF BaseMargin
  <2>6. left[m] * 100 >= t * LeaveMargin
    BY <1>2 DEF LeftClear
  <2>7. /\ t \in Nat
        /\ in.min_human_clearance \in Nat
        /\ left[m] \in Nat
        /\ hysteresis \in Nat
    BY <1>2, ThresholdsAssumption DEF ThresholdsFrom, ModeInputs, HTypeOK
  <2>8. t * LeaveMargin = t * 100 + t * hysteresis
    BY <2>7 DEF LeaveMargin
  <2>9. in.min_human_clearance * 100 < t * 100
    BY <2>5 DEF Closer, BaseMargin
  <2>10. t * hysteresis \in Int
    BY <2>7
  <2>. QED
    BY <2>3, <2>6, <2>7, <2>8, <2>9, <2>10
<1>. QED
  BY <1>1, <1>2, LeftClearStep, PTL DEF HSpec, BandSeparatesModes
=============================================================================
