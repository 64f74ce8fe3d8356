-------------------------- MODULE SafetySupervisor --------------------------
(***************************************************************************)
(* From the action of a policy to a velocity command: the mapping of       *)
(* action.py and the supervisor of safety.py.  One control period is the   *)
(* unit of time, velocities are in steps of one unit, and a robot with     *)
(* velocity v moves v units of length in a period.  A time to collision is *)
(* in hundredths of a period.                                              *)
(***************************************************************************)
EXTENDS Integers

CONSTANTS
    MaxLinVel, MinLinVel, MaxAngVel,
    MaxLinAccel, MaxAngAccel,       \* change of velocity in one period
    TtcStop, TtcSlow,               \* periods
    ClearanceStop, ClearanceSlow,
    CautiousSpeed,
    NaN                             \* an action that is not finite

\* What the configuration files and the defaults satisfy
ASSUME SupervisorAssumption ==
    /\ MaxLinVel \in Nat /\ MinLinVel \in Int /\ MaxAngVel \in Nat
    /\ MaxLinAccel \in Nat /\ MaxAngAccel \in Nat
    /\ -MaxLinVel <= MinLinVel /\ MinLinVel <= MaxLinVel
    /\ TtcStop \in Nat /\ TtcSlow \in Nat /\ TtcStop < TtcSlow
    /\ ClearanceStop \in Nat /\ ClearanceSlow \in Nat /\ ClearanceStop < ClearanceSlow
    /\ CautiousSpeed \in Nat
    /\ NaN \notin Int

BigTtc == 2000000

Least(a, b)    == IF a <= b THEN a ELSE b
Greatest(a, b) == IF a <= b THEN b ELSE a

\* np.clip
Clip(x, lo, hi) == Least(Greatest(x, lo), hi)

-----------------------------------------------------------------------------
(***************************************************************************)
(* ActionMapper                                                            *)
(***************************************************************************)

AccelClamp(prev, target, max_delta) == prev + Clip(target - prev, -max_delta, max_delta)

\* Mutant: the speed is mapped to both directions, as the turn rate is.
DenormalizeBackwards(action, prev_v, prev_w) ==
    LET percent(a) == IF NaN \in {action[1], action[2]} THEN 0 ELSE Clip(a, -100, 100)
    IN  [v |-> AccelClamp(prev_v, (percent(action[1]) * MaxLinVel) \div 100, MaxLinAccel),
         w |-> AccelClamp(prev_w, (percent(action[2]) * MaxAngVel) \div 100, MaxAngAccel)]

\* denormalize; the components of an action are in percent.
Denormalize(action, prev_v, prev_w) ==
    LET finite == NaN \notin {action[1], action[2]}
        span   == MaxLinVel - MinLinVel
    IN  [v |-> AccelClamp(prev_v,
                          IF finite
                          THEN MinLinVel + ((Clip(action[1], -100, 100) + 100) * span) \div 200
                          ELSE MinLinVel,
                          MaxLinAccel),
         w |-> AccelClamp(prev_w,
                          IF finite THEN (Clip(action[2], -100, 100) * MaxAngVel) \div 100 ELSE 0,
                          MaxAngAccel)]

-----------------------------------------------------------------------------
(***************************************************************************)
(* SafetySupervisor.filter.  A state is a record of the signals; its       *)
(* clearance is -1 for None.                                               *)
(***************************************************************************)

\* _limit: the limits of speed, then those of acceleration
Limited(cmd, s) ==
    [v |-> AccelClamp(s.prev_v, Clip(cmd.v, -MaxLinVel, MaxLinVel), MaxLinAccel),
     w |-> AccelClamp(s.prev_w, Clip(cmd.w, -MaxAngVel, MaxAngVel), MaxAngAccel)]

Decision(cmd, kind) == [v |-> cmd.v, w |-> cmd.w, kind |-> kind]

Halt == [v |-> 0, w |-> 0]

HasClearance(s) == s.min_clearance >= 0

Invalid(cmd)  == NaN \in {cmd.v, cmd.w}

Imminent(s) ==
    \/ s.obstacle_imminent
    \/ s.min_ttc < 100 * TtcStop
    \/ HasClearance(s) /\ s.min_clearance < ClearanceStop

Uninformed(s) == s.stale \/ ~ s.prediction_valid

\* The velocity slowed in proportion to the time to collision and to the clearance
\* (exact up to the rounding to a unit); scale < 0.999 is scale # 1.
ByTtc(v, s) ==
    IF s.min_ttc < 100 * TtcSlow THEN (v * s.min_ttc) \div (100 * TtcSlow) ELSE v

ByClearance(v, s) ==
    IF HasClearance(s) /\ s.min_clearance < ClearanceSlow
    THEN (v * Greatest(0, s.min_clearance - ClearanceStop)) \div (ClearanceSlow - ClearanceStop)
    ELSE v

SlowsDown(s) ==
    \/ s.min_ttc < 100 * TtcSlow
    \/ HasClearance(s) /\ s.min_clearance < ClearanceSlow

\* The smaller of the two scales is taken.
Slowed(v, s) ==
    IF v >= 0 THEN Least(ByTtc(v, s), ByClearance(v, s))
              ELSE Greatest(ByTtc(v, s), ByClearance(v, s))

\* Mutant: a person close by does not stop the robot.
FilterWithoutStop(cmd, s) ==
    IF SlowsDown(s)
    THEN Decision(Limited([cmd EXCEPT !.v = Slowed(cmd.v, s)], s), "slow")
    ELSE Decision(Limited(cmd, s), "none")

\* Mutant: only the clearance is looked at, not the time to collision.
FilterByClearance(cmd, s) ==
    IF s.obstacle_imminent THEN Decision(Halt, "emergency_stop")
    ELSE Decision(Limited([cmd EXCEPT !.v = ByClearance(cmd.v, s)], s), "slow")

Filter(cmd, s) ==
    IF Invalid(cmd) THEN Decision(Halt, "nan_action")
    ELSE IF Imminent(s) THEN Decision(Halt, "emergency_stop")
    ELSE IF Uninformed(s)
         THEN Decision(Limited([cmd EXCEPT !.v = Least(@, CautiousSpeed)], s), "cautious")
    ELSE IF SlowsDown(s)
         THEN Decision(Limited([cmd EXCEPT !.v = Slowed(cmd.v, s)], s), "slow")
    ELSE Decision(Limited(cmd, s), "none")

-----------------------------------------------------------------------------
(***************************************************************************)
(* features.time_to_collision on a line: the first time, from now on, at   *)
(* which the distance rel_pos + t * rel_vel is the contact distance.       *)
(***************************************************************************)

AbsVal(n) == IF n < 0 THEN -n ELSE n
Sign(n)   == IF n < 0 THEN -1 ELSE 1

TimeToCollision(rel_pos, rel_vel, contact) ==
    LET enters == -Sign(rel_vel) * rel_pos - contact
        leaves == enters + 2 * contact
    IN  IF rel_vel = 0 \/ leaves < 0 THEN BigTtc
        ELSE Least(BigTtc, (100 * (IF enters >= 0 THEN enters ELSE leaves))
                               \div AbsVal(rel_vel))
=============================================================================
