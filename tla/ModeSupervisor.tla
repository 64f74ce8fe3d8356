--------------------------- MODULE ModeSupervisor ---------------------------
(***************************************************************************)
(* What the controller promises about its mode and its commands, with the  *)
(* threads, the clock and the message queues left out: each planning cycle *)
(* either halts the robot and leaves the mode alone, or classifies the     *)
(* situation, moves the mode and commands a speed within the mode's share  *)
(* of the maximum.  SocialNavController implements this specification.     *)
(***************************************************************************)
EXTENDS BehaviorModes

CONSTANTS
    max_linear_vel,     \* cm/s
    max_angular_vel,    \* hundredths of rad/s
    Situations          \* the mode inputs a planning cycle may compute

ASSUME SupervisorAssumption ==
    /\ max_linear_vel \in Nat \ {0}
    /\ max_angular_vel \in Nat \ {0}
    /\ Situations \subseteq ModeInputs

VARIABLES
    mode,   \* current_mode_
    seen,   \* the mode inputs of the last cycle that classified
    cmd     \* the last command returned to Nav2

vars == <<mode, seen, cmd>>

-----------------------------------------------------------------------------

Commands ==
    [v : 0..max_linear_vel, omega : -max_angular_vel..max_angular_vel]

\* A TwistStamped as it is constructed: the robot stops
Halt == [v |-> 0, omega |-> 0]

\* v *= scale, and in EMERGENCY the turn is dropped too
FitsMode(c, m) ==
    /\ c.v * 10 <= ModeSpeedScale(m) * max_linear_vel
    /\ m = kEmergency => c = Halt

Init ==
    /\ mode = kNormal
    /\ seen = NoHumans
    /\ cmd = Halt

\* A cycle that ends before the mode update: no plan, or no safe trajectory
Stop ==
    /\ cmd' = Halt
    /\ UNCHANGED <<mode, seen>>

\* A cycle that goes through
Command(in) ==
    /\ mode' = NextMode(mode, in)
    /\ seen' = in
    /\ cmd' \in Commands
    /\ FitsMode(cmd', mode')

Next ==
    \/ Stop
    \/ \E in \in Situations : Command(in)

Spec == Init /\ [][Next]_vars

-----------------------------------------------------------------------------

TypeOK ==
    /\ mode \in BehaviorMode
    /\ seen \in ModeInputs
    /\ cmd \in Commands

\* The robot is never commanded faster than the situation it last saw allows
\* on the base thresholds, whatever mode it was in before: hysteresis may only
\* hold it back (nextMode, modeSpeedScale and the scaling in
\* computeVelocityCommands).
CommandFitsSituation ==
    FitsMode(cmd, Classify(seen, BaseMargin))

\* Once EMERGENCY has stopped the robot, it moves again only when what it sees
\* is out of the widened emergency clearance and of the time to collision.
EmergencyHeldUntilCleared ==
    [][mode = kEmergency /\ cmd'.v > 0 =>
          /\ ~ Closer(seen', emergency_clearance, LeaveMargin)
          /\ seen'.min_ttc >= emergency_ttc]_vars
=============================================================================
