--------------------------- MODULE MCSocialNavEnv ---------------------------
(***************************************************************************)
(* Instances of SocialNavEnv for TLC: a short corridor with small numbers, *)
(* and the one of goal_blocked with the numbers of the configuration.      *)
(***************************************************************************)
EXTENDS SocialNavEnv

Walker(from, to, speed) == P!Pedestrian("walking", << <<from, 0>>, <<to, 0>> >>, speed, -1)

\* Somebody who stands in the way, walks towards the robot and back, comes and stops
MCCrowds ==
    {<<>>,
     <<Walker(11, 11, 1)>>,
     <<Walker(32, 16, 2)>>,
     <<[Walker(30, 14, 4) EXCEPT !.stop = 4, !.hold = 2]>>,
     <<Walker(10, 32, 2), Walker(-12, -12, 1)>>}

MCWalls == {{}, {<<20, 24>>}}

Setup(backend, policy, safe_filter, dr, crowd, walls) ==
    [backend |-> backend, policy |-> policy, safe_filter |-> safe_filter, dr |-> dr,
     crowd |-> crowd, walls |-> walls]

\* Training with and without randomization, and the evaluation of three policies; the
\* evaluation in Gazebo
MCSetups ==
    {Setup("mock", "rl", safe, dr, crowd, walls) :
        safe \in BOOLEAN, dr \in BOOLEAN, crowd \in MCCrowds, walls \in MCWalls}
    \union {Setup("mock", policy, TRUE, FALSE, crowd, {}) :
        policy \in {"straight", "stop"}, crowd \in MCCrowds}
    \union {Setup("gazebo", "straight", TRUE, FALSE, <<Walker(11, 11, 1)>>, {})}

MCActions == {-100, 0, 100, NaN}

\* goal_blocked in the urban environment: units of 0.25 mm and 0.05 s
Blocked == {Setup("mock", "straight", TRUE, FALSE, <<Walker(18000, 18000, 1)>>, {})}
=============================================================================
