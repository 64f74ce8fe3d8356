------------------------- MODULE MCSimulatedPeople -------------------------
(***************************************************************************)
(* Instances of SimulatedPeople for TLC: real scenes of the launch files,  *)
(* with a few points for the draws of the samplers.  Plans of one or two   *)
(* agents are run; larger ones are planned and no more.                    *)
(***************************************************************************)
EXTENDS SimulatedPeople

\* Of people, a second apart around the end of the sudden stop.  Of workers, seven readings a
\* second apart, and earlier ones for the start: the seven are then in the first leg and its
\* end, in the second and third, and over the end of the timeline.
MCInstants ==
    [pedestrian |-> {1, 6, 7},
     worker     |-> {1, 9, 15, 21} \union 33..39,
     amr        |-> {1, 6, 11}]

\* Points on, between and beside the obstacles of the scenes
MCSpawnPoints == {<<180, 0>>, <<300, -100>>, <<880, 120>>, <<640, -60>>}

\* Draws of the stations; the second has a leg too short for the cruise speed.
MCStationDraws ==
    {<< <<-320, -40>>, <<-320, 240>>, <<-140, 260>> >>,
     << <<-320, -260>>, <<-320, -40>>, <<40, 190>> >>,
     << <<-160, -240>>, <<40, -180>>, <<-320, -260>> >>}

\* A scenario of each kind in every environment, for training, and in the two demos; the other
\* scenarios plan a mixed crowd of another size
MCScenarios ==
    {"dense_crowd", "occlusion", "approaching", "same_direction", "group", "sudden_stop",
     "direction_change", "goal_blocked", "dynamic_obstacle", "multi_robot"}

MCManagers ==
    UNION {EnvDemo(e, s, "stress", 0) : e \in DOMAIN ENVIRONMENTS, s \in MCScenarios}
    \union UNION {EnvDemo("hospital", s, "medium", 0) : s \in MCScenarios}
    \union UNION {EnvDemo("office", s, "medium", n) : s \in {"empty", "multi_robot"}, n \in 1..2}
    \union UNION {RlSim("office", s, "easy") : s \in MCScenarios}
    \union UNION {UrbanDemo(s, 3, -1) : s \in {"crossing", "walking", "group", "group_merge"}}
    \union UNION {UrbanDemo(s, 1, n) : s \in {"group", "group_merge"}, n \in {0, 1, 3, 5, 6, 7}}
    \union UNION {UrbanDemo(s, 1, 2) : s \in {"head_on", "turning", "sudden_stop", "blocker"}}
    \union UNION {FactoryDemo(c) : c \in {FactoryScenarios[s] : s \in DOMAIN FactoryScenarios}
                                         \union {<<1, 0>>, <<0, 1>>}}
=============================================================================
