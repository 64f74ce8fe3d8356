-------------------------- MODULE MCBenchmarkRunner --------------------------
(***************************************************************************)
(* Instances of BenchmarkRunner for TLC: a metre is 10 units of length, a  *)
(* unit of time is a good part of a run.                                   *)
(***************************************************************************)
EXTENDS BenchmarkRunner

\* Somebody who comes along the route and somebody who stands far off
MCPeopleOf(scenario, time) == IF scenario = "head_on" THEN {30 - 8 * time, 60} ELSE {60}

MCTimeoutOf(scenario) == IF scenario = "head_on" THEN 2 ELSE 1

\* Recordings of a robot that stops twice, with frames that begin earlier, have gaps and
\* are empty in between; one begins while the robot stands.
Bag(odom, humans) ==
    [odom   |-> [i \in DOMAIN odom |-> [t |-> odom[i][1], x |-> odom[i][2], v |-> odom[i][3]]],
     humans |-> [i \in DOMAIN humans |-> [t |-> humans[i][1], people |-> humans[i][2]]]]

Drives ==
    {<<>>,
     << <<2, 0, 5>>, <<3, 5, 0>>, <<6, 5, 0>>, <<7, 10, 5>>, <<8, 12, 0>>, <<11, 12, 0>> >>,
     << <<2, 0, 0>>, <<3, 5, 5>>, <<6, 20, 5>>, <<7, 20, 0>> >>}

Sightings ==
    {<< <<1, p[1]>>, <<4, p[2]>>, <<7, p[3]>>, <<9, p[4]>> >> :
        p \in [1..4 -> {{}, {8}, {16, 40}, {30}}]}
    \union {<<>>}

Bags == {Bag(d, h) : d \in Drives, h \in Sightings}

NoBag == <<>>

MCCampaigns ==
    {[planners |-> <<>>, scenarios |-> <<"empty", "head_on">>, runs |-> 1, bag |-> NoBag],
     [planners |-> <<"social_nav", "rpp">>, scenarios |-> <<"empty", "stationary_side">>,
      runs |-> 1, bag |-> NoBag],
     [planners |-> <<"rpp">>, scenarios |-> <<"empty">>, runs |-> 2, bag |-> NoBag],
     [planners |-> <<"rpp", "rpp">>, scenarios |-> <<"empty">>, runs |-> 1, bag |-> NoBag],
     [planners |-> <<"social_nav", "teb">>, scenarios |-> <<"empty">>, runs |-> 1, bag |-> NoBag]}
    \union {[planners |-> <<>>, scenarios |-> <<"bag">>, runs |-> 1, bag |-> <<b>>] : b \in Bags}
=============================================================================
