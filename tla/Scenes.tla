------------------------------- MODULE Scenes -------------------------------
(***************************************************************************)
(* What a launch makes of its arguments: the registry of environments and  *)
(* scenarios (environments.py) and the launch files that start the nodes   *)
(* which simulate people, workers and other robots.  A manager is a record *)
(* with the kind of the node and the configuration it plans from; lengths  *)
(* are in centimetres, multipliers in percent.  A region is                *)
(* <<xmin, xmax, ymin, ymax>>, a box <<xmin, ymin, xmax, ymax>>.           *)
(***************************************************************************)
EXTENDS WorkerModel, TLC

\* SCENARIO_BASE: behaviour profile and number of people at medium difficulty
SCENARIO_BASE ==
    [empty            |-> <<"walking", 0>>,   low_density  |-> <<"mixed", 2>>,
     normal           |-> <<"mixed", 4>>,     high_density |-> <<"mixed", 8>>,
     dense_crowd      |-> <<"mixed", 14>>,    crossing     |-> <<"crossing", 2>>,
     approaching      |-> <<"head_on", 2>>,   same_direction |-> <<"same_direction", 2>>,
     group            |-> <<"group", 4>>,     bottleneck   |-> <<"mixed", 6>>,
     occlusion        |-> <<"crossing", 3>>,  sudden_stop  |-> <<"stop_go", 1>>,
     direction_change |-> <<"turning", 2>>,   goal_blocked |-> <<"blocker", 1>>,
     multi_human      |-> <<"mixed", 6>>,     dynamic_obstacle |-> <<"walking", 2>>,
     multi_robot      |-> <<"mixed", 3>>]

DIFFICULTY ==
    [easy   |-> [human_mult |-> 50,  speed |-> 70,  dyn |-> 0],
     medium |-> [human_mult |-> 100, speed |-> 90,  dyn |-> 0],
     hard   |-> [human_mult |-> 150, speed |-> 110, dyn |-> 1],
     stress |-> [human_mult |-> 200, speed |-> 130, dyn |-> 2]]

\* Goals, names of worlds and sensor profiles are left out: no manager reads them.
ENVIRONMENTS ==
    [urban |->
        [region |-> <<100, 1200, -100, 140>>, crossing |-> <<550, 220, -300>>,
         obstacles |-> {<<-100, 160, 350, 460>>, <<750, 160, 1300, 460>>},
         dynamic_obstacles |-> TRUE, human_scale |-> 50],
     factory |->
        [region |-> <<150, 900, -160, 160>>, crossing |-> <<460, 220, -300>>,
         obstacles |-> {<<-370, 340, -150, 620>>, <<950, 160, 1070, 320>>,
                        <<950, -290, 1070, -150>>},
         dynamic_obstacles |-> TRUE, human_scale |-> 100],
     warehouse |->
        [region |-> <<150, 900, -320, 320>>, crossing |-> <<450, 150, -150>>,
         obstacles |-> {<<100, 160, 950, 340>>, <<100, -340, 950, -160>>},
         dynamic_obstacles |-> TRUE, human_scale |-> 100],
     hospital |->
        [region |-> <<100, 900, -140, 140>>, crossing |-> <<300, 140, -140>>,
         obstacles |-> {<<425, 95, 575, 155>>, <<90, -155, 210, -95>>,
                        <<700, -150, 800, -110>>},
         dynamic_obstacles |-> TRUE, human_scale |-> 60],
     office |->
        [region |-> <<100, 900, -140, 140>>, crossing |-> <<300, 140, -140>>,
         obstacles |-> {<<80, -150, 240, -90>>},
         dynamic_obstacles |-> FALSE, human_scale |-> 60],
     plaza |->
        [region |-> <<100, 900, -350, 350>>, crossing |-> <<450, 300, -300>>,
         obstacles |-> {<<575, 300, 925, 600>>, <<100, -590, 400, -330>>,
                        <<270, 130, 330, 190>>, <<570, -200, 630, -140>>,
                        <<820, 190, 880, 250>>, <<380, 70, 520, 110>>,
                        <<500, -140, 600, -40>>},
         dynamic_obstacles |-> FALSE, human_scale |-> 100]]

\* _round_humans: Python's round takes a half to the even neighbour.
RoundHumans(base, mult) ==
    LET n == (base * mult) \div 10000
        r == (base * mult) % 10000
        up == r > 5000 \/ (r = 5000 /\ n % 2 = 1)
    IN  IF base <= 0 THEN 0 ELSE Max({1, IF up THEN n + 1 ELSE n})

\* generate_scenario, without a human_count of the caller
GenerateScenario(environment, scenario, difficulty) ==
    LET env  == ENVIRONMENTS[environment]
        diff == DIFFICULTY[difficulty]
        base == SCENARIO_BASE[scenario]
        dyn  == IF scenario = "dynamic_obstacle" THEN Max({diff.dyn, 2}) ELSE diff.dyn
    IN  [num_robots |-> IF scenario = "multi_robot" THEN 3 ELSE 1,
         num_dynamic_obstacles |-> IF env.dynamic_obstacles THEN dyn ELSE 0,
         pedestrian |->
            [profile |-> base[1], region |-> env.region,
             num_humans |-> RoundHumans(base[2], diff.human_mult * env.human_scale)]
            @@ [speed |-> diff.speed, obstacles |-> env.obstacles,
                crossing_x |-> env.crossing[1], crossing_north |-> env.crossing[2],
                crossing_south |-> env.crossing[3]]
            @@ SpawnConfig]

-----------------------------------------------------------------------------
(***************************************************************************)
(* The managers each launch file starts                                    *)
(***************************************************************************)

PedestrianManager(cfg) == [kind |-> "pedestrian", cfg |-> cfg]
WorkerManager(cfg)     == [kind |-> "worker", cfg |-> cfg]
RobotAgentManager(n)   == [kind |-> "amr", cfg |-> [num_agents |-> n, speed |-> 40]]

\* env_demo.launch.py: the extra robots and the dynamic obstacles are the agents.  A number
\* of robots that is given, and not 0, takes the place of the scenario's.
EnvDemo(environment, scenario, difficulty, robots_override) ==
    LET cfg == GenerateScenario(environment, scenario, difficulty)
        num_robots == IF robots_override > 0 THEN robots_override ELSE cfg.num_robots
        num_agents == Max({0, num_robots - 1}) + cfg.num_dynamic_obstacles
    IN  {PedestrianManager(cfg.pedestrian)}
            \union (IF num_agents > 0 THEN {RobotAgentManager(num_agents)} ELSE {})

\* rl_sim.launch.py starts no other robots.
RlSim(environment, scenario, difficulty) ==
    {PedestrianManager(GenerateScenario(environment, scenario, difficulty).pedestrian)}

\* urban_demo.launch.py: scenario |-> profile, number of people, region in y
UrbanScenarios ==
    [empty           |-> <<"walking", 0, -50>>,  single_crossing |-> <<"crossing", 1, -50>>,
     crossing        |-> <<"mixed", 3, -50>>,    walking         |-> <<"walking", 3, -50>>,
     group           |-> <<"group", 4, -50>>,    crowded         |-> <<"mixed", 8, -100>>,
     head_on         |-> <<"head_on", 1, -50>>,  turning         |-> <<"turning", 2, -50>>,
     same_direction  |-> <<"same_direction", 1, -50>>,
     sudden_stop     |-> <<"stop_go", 1, -50>>,  blocker         |-> <<"blocker", 1, -50>>,
     two_crossing    |-> <<"crossing", 2, -50>>, group_merge     |-> <<"merge", 4, -140>>,
     high_density    |-> <<"mixed", 12, -140>>,  mixed           |-> <<"mixed", 5, -100>>]

\* _DEFAULT_OBSTACLES of the pedestrian manager
UrbanObstacles ==
    {<<-100, 160, 350, 460>>, <<750, 160, 1300, 460>>, <<285, -135, 315, -105>>,
     <<685, -135, 715, -105>>, <<940, 90, 1060, 130>>}

\* A number of people that is given, -1 for none, takes the place of the scenario's.
UrbanDemo(scenario, num_robots, override_h) ==
    LET s == UrbanScenarios[scenario]
        num_humans == IF override_h >= 0 THEN override_h ELSE s[2]
    IN  {PedestrianManager(
            [profile |-> s[1], num_humans |-> num_humans, region |-> <<100, 1200, s[3], 140>>,
             obstacles |-> UrbanObstacles,
             group_size |-> IF scenario = "group" THEN 4 ELSE SpawnConfig.group_size]
            @@ SpawnConfig)}
            \union (IF num_robots > 1 THEN {RobotAgentManager(num_robots - 1)} ELSE {})

FactoryObstacles ==
    {<<100, 150, 200, 320>>, <<260, 70, 400, 320>>, <<520, 100, 930, 320>>,
     <<80, -320, 300, -150>>, <<520, -320, 930, -100>>, <<950, -290, 1070, -150>>,
     <<950, 160, 1070, 320>>, <<-385, -560, -335, -480>>, <<-380, 329, -140, 341>>}

FactoryWorkstations ==
    {<<-320, 240>>, <<-140, 260>>, <<-320, -40>>, <<-160, -240>>, <<-320, -260>>,
     <<40, 190>>, <<40, -180>>}

\* A draw is three different workstations.
ASSUME StationDrawsAssumption ==
    \A s \in StationDraws :
        /\ DOMAIN s = 1..3
        /\ \A i, j \in 1..3 : s[i] \in FactoryWorkstations /\ (i # j => s[i] # s[j])

\* Scenarios of the factory: workers with a workstation, crossing workers
FactoryScenarios ==
    [factory_empty |-> <<0, 0>>, factory_workers |-> <<3, 0>>, factory_crossing |-> <<2, 1>>]

\* factory_demo.launch.py, for the counts of a scenario
FactoryDemo(counts) ==
    IF counts = <<0, 0>> THEN {}
    ELSE {WorkerManager(
            [num_workstation |-> counts[1], num_crossing |-> counts[2],
             num_patrol |-> 0, obstacles |-> FactoryObstacles,
             crossing_routes |-> << <<460, 420, 460, -420>> >>,
             walkable |-> <<-380, 1080, -630, 630>>]
            @@ WorkerConfig)}
=============================================================================
