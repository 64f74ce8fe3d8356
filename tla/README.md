# TLA+ models and proofs for the social navigation planner

This directory holds a formal model of the parts of this repository that decide
when and how fast the robot drives, what the planner's costmap says about people
and keep-out zones, how crowds are planned and moved in Gazebo, how an episode of the
learning environment runs and what its safety supervisor lets through, how training
advances its curriculum and keeps its best policy, how benchmark campaigns are run
and evaluated, and how the simulation control panel starts and stops its processes.
TLC checks the models on small instances; TLAPS proves the safety properties for every
value of the constants, one of them (that nobody jumps) not for the factory workers.

The repository is C++ and Python on ROS 2 / Nav2. Its logic is mostly numerical,
on doubles; the models keep the control (threads, callbacks, locks, modes, early
returns) and reduce the numbers to what the properties tell apart.

## 1. Inventory

### 1.1 Components

| Component | Source | State | Operations |
|---|---|---|---|
| Behaviour modes | `social_nav_core/trajectory_scorer.{hpp,cpp}` | none (the mode is the caller's) | `classify`, `nextMode`, `modeSpeedScale` |
| Trajectory scorer, collision, social cost | `social_nav_core/src` | none | scoring of a rolled-out candidate |
| Controller plugin | `social_nav_controller.{hpp,cpp}` | plan, last humans message, mode, stale flag, speed limit and its unit, metrics window | `configure`/`activate`/`deactivate`/`cleanup`, `setPlan`, `setSpeedLimit`, humans callback, `computeVelocityCommands` |
| Path geometry, pure pursuit | `path_geometry.cpp` | none | carrot, curvature |
| Trajectory generator | `trajectory_generator.cpp` | none | sampling, roll-out |
| Social layer | `social_layer.cpp` | last message, people of the update, last bounds | `humansCallback`, `updateBounds`, `updateCosts`, `reset` |
| Restricted-zone layer | `restricted_zone_layer.cpp` | the parsed zones | `updateBounds`, `updateCosts` |
| Human model | `social_nav_human_model/src` | tracks, next identity | tracking, grouping, zones |
| Prediction | `social_nav_prediction/src` | none | predicted trajectories |
| Simulated people, workers, robots | `social_nav_tools/*_manager.py`, `human_publisher.py` | plan, confirmed bodies, moves in flight, start of the clock | plan, `spawn_bodies`, `_tick`, `_move_body` |
| Environment registry | `environments.py`, `pedestrian_model.py`, `worker_model.py`, `robot_agent_model.py` | none (seeded geometry) | `generate_scenario`, `plan_*`, `pose_at_time` |
| RL environment | `social_nav_rl/{env,action,safety,randomize,reward,observation}.py` | step count, last command, delay line, curriculum hook; robot and time of the mock | `reset`, `step` |
| Gazebo backend | `gazebo_backend.py`, `ros_convert.py` | last odometry, scan minimum, humans; robot | `reset`, `step`, `_teleport`, `_spin`, message callbacks |
| Curriculum, training, checkpoints | `curriculum.py`, `train.py`, `checkpoint.py` | level, window of results, best score, files | `record`, `sample`, evaluation callback, save |
| Policies, evaluation, feasibility, perception | the rest of `social_nav_rl` | frames of a learned policy; counts of `run_episode` | `act`, `reset`, `run_episode` |
| Simulation control panel | `scripts/sim_control_panel.py`, `stop.sh`, `run_env_demo.sh` | `_state`, processes | launch, benchmark, stop |
| Benchmark runner, telemetry, analysis | `social_nav_benchmarks` | record of a run, rows, result files, telemetry buffers | `run_one`, `main`, metrics, events, labels, reports, `analyze`, bag ingestion |
| Other scripts, launch files, worlds | `scripts/`, `*_bringup`, `*_sim`, `*_msgs` | none | configuration |

### 1.2 How they interact

    human publisher --humans topic--> controller plugin <--cycle, plan, limit-- Nav2
          |                                 | classify / nextMode (behaviour modes)
          |                                 v
          |                            command, status --> robot
          +--humans topic--> social layer --cost--> Nav2 costmap --> planner
                             zone layer  --cost-->
    browser --HTTP threads--> control panel --Popen, SIGINT--> demo / benchmark
                                            --stop.sh, pkill--> Gazebo, ros2 launch
    launch files --> managers --spawn, move--> Gazebo;  managers --humans topic-->
    trainer, evaluate --> RL environment --> backend (2-D mock or Gazebo) --> robot, people
                    +--> safety supervisor, curriculum
    runner --launch--> stack, --goal--> Nav2;  odometry, humans --> record --> files
    analyze: files or a bag --> metrics, events, labels --> reports

The controller plugin and the social layer each run in two threads: the executor
of the node delivers messages and Nav2's calls, and a thread of Nav2 runs the
planning cycle or the costmap update. They share the members of the plugin.
The panel serves each HTTP request in a thread of its own, without a lock. The
managers, the Gazebo backend and the runner have one thread each, which handles
messages, timers and answers only while it spins in wait for something else.

### 1.3 What is hard, and what makes each part correct

`PROJECT.json` lists the hazards one by one at their line. In short:

- *Controller plugin.* The humans callback replaces a message while a cycle
  copies it; a message ages while the cycle runs; a speed limit is changed, in two
  unsynchronised stores, between the clamps of one cycle; a cycle may end before
  the mode update; the publisher may die in the middle of an emergency. Correct
  means: no cycle scores people older than the timeout, the returned command is
  within the limit in force, the mode is never less cautious than what the last
  full cycle saw, cycles end, and a dead feed does not hold the robot.
- *Behaviour modes.* Long sequences of situations walk through all four modes in
  any order. Correct means: escalation is immediate and complete; EMERGENCY is not
  left early; the mode does not flap around a threshold.
- *Costmap layers.* An update recomputes only the reported bounds while the window
  rolls, people move, leave and go stale, and the message may change between the
  two halves of an update. Correct means: nothing stale stays and nothing is
  missing, walls stay walls and gaps stay gaps.
- *Panel.* Check-then-act over threads; a Stop that meets a script at any line of
  it; a benchmark with moments at which no Gazebo exists. Correct means: one
  activity at a time, none that Stop cannot reach, and a stopped one ends.
- *Curriculum and training.* A level is decided over many episodes, and the sampler
  that decides it is wrapped in another; evaluations fall where the number of
  environments lets them; a run can be killed between the two files of a checkpoint
  and started again over the old ones. Correct means: a level is entered on a full
  window of its predecessor and left as soon as it is won, the best policy is on
  disk, metadata does not run ahead of its model, and a run stops when it is done.
- *Crowds.* A body is spawned after the other while the timer already fires; Gazebo
  carries requests out when it likes, and answers late or never; poses are computed
  from the time alone. Correct means: everybody asked for is planned, and apart;
  nobody jumps; no body is put back; confirmed bodies follow their agents.
- *RL episode.* The mapper, the supervisor with its two limits, the delay line and the
  drive all stand between an action and the robot; in Gazebo, odometry, scan and people
  are as old as the last message, across a teleport. Correct means: the robot stops
  in time, a stop is not undone or held back, an episode begins where the reset says and
  on observations of its own, and it ends.
- *Benchmark.* Nav2 answers late, never, or aborts; the campaign is killed between any two
  files; four analyses read streams of different rates with gaps. Correct means: the
  analyses of a run agree, nothing finished is lost, and reports and files agree.

## 2. Modules

| Module | Models | Kind |
|---|---|---|
| `BehaviorModes` | `classify`, `nextMode`, `modeSpeedScale` | operators |
| `ModeSupervisor` | what a planning cycle promises of mode and command | abstract specification |
| `ModeHysteresis` | `ModeSupervisor` with the history the hysteresis claim needs | specification with history |
| `SocialNavController` | the controller plugin, its two threads, clock and feed | specification; implements `ModeSupervisor` |
| `SocialCostmap` | both layers over a rolling costmap | specification |
| `SimControlPanel` | request threads, demo script, benchmark runner, Gazebo | specification |
| `CurriculumSampler` | curriculum, feasibility wrapper, the episodes of one environment | specification with history |
| `EvalStopCallback` | learning loop, evaluation callback, the files of two checkpoints | specification with history |
| `PedestrianModel` | planning of pedestrians and other robots, pose at a time | operators |
| `WorkerModel` | planning of factory workers, their timelines | operators; extends `PedestrianModel` |
| `Scenes` | registry, `generate_scenario`, what four launch files pass to the managers | operators; extends `WorkerModel` |
| `SimulatedPeople` | the three managers and Gazebo | specification over `Scenes` |
| `SafetySupervisor` | `ActionMapper`, `SafetySupervisor.filter`, `time_to_collision` | operators |
| `SocialNavEnv` | the environment, both backends, `run_episode`, the frames of a policy | specification; extends `SafetySupervisor`, instantiates `PedestrianModel` |
| `BenchmarkAnalysis` | metrics, events, failure label, aggregates of a record | operators |
| `BenchmarkRunner` | `runner.main`, `run_one`, the recorder, `analyze`, bag ingestion, Nav2 | specification over `BenchmarkAnalysis` |
| `MC*` | constants and symmetry for TLC | instances |
| `*_proofs` | theorems about the module they extend; `Benchmark_proofs` is about `BenchmarkRunner` and `SimControlPanel` | proofs |

Definitions keep the names of the source (`current_mode_`, `latest_humans_`,
`human_timeout`, ...), so that each can be read beside its lines; `map` in
`PROJECT.json` names those lines. A definition commented `Mutant:` is not part of
the model: it is the same definition with a plausible bug, and each property is
there because some such bug violates it.

### 2.1 Behaviour modes

Clearances are integers in cm, times in hundredths of a second, the band and the
margin in percent, the speed scale in tenths. `Unbounded` stands for the `1e9` of
the code's initialisers and is larger than any threshold times its margin. The
thresholds are not ordered by the code, and neither by `ThresholdsAssumption`: it
asks for non-negative numbers and for a crowd of at least one.

`ModeSupervisor` has two actions: `Stop`, a cycle that ends before the mode update,
and `Command(in)`, a cycle that classifies `in`, moves the mode and commands a
speed within the mode's share of the maximum. `ModeHysteresis` adds `left[m]`, the
clearance at which the mode last fell below level `m`.

### 2.2 Controller plugin

`pc` walks through `computeVelocityCommands`: `pursue` (step 1), `sample` (2),
`humans` (3), `score` (4), `command` (5). What is one action and what is not follows
what the threads can see of each other:

- `latest_humans_` is assigned in two actions (`HumansCallbackBegin`, `-End`: header,
  then list) under `humans_mutex_`, so that a reader without the lock would see a
  torn message. `CurrentHumans` needs the mutex to be free and is one action, since
  it copies under the lock and works on the copy.
- `setSpeedLimit` is two actions, one for each unsynchronised store.
  `effectiveMaxSpeed` is a load of `speed_limit_` (`ReadSpeedLimit`, into the
  register `limit_read`) and a load of the flag (in the action that uses it). The
  code loads `speed_limit_` again inside one call; the register stands for the
  value it is compiled to keep. The members are plain ones: the model lets each load
  return the old or the new value, which is what the machines this code runs on do.
- The lifecycle transitions are actions of the executor. Nav2 ends the goal before
  it deactivates the plugin, hence the guard `pc = "idle"` of `Deactivate`. `Cleanup`
  drops the subscription with its queue and keeps every other member, as the code
  does.

Geometry is a choice: what pure pursuit asks for (`DesiredSpeeds`, `TurnRates`), the
candidate that wins (`VFactors`, `WOffsets`), whether any candidate is free, and the
clearance and time to collision of the scene (`SituationsOf`). The number of humans
is not a choice: it is the number of finite humans in the snapshot.

`Contract` instantiates `ModeSupervisor` with `mode <- current_mode_` and the same
`seen` and `cmd`; `ImplementsContract` is its `Spec`.

### 2.3 Costmap layers

One row of the grid, in whole cells; a cell is named by its place in the world, and
the window is `origin..origin+Width-1`. `UpdateBounds` is the first half of an
update (the window rolls, the layers below write and report one cell or nothing, both
layers report their bounds, Nav2 clamps them to the window), `UpdateCosts` the
second (each touched cell is reset and written by every layer in order). The
callback may come between them. `Clear` is a recovery that clears the costmap. What
Nav2 and the obstacle layers do is marked external in the map.

`Share[d]` is the percentage of `max_cost` that a person's asymmetric Gaussian asks
of a cell `d` cells ahead; the shape itself is data. `max_cost <= 252` is an
assumption: `social_layer.hpp` asks for it and the code does not enforce it. The
zone layer's `cost` is any integer, since the code clamps it.

### 2.4 Simulation control panel

Each client is a request thread that walks through `_launch`/`_benchmark` (`poll`,
`pgrep`, `spawn`, `record`) or `_stop` and `stop.sh` (`signal`, `stop1`, `stop2`,
`forget`). Each activity is a process: `DemoStep` is `run_env_demo.sh` line by line as
far as its `trap`s can tell, `Cleanup` its trap handler, entered for INT (`int1`,
`int2`, then on with the script) or EXIT (`exit1`, `exit2`); `BenchmarkStep` the
loop of `runner.py`. `gzserver` is whose Gazebo server runs: there is one at most,
since a second one cannot bind the port. `PanelSpec`, `PanelInit`, `PanelNext` and
`PanelTypeOK` have names of their own, so that one module can extend this one and the runner.

### 2.5 Curriculum

`phase` is where the environment stands: `reset` (an episode is over), `check` (the
feasibility wrapper of `train.py` looks at a draw), `play`. `Reset` is
`SocialNavEnv.reset` up to the first call of the sampler, `Redraw` another call in
the wrapper's loop, `Accept` the end of that loop, `Step` one `SocialNavEnv.step`.
Whether the wrapper is there is the command-line option `require_feasible`, chosen
in `Init` and never changed. Every training environment is built with a curriculum of
its own, so one environment is the whole system.

The sampler's draw (map, scenario, seed), the oracle's verdict and what the policy
does with the episode are choices. The success rate is compared without division, in
percent. `levels` and `outcomes` are history: the level each episode was played at
and how each finished one ended. The properties speak of these alone and of `level`,
never of the window the code keeps.

### 2.6 Training run

`phase` follows the learner: `collect` (environments step), `callback`, `open` and
`write` (a file is opened, which cuts it short, and then written), `decide` (the rest
of `_on_step`), `ended`. A checkpoint is `disk[checkpoint]["zip"]` and `["meta"]`; what
a file holds is the run and the timesteps it was saved at. The learner is
stable-baselines3, outside this repository: it adds `n_envs` timesteps at once, calls
the callback after each step, ends when the callback returns False, and looks at
`total_timesteps` only between rollouts. `Rerun` is always possible: it is a kill at
any moment and the same command again, or the same command after the end; the
callback's memory is new then and the files are not.

An evaluation is one of `Scores`, a success rate and a mean reward; how it is
measured, the plan of its episodes, warm starting and the switches that leave parts
of the run out (`--check`, `--no-eval`, `--save-freq`) are not modelled. The history
is `run`, the number of the run, and `evals`, its evaluations.

### 2.7 Crowds

`PedestrianModel` and `WorkerModel` plan one person at a time: `NextPeople(cfg, plan)` and
`NextWorkers` are the sets of plans that the next round of the planner's loop may give,
the random generator being a choice among `SpawnPoints` and `StationDraws`. A draw that
fails is the empty set, as in the code (`SampleSpawn` for `None`, `PlanRaises` for
`ValueError`). Routes are those of the source in centimetres, and `PoseAtTime` and
`WorkerPoseAtTime` compute a pose with integer arithmetic, at most 3 cm off
(`Rounding`). Yaw is left out.

`Scenes` gives a manager, its kind and configuration, for the arguments of a launch file:
the registry of `environments.py` as data, and the rules of `generate_scenario`. The numbers
of people and of robots that a launch file lets its user give instead of the scenario's are
arguments too (`override_h`, `robots_override`).
`SimulatedPeople` is one such node. `phase` is its main program: `plan`,
`wait_for_service`, `spawn`, `spin_until` (the answer to a spawn request), `spin`, or
`failed`. `Tick` is the whole of `_tick` with every `_move_body`; it may happen whenever
the node spins. A body and a move carry the time of the pose they were computed for.
`GazeboSpawns`, `GazeboMoves` and `MoveLost` are Gazebo; a spawn request may be answered
after `SpawnReturns` has given up on it (10 s in the code), and then the body stays where
it is for good: `ConfirmedBodiesFollow` speaks of confirmed bodies alone.

### 2.8 RL episode

The robot drives along a line, at people who walk on it, and does not turn: what may go
wrong between action and robot is a matter of speed and distance. The unit of time is
one control period and a velocity is the distance of one period, so the motion is exact;
times to collision are in hundredths of a period. `rl_creep` uses the configured values
with 0.25 mm as unit.

`setup` is how the environment was built (backend, `safe_filter`, randomization, policy)
and the scene. `phase` follows `run_episode`: `reset`, `settle` (Gazebo, while reset
spins), `act` (a command is decided, `Act`), `spin` (it is carried out), and `EndStep` makes
events of what is then known. In the mock the robot has moved at the end of `Act`. In
Gazebo `real` is the robot and `robot` what the program believes; the odometry, the scan
and the people arrive in actions of their own, any number of times or never, while the
program spins. `ResetGazebo` has three outcomes: the teleport is answered; it is not answered within
its timeout and stays `pending`, to be carried out at any later moment (`TeleportLate`) or
never; its service is missing, and it is skipped with a warning. The waiting itself, up to 5 s
each for service and answer, takes no time in the model. The learned policy is any action at any time; the network sees
frames, and `frames` records which.

`stops` counts successive emergency stops and is history.

### 2.9 Benchmark

`phase` goes through `main` (`validate`, `next`, then a file after the other: `row`,
`record`, `events`, `trajectory` as listed in `FileOrder`, `done`) and `run_one` (`launch`,
`answer`, `drive`, `teardown`). Time passes only while the runner spins. Each file is first
cut short and then whole, and `Killed` may come at any moment: it stands for Ctrl-C as well
as for an exception, after either of which there are no reports. `Analyze` is
`social-nav-analyze` on the directory afterwards. A campaign can also be a bag: then
`IngestBag` builds the record, and what follows is the same.

A campaign is the command line: planners (none stands for the one that is configured),
scenarios and `--runs`. `Jobs` lists its runs in the order of the three loops of `main`;
`main` numbers them, and the files do not: theirs is a name made of planner, scenario and
run. `disk` has for each name the state of its four result files, `saved` what is counted of
the row in them. The log of a run has a name without the planner; `logs` says which run wrote
it last. Reports total the rows that `main` holds (`WriteReports`), the analysis those
that it reads back (`Loaded`, `LoadedRow`), both with `Aggregate` and `GroupedBy`.

`BenchmarkAnalysis` computes from a record, two streams of samples with their times, what
the code computes: `Compute` (metrics), `DetectEvents`, `Classify`, each translated from
its own file. The analyses share `NearestPose` and nothing else, as in the code.

## 3. Runs

| Run | Expected | Properties | Bounds |
|---|---|---|---|
| `mode_hysteresis` | pass | `CommandFitsSituation`, `BandSeparatesModes`, `EmergencyHeldUntilCleared` | all situations over 10 clearances, 2 times to collision, 2 head counts and the empty scene; a maximal speed of 5, of which every mode but EMERGENCY leaves some |
| `controller` | pass | `TypeOK`, `HumansAreFresh`, `LimitObeyed`, `CycleCompletes`, `DeadFeedReleases`, `ImplementsContract` | 4 clock values, 1 message queued and 1 in the callback, messages of 0 or 2 humans of which any number is finite, a clearance on each side of all thresholds; no limit at first, then a percentage, set at any moment |
| `costmap` | pass | `TypeOK`, `NoGhostCost`, `HardCellsAreSensed`, `DeadFeedClearsCost` | a world of 5 cells, a window of 3, 5 crowds, 3 obstacle costs, 3 clock values |
| `panel_serial` | pass | `PanelTypeOK`, `OneWantedActivity`, `NothingOrphaned` | 1 request thread, 3 activities |
| `panel_stop` | violation | `StoppedActivityEnds` | 1 request thread, 1 demo |
| `curriculum` | pass | `TypeOK`, `LevelEarnedUnfiltered`, `NoLevelHeldBack` | 3 levels, a window of 3 at 60 %, 9 episodes of at most 2 steps, 2 redraws |
| `curriculum_feasible` | violation | `LevelEarned` | a window of 2, 6 episodes, 1 redraw |
| `training` | pass | `TypeOK`, `BestOnDisk`, `StopsWhenDone`, `MetaNeverAhead` | 2 environments, rollouts of 3 steps, up to 6 evaluations of 4 possible scores, 2 runs |
| `people` | pass | `TypeOK`, `CrowdAsAsked`, `StartsApart`, `NoTeleport`, `BodyNeverGoesBack`, `ConfirmedBodiesFollow` | scenarios of every kind in every environment, the two demos, with and without overridden numbers; plans of at most 2 agents are run, larger ones only planned; 3 clock readings, 11 for workers; 1 lost move |
| `rl_episode` | pass | `TypeOK`, `CreepsAtWorst`, `WallNeverHit`, `StopReachesRobot`, `FramesOfThisEpisode`, `StartsWhereTold`, `EpisodesEnd` | 51 setups: both backends, supervised or not, randomized or not, 3 policies, 5 crowds, with and without a wall; 2 episodes of 5 steps |
| `rl_creep` | violation | `NobodyRunInto` | one setup, one person who stands still, the configured values, 600 steps |
| `benchmark` | pass | `TypeOK`, `AnalysesAgree`, `NothingLost`, `ReportsAgree` | 5 campaigns of up to 4 runs, 771 bags of up to 6 samples of odometry and 4 frames |

Why the bounds suffice:

- *Modes.* Classification compares each input with three thresholds, each with and
  without the margin. The clearances lie on, just inside and just outside them, so
  that each outcome of each comparison occurs, and state is unbounded in time. Shares of the
  maximal speed are rounded down, to 3 and 2 of the 5 in CAUTIOUS and CROWDED: the robot may
  move in every mode but EMERGENCY, so one that leaves EMERGENCY too early is seen to move.
- *Controller.* With `human_timeout = 1` a message needs an age of 2 to be stale; with the
  clock going to 3 there are stale messages of two ages, and messages that
  become stale while a cycle or the callback is at any of its steps. The clock stops
  at `MaxTime`: a dead feed then stays stale for ever, which is where the liveness
  properties look. One queued message suffices for the queue to overflow. There is no
  limit until one is set, between any two steps, at its two stores; the desired speed of 100 is
  over the maximum, and the maximum of 80 is over the limit. The limit is a percentage, so
  that its value read with the flag of none is one of the outcomes. Limits that follow each
  other, up and down, or are removed, are left to `LimitIsObeyed`, for any set of limits.
- *Costmap.* Windows of 3 cells in a world of 5 overlap in 1 or 2 cells or not at
  all but for one, so cells enter, stay in and leave the window. Crowds lie in the
  middle, at and beyond the edge, overlap each other, and have a person without a
  position. The zone is in the reach of every window; for one that is not, see 3.2.
- *Panel.* Three activities allow one that is stopped, one that runs and one that is
  started while the first still cleans up. Symmetry is used in `panel_serial` only,
  which checks no liveness.
- *Curriculum.* Nine episodes are enough to walk through all three levels, and to
  win a level in a window that is not one of the blocks 1-3, 4-6, 7-9. Two of three
  successes clear the threshold, so a failure may lie anywhere in a window that does.
- *Training.* Three timesteps between evaluations are not a multiple of the two
  environments: evaluations are late, and the next is counted from when one really
  took place. The scores differ in rate, in reward, and in both in opposite
  directions; they lie under the floor, between it and the target, and over the
  target.

- *People.* The scenes are the real ones, so group sizes of up to 5, mixed crowds, detours
  and every kind of route occur in planning. Two bodies are enough for a move and a spawn,
  or two moves, to be carried out in either order; three clock readings for a move to be
  overtaken by two later ones. For people the readings lie a second apart around the end of the
  sudden stop. For workers seven readings are a second apart and four come before them: over
  the plans of the launches and their draws, pairs a second apart straddle the beginning and
  the end of the first, second and third leg, and the end of the timeline, where the next round
  begins. In a second a worker may be displaced by 108 cm at most, so a leg that is cut short,
  a stay at the wrong end of a leg or a timeline that ends early is a jump. Crowds of merging
  streams are asked for with 0, 1, 3, 5, 6 and 7 people besides the scenario's own 4. The
  scenarios left out plan a mixed crowd of a size in between.
- *RL episode.* A robot at full speed needs 3 periods to stop by its acceleration limit and
  the people come from every distance around that. The units are fine enough for the slow-down
  not to round to a standstill: the supervised robot does creep into the person who stands in
  its way, at exactly the bound of `CreepsAtWorst`. Five steps are enough to reach, to hit, to
  time out, and to stop, creep and touch. Two episodes show what one leaves for the next.
  The latency is that of the default profile. In Gazebo one crowd and one policy suffice:
  what is asked there is which message, and which teleport, arrives when.
- *Benchmark.* Two runs are enough for one that is whole and one that is cut short; four
  are two planners on two scenarios, whose totals cut across each other. One campaign runs
  a scenario twice, one names a planner twice, one a planner that is not installed. The bags take every
  sequence of four frames (nobody, too close, close, far) over drives that begin after the
  first frame, pause longer and shorter than `ProlongedStop`, or stand at the beginning.

Deadlock is checked in the runs of the modes, the controller, the costmap and the
panel. In the others it is not: training, a campaign, the number of episodes and the clock
of the crowds come to an end. In the controller the lifecycle transitions, in
the costmap the updates are always possible. In the panel a Stop is always accepted.

### 3.1 Fairness

- *Controller.* The clock goes on; the controller thread, once in a cycle, is
  scheduled; the executor finishes the callback or the `setSpeedLimit` it is in.
  Nothing is assumed of the publisher, of Nav2's calls or of the outcome of a cycle.
  `CycleCompletes` needs weak fairness only: the mutex is held between two steps of
  the callback, and with `CurrentHumans` disabled again and again by a busy callback
  weak fairness would not do; here the queue and the clock bound the number of
  messages. The C++ mutex gives no stronger guarantee, and the topic is published at
  a rate far below the callback's.
  `DeadFeedReleases` has as hypotheses that the stored message stays stale and that
  cycles reach the mode update again and again: both are up to the environment.
- *Costmap.* The clock goes on and Nav2's update thread is periodic.
- *Panel.* Request threads are scheduled, scripts run and take their signals. The
  counterexample of `panel_stop` is a stop in a state that no fairness leaves.
- *People.* The main program goes on, the timer fires while the node spins, and Gazebo
  carries out a move of each body that it does not lose. Nothing is assumed of the answers to
  spawn requests, of the services or of the clock.
- *RL episode.* The program runs, and so does the simulation it waits for: `_spin` has no
  timeout, so with Gazebo paused or gone an episode does not end, and the code does not
  promise it. Nothing is assumed of the messages.
- *Benchmark.* None: all properties are safety.
- *Curriculum, training.* None: all properties are safety. That a run stops is stated
  as what may not be reached (`StopsWhenDone`: no environment is stepped once the run
  is done).

### 3.2 What the violations show

- `panel_stop`: the trap of `run_env_demo.sh` for INT does not exit. A demo that is
  stopped while it waits for Nav2 kills Gazebo, goes on, and then waits for ever to
  send its goal, unrecorded by the panel.

- `curriculum_feasible`: the wrapper behind `--require-feasible` redraws by calling
  the sampler again with the same previous result, and each call records it. One
  episode fills several places of the window, and if the level advances in between,
  its result counts for the next level too. Without the wrapper the property holds
  (`LevelEarnedUnfiltered`).
- `rl_creep`: the emergency stop is released as soon as the robot stands, because two that
  stand have no time to collision, and the clearance that would hold it (0.4 m between
  centres) is less than what counts as contact (0.75 m). Each release lets a slow command
  through until the alarm rises again; within one episode the robot arrives at the person, at
  0.05 m/s or less. `CreepsAtWorst` states what does hold where people stand. Among people
  who walk it does not: the time to collision takes everybody to walk on. Behind somebody
  who walks away as slowly as the robot creeps there is none, and if they stop in the middle
  of a period the robot, accelerating, touches them at 0.055 m/s (in the instance of
  `rl_creep`: from 3001 units away at 10 units a period, stopping after 31).

Four more disagreements met while modelling have no run of their own:

- `trajectory_scorer.hpp:130-131` says that de-escalation "requires clearing the threshold by
  the band"; `classify` widens clearances only, so EMERGENCY is left, and entered again, on
  the bare time-to-collision threshold.
- `updateCosts` of the zone layer clamps the corners of a zone to the grid before it
  intersects them with the update, so a zone outside the rolling window is stamped on the
  window's edge; the comment (`restricted_zone_layer.cpp:94-95`) says that only cells inside
  the zone are written.
- The panel's docstring (`sim_control_panel.py:19-20`) promises one activity at a time; two
  requests that both check before either has started its process start two.
- `plan_pedestrians` "plan[s] cfg.num_humans pedestrians" (`pedestrian_model.py:255`), and
  `urban_demo.launch.py:111-113` lets any number be given. `_plan_merge` plans
  `2 * max(2, n // 2)`: one fewer than an odd number, and four where 0 to 3 are asked for.
  `CrowdAsAsked` says that much of merging streams (`Streams`), and the number asked for of
  every other crowd.

## 4. Proofs

All theorems hold for every value of the constants that meets the named assumptions
(`ThresholdsAssumption`, `SupervisorAssumption`, `ControllerAssumption`,
`CostmapAssumption`, `CurriculumAssumption`, `TrainingAssumption`, `PanelAssumption`,
`RunnerAssumption`, `AnalysisAssumption`, `EnvAssumption`, `CrowdAssumption`, `ManagerAssumption`, `ConfigAssumption`,
`StationDrawsAssumption`), which TLC evaluates on the instances. Where a theorem asks for
more, its row says so; the instances that TLC checks meet these conditions too.

| Theorem | Module | What it says |
|---|---|---|
| `NextModeIsClamp` | `ModeHysteresis_proofs` | `nextMode` is the current mode clamped between the classifications with and without the band |
| `NextModeSettles` | " | the same situation twice moves the mode at most once |
| `CommandFits` | " | `[]CommandFitsSituation` |
| `EmergencyHeld` | " | `EmergencyHeldUntilCleared` |
| `HysteresisSeparates` | " | `BandSeparatesModes` |
| `TypeCorrect` | `SocialNavController_proofs` | `[]TypeOK` |
| `HumansFresh` | " | `[]HumansAreFresh` |
| `ModeFits` | " | `[]ModeFitsSituation`: the mode is never less cautious than the last situation classified |
| `Implements` | " | `Spec => Contract!Spec` |
| `LimitIsObeyed` | " | `[]LimitObeyed` |
| `NoGhost` | `SocialCostmap_proofs` | `[]NoGhostCost`, if every window overlaps every zone |
| `HardCells` | " | `[]HardCellsAreSensed`, under the same condition |
| `CostmapType` | " | `[]TypeOK`, under the same condition |
| `TypeCorrect` | `CurriculumSampler_proofs` | `[]TypeOK` |
| `LevelsAreEarned` | " | `[]LevelEarnedUnfiltered` |
| `WonLevelsAreLeft` | " | `[]NoLevelHeldBack` |
| `TypeCorrect` | `EvalStopCallback_proofs` | `[]TypeOK` |
| `BestIsOnDisk` | " | `[]BestOnDisk` |
| `RunStopsWhenDone` | " | `[]StopsWhenDone` |
| `MetadataNeverAhead` | " | `[]MetaNeverAhead` |
| `TypeCorrect` | `Benchmark_proofs` | `[]TypeOK` of `BenchmarkRunner` |
| `Invariance` | " | `[]IInv`, the inductive invariant of a campaign |
| `NothingIsLost` | " | `[]NothingLost` |
| `AnalysisAgrees` | " | `[]ReportsAgree` |
| `RecordsAgree` | " | `[]AnalysesAgree`, for streams of any length at any rates |
| `PanelTypeCorrect` | " | `[]PanelTypeOK`, for any clients |
| `OneIsWanted` | " | `[]OneWantedActivity`, for one client |
| `NothingIsOrphaned` | " | `[]NothingOrphaned`, for one client |
| `TypeCorrect` | `SocialNavEnv_proofs` | `[]TypeOK` |
| `StopIsObeyed` | " | `[]StopReachesRobot` |
| `FramesAreFresh` | " | `[]FramesOfThisEpisode` |
| `StartIsKnown` | " | `[]StartsWhereTold` |
| `WallsAreMissed` | " | `[]WallNeverHit`, if the robot is not put into an obstacle |
| `TouchIsSlow` | " | `[]CreepsAtWorst`, if `MaxLinAccel < TtcSlow` and `TtcStop > 0` |
| `TypeCorrect` | `SimulatedPeople_proofs` | `[]TypeOK` |
| `NeverBack` | " | `BodyNeverGoesBack` |
| `NobodyIsForgotten` | " | `[]CrowdAsAsked`, for any numbers asked for |
| `PeopleStartApart` | " | `[]StartsApart`, if the fixed routes and the merging streams are asked for a metre or less |
| `PeopleDoNotJump` | " | `NoTeleport`, for people and other robots |

The arguments:

- *Modes.* `Classify` is monotone in the margin, so the base classification is at
  most the widened one and `nextMode` clamps into the band. Everything else about
  modes follows from this lemma and from `ModeSpeedScale` falling with the mode.
- *Hysteresis.* `BandSeparatesModes` relates two steps far apart. The invariant
  `LeftClear` carries what the first leaves behind: wherever the mode fell below a
  level, the clearance was outside every widened threshold of that level. When the
  level is entered again, the clearance is inside one of the base thresholds; the
  difference is the band.
- *Freshness.* `HumansAreFresh` speaks of the snapshot, the age check of the header.
  `FeedInv` says that messages on their way are whole (header and list of the same
  time), that `latest_humans_` is whole whenever the mutex is free, and that while
  the callback holds it the header is the one of the message being copied. Without
  the middle part a cycle could read a new header over an old list.
- *Limit.* `LimitInv` adds to `LimitObeyed` that the register of the last clamp still
  holds the limit in force unless a write has raced. `EffectiveMaxSpeedRange` shows
  that a torn pair of limit and unit still yields a speed the robot can drive.
- *Refinement.* Each action of the controller is a step of the contract (`Command`
  is `Command(in)`, the halting returns are `Stop`) or leaves mode, `seen` and `cmd`
  alone. The step needs the type invariant, for the range of the scaled speed.
- *Costmap.* `NoGhostCost` speaks of finished updates. `CostmapInv` says in addition
  what holds between the halves of one: every cell of the window that the update
  will not touch is already what a full recomputation for the *new* people would
  give, because the reported bounds contain the old people, the new people, the
  zones and the news of the layers below (`BoundsOfPeople`, `ReportedBoundsCover`).
  The condition `ZonesInReach` is needed: a zone outside the window, see 3.2,
  is stamped on edge cells, and the next roll may leave these cells
  untouched.
- *Curriculum.* `Bookkeeping` says what the window kept by the code is: the outcomes
  since the last advance, all of episodes of the present level, while every earlier
  episode was of an easier one. A success rate over the window is then a rate over
  the history shifted by a constant (`ShiftedSuccesses`, a bijection between the two
  sets of successes). `WonLeft` adds that no window inside the present level has
  cleared the threshold yet, unless its last result is still to be recorded.
- *Training.* `FilesInOrder` says, for each point of a save, which of the two files
  is cut short and that nothing on disk was saved later than now; metadata is written
  after its model and opened only when the model is whole. `Judged` ties the
  callback's memory to the history: `best` is the score of the first best evaluation
  and `no_improve` counts those since. `Kept` says that the files are the ones of that
  evaluation unless it is being saved. `NotOverdue`, which the type invariant needs,
  says that no evaluation is due once one has taken place.

- *Panel.* `WantedIsKnown` says, for each place of the request thread, which activity may
  run that nobody asked to stop: the recorded one between requests; none from the look at
  it to the start of another, and none from the signal to the end of a Stop; the one just
  started until it is recorded. Processes only ever end by themselves (`ProcessesOnlyEnd`).
  Both properties follow. They are for one client because they fail for two: the
  check and the start are not one step, see 3.2.
- *Benchmark, invariant.* `NothingLost` speaks of finished runs, and a run is finished by
  files that are written before it counts; so `IInv` says of every run of the campaign,
  begun or not, what there is of it (`OwnFiles`): all files and its row once it is counted,
  nothing before it has begun, and in between no record without its row. `CurrentFiles` adds
  which files of the present run are whole, by their place in `FileOrder`, and that the row on
  disk is the row of the record still held; `Progress` ties the number of rows to the loops;
  `RecordOK` gives the streams their types. `Told` says that reports and analysis say what
  was true when they were written and still is.
- *Benchmark, names.* All this rests on `OwnNames`: two runs of a campaign that names no
  planner twice have different file names. Planner, scenario and run are a quotient and two
  remainders of the number of the run (`JobAt`), from which the number is recovered. The
  scenarios are distinct by `RunnerAssumption`: the command takes one of them, or all.
- *Benchmark, logs.* With one planner the scenario and the run alone name a run
  (`OwnLogNames`, from the same arithmetic), so no log is opened twice (`OwnLogs`). With two
  planners each log of the first is written over by the second; `NothingLost` then says nothing of
  logs.
- *Benchmark, totals.* The rows on disk are those of the finished runs and of one more at
  most (`RowsOnDisk`). The reports number the runs, the analysis names them; names are
  one-to-one with numbers, so the totals over both are the same, and group by group
  (`Renumbered`, `RenumberedGroups`). The runs of a planner are consecutive: one for each
  scenario and repetition (`RunsOfPlanner`).
- *Benchmark, records.* The row finds collisions, intrusions and stops by sets and counts over
  the streams; `detect_events` finds them by loops with flags. The loops are recursive
  functions (`ProximityLoop`, `StopLoop`); their values exist (`LoopExists`) and what they have
  counted after each element is proved by induction along the sequence (`UpTo`, from the least
  number in a set of counterexamples). `ProximityCounts`: both flags say whether the last
  frame was in the zone, and there is one event for every stretch of frames so far that is.
  `StopCounts`: one event for every stop begun, one for every stop ended, one for every
  stop that has lasted, where the flag `flagged` of the loop holds if and only if the
  present stop is one of these. `RecordAgrees` compares the two for any record at all; that the
  records of a campaign are of such streams is `RecordOK`.
- *RL episode, types.* `EnvTypes` adds to `TypeOK` what its steps need: the range of every
  command in the delay line, of what is seen of the people, and of the counts in each phase.
  `FilterType` says what the supervisor promises whatever the signals: a speed the robot
  has, 0 at an imminent collision, else slowed in proportion to the time to collision or by
  the acceleration limit.
- *RL episode, stop.* A stop is in force after the latency: `StopsInLine` says that the last
  entries of the delay line are zero, as many as there were stops in a row. A zero is
  executed as zero whatever the tracking error.
- *RL episode, frames.* `FramesInOrder` says for each phase up to which step the stack is
  filled, and that a policy that still has to be reset stands before its first step.
- *RL episode, start.* `StartInSight` bounds, while the reset waits, the robot and any
  odometry of this episode by how far it can have driven since the teleport, if that was
  answered. A teleport that comes late leaves no answered one in force.
- *RL episode, walls.* A robot outside the margin of an obstacle does not reach it in one
  period, for `HitMargin >= MaxLinVel` (a condition of the property: MaxLinVel is the
  drive of a period); one inside it is stopped. The robot must not begin inside one.
- *RL episode, people.* With the robot at speed `v` and a gap of `g` the time to a contact is
  `t = 100 g / v`, rounded down. Under `TtcStop` the robot stops at once; under `TtcSlow`
  the command is scaled by `t` over `100 TtcSlow`, or held by the acceleration limit at `v`
  less one period's change; either is at most `g` if `v > 0` (`GapIsKept`). At rest the stop
  is forgotten, hence one period's acceleration in the property. `MaxLinAccel < TtcSlow` makes the first step after rest short in comparison with the horizon: in the
  configuration, in units of 0.25 mm per period, it is 10 against 60. The invariant
  `TouchesSlowly` adds that the supervisor knows the speed of the robot, and that a robot
  which touches somebody before a step was put there and stands.
- *Crowds, types and counts.* `PeopleTypes` includes `GroupsInOrder`: the groups planned so
  far are numbered from 0, and have the sizes that `GroupSizes` returned, all full
  but for the last. The count then follows from how many groups there are.
  Merging streams are planned in one round (`MergeInOneRound`), each with half of the
  people and two at least, which `Streams` adds up.
- *Crowds, bodies.* `BodiesInOrder`: a body is asked for once, is never ahead of the
  published time, and has one move under way at most, to its time or a later one.
- *Crowds, distances.* `PlanApart` says of the plan so far that strangers are apart and that
  fixed routes are filled in order. A draw is refused within `min_separation` of anybody,
  or, for a group, within that and the radius of the group of its centre. That the members
  keep the distance then is the triangle inequality, proved for integers without roots
  (`Shifted`). The fixed routes and the lanes of merging streams are apart by their
  coordinates; these are constants a metre or more apart, hence the condition, which the
  default of `min_separation` meets and no launch changes.
- *Crowds, jumps.* `AllWalk` says of everybody planned that they have a route of one leg,
  or of two with the first along x (`NextWalk`: every behaviour does), and a speed not below
  0: no launch sets one (`ConfigAssumption`). The way walked by a tick, hold and sudden stop included, grows no faster than on
  foot (`PoseIsClose`), and so does the place along the route, whose turns fold it
  (`OutAndBack`). It remains that places that far apart along a route are as close in the
  plane. On one leg they are up to rounding: its length is a root rounded down, and so is
  each place on it; `OnOneLeg` bounds all three together by less than the 3 cm of the
  property. Round the bend the first part is along x and exact, and adds at most its length
  (`Further`, from the triangle inequality). A second bend could cost a rounding of its own,
  hence the routes of two legs.

Only model-checked:

- liveness (`CycleCompletes`, `DeadFeedReleases`, `DeadFeedClearsCost`, `EpisodesEnd`,
  `ConfirmedBodiesFollow`), which is out of the prover's reach;
- `NoTeleport` for the factory workers: their timeline is in milliseconds and centimetres, and
  what its roundings add up to depends on the acceleration, the speed and the length of a
  leg. The rounding of 3 cm in the property is checked for those of the launch, at the readings
  of section 3, a second apart where legs and timelines end; it is not claimed for every
  acceleration.

## 5. What is not modelled

- Numbers as doubles: trajectory scoring, collision checks, pure pursuit, the
  Gaussian of the social layer, prediction, reward and observation. Where their
  outcome matters it is a choice of the model.
- The arc that a scaled command follows. The trajectory that was checked is the
  candidate's; the mode scales `v` and not `omega`. Listed as a hazard.
- The metrics window and debug topics of the plugin: nothing reads them back.
- Disabled layers, the second dimension of the grid, and resolutions of the costmap.
- Nav2 and stable-baselines3 beyond what the code here relies on.
- What a second run of the training command does to the result of the first: it
  overwrites the best policy with the first one it evaluates, however poor. The
  documentation promises nothing across runs, and `BestOnDisk` speaks of one run.
- Crowds: yaw, the jittered speeds of workers but for the ends of their range, `human_publisher.py` (people on fixed routes without
  bodies; with `loop_period > 0` it publishes half the speed it walks at, and the wrong sign on
  the way back), a Gazebo that dies. `Scenes` covers four launch files.
- What the planners of a crowd do not promise, and the model shows they do not do: fixed
  and crossing routes may begin inside the robot's keep-out; in `urban`, `group`, `easy` a
  group has one member; the plaza's crossing lane leads through a bench; `group_merge` does
  not count its people as the other profiles do (3.2).
- RL: turning, the reward, the observation vector, noise on the lidar, the wander of people,
  the recurrent state of a policy. Of the supervisor, the cautious cap and the rejection of
  commands that are not finite are in `Filter`, but the environment never gives it the signals
  they need. With an obstacle closer than the margin the stop can never be left. Between and
  after episodes the robot in Gazebo keeps its last command; `StartsWhereTold` allows for it.
- Benchmark: the telemetry thread, oscillations, averages and percentiles, the HTML of the
  reports. A run whose goal is answered after 10 s is recorded as rejected though the robot
  drives (in the model); a run that times out close to the goal has `success` true while its last
  event says that it failed; nobody seen is recorded as an intrusion ratio of 0; a planner
  named twice overwrites its own files, hence `Distinct`.
- The human model's tracker, prediction, and the generator of trajectories: pure functions on
  doubles, or a library that no node here instantiates.
- The components with status `not_modelled` in `PROJECT.json`.

## 6. Plan

Every safety property of the passing runs is proved, `NoTeleport` for all but the workers.
What is left to say, in this order:

1. What holds among people who walk: a bound on the speed at contact from the slow-down by
   clearance, which keeps a robot close to somebody slow whatever they do next.
2. The telemetry thread of the benchmark, which samples while a run goes on.
3. The tracker of the human model, once a node of this repository uses it.

Not planned: proofs of liveness.
