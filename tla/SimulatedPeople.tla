-------------------------- MODULE SimulatedPeople --------------------------
(***************************************************************************)
(* One node that plans agents, spawns their bodies in Gazebo one after the *)
(* other, and then moves the bodies and publishes the people on every tick *)
(* of its timer: pedestrian_manager.py, worker_manager.py and              *)
(* robot_agent_manager.py, which differ in what they plan and in that the  *)
(* last publishes nothing.                                                 *)
(*                                                                         *)
(* The node has one thread.  While the main program waits for the answer   *)
(* to a spawn request it spins, so the timer fires in between; Gazebo      *)
(* carries requests out when it likes, an answer may come after the        *)
(* program has stopped waiting for it, and an answer to a move may never   *)
(* come.  Times are in seconds; a body is known by the time of the pose it *)
(* was given last.                                                         *)
(***************************************************************************)
EXTENDS Scenes

CONSTANTS
    Managers,       \* the managers of the launches considered
    MaxBodies,      \* plans with more agents are not run
    Instants,       \* by kind of manager, the readings of the simulation clock
    MaxLost,        \* moves whose answer is lost
    NoBody          \* an agent without a body in Gazebo

Kinds == {"pedestrian", "worker", "amr"}

ASSUME ManagerAssumption ==
    /\ MaxBodies \in Nat /\ MaxLost \in Nat
    /\ \A kind \in Kinds : Instants[kind] \subseteq Nat \ {0}
    /\ NoBody \notin Nat
    /\ \A m \in Managers : m.kind \in Kinds

\* Lengths and counts are numbers, counts not below 0; plan_pedestrians refuses a profile
\* it does not know, and routes that workers are to take are there.
ASSUME ConfigAssumption ==
    /\ SpawnPoints \subseteq Int \X Int
    /\ \A m \in Managers :
        /\ m.cfg.speed \in Nat
        /\ m.kind = "pedestrian" =>
            /\ m.cfg.profile \in PROFILES
            /\ m.cfg.num_humans \in Nat /\ m.cfg.group_size \in Int
            /\ {m.cfg.min_separation, m.cfg.group_spacing} \subseteq Nat
            /\ {m.cfg.crossing_x, m.cfg.crossing_north, m.cfg.crossing_south,
                m.cfg.walk_xmin, m.cfg.walk_xmax} \subseteq Int
        /\ m.kind = "worker" =>
            /\ {m.cfg.num_crossing, m.cfg.num_workstation, m.cfg.num_patrol,
                m.cfg.min_separation} \subseteq Nat
            /\ m.cfg.crossing_routes \in Seq(Int \X Int \X Int \X Int) \ {<<>>}
            /\ m.cfg.patrol_routes \in Seq(Seq(Int \X Int) \ {<<>>})
        /\ m.kind = "amr" => m.cfg.num_agents \in Nat

VARIABLES
    manager,        \* the node: its kind and configuration
    plan,           \* self.people, self.workers or self.agents
    phase,          \* where the main program is
    next,           \* the agent whose body is spawned next
    spawned,        \* _spawned
    clock,          \* the simulation clock, 0 while it is not up
    t0,             \* _t0, 0 for None
    t,              \* elapsed time of the last tick, which published the poses at t
    set_ready,      \* the set_entity_state service is there
    (***********************************************************************)
    (* Gazebo and the requests to it.                                      *)
    (***********************************************************************)
    spawning,       \* spawn requests not yet carried out
    answer,         \* answers to spawn requests, by agent
    bodies,         \* time of the pose of each body
    moves,          \* moves not yet answered
    stuck           \* agents whose move will never be answered

planVars   == <<manager, plan>>
mainVars   == <<phase, next, spawned>>
tickVars   == <<t0, t>>
gazeboVars == <<spawning, answer, bodies, moves, stuck>>
vars == <<manager, plan, phase, next, spawned, clock, t0, t, set_ready,
          spawning, answer, bodies, moves, stuck>>

Agents == DOMAIN plan

Init ==
    /\ manager \in Managers
    /\ plan = <<>>
    /\ phase = "plan"
    /\ next = 1
    /\ spawned = {}
    /\ clock = 0
    /\ t0 = 0
    /\ t = 0
    /\ set_ready = FALSE
    /\ spawning = {}
    /\ answer = <<>>
    /\ bodies = <<>>
    /\ moves = {}
    /\ stuck = {}

-----------------------------------------------------------------------------
(***************************************************************************)
(* __init__: the plan, then the publisher, the client and the timer.  A    *)
(* plan that cannot be completed raises ValueError, which ends the node.   *)
(***************************************************************************)

NextAgents ==
    CASE manager.kind = "pedestrian" -> NextPeople(manager.cfg, plan)
      [] manager.kind = "worker"     -> NextWorkers(manager.cfg, plan)
      [] manager.kind = "amr"        -> {RobotAgents(manager.cfg.num_agents, manager.cfg.speed)}

PlanComplete ==
    CASE manager.kind = "pedestrian" -> PedestriansPlanned(manager.cfg, plan)
      [] manager.kind = "worker"     -> WorkersPlanned(manager.cfg, plan)
      [] manager.kind = "amr"        -> Len(plan) = manager.cfg.num_agents

PlanMore ==
    /\ phase = "plan"
    /\ ~ PlanComplete
    /\ \E more \in NextAgents : plan' = plan \o more
    /\ UNCHANGED <<manager, mainVars, clock, tickVars, set_ready, gazeboVars>>

PlanRaises ==
    /\ phase = "plan"
    /\ ~ PlanComplete
    /\ \/ NextAgents = {}
       \/ manager.kind = "pedestrian" /\ SamplerUsed(manager.cfg, plan)
    /\ phase' = "failed"
    /\ UNCHANGED <<planVars, next, spawned, clock, tickVars, set_ready, gazeboVars>>

Initialised ==
    /\ phase = "plan"
    /\ PlanComplete
    /\ Len(plan) <= MaxBodies
    /\ phase'  = "wait_for_service"
    /\ answer' = [i \in Agents |-> "none"]
    /\ bodies' = [i \in Agents |-> NoBody]
    /\ UNCHANGED <<planVars, next, spawned, clock, tickVars, set_ready, spawning,
                   moves, stuck>>

-----------------------------------------------------------------------------
(***************************************************************************)
(* spawn_bodies                                                            *)
(***************************************************************************)

SpawnServiceFound ==
    /\ phase = "wait_for_service"
    /\ phase' = "spawn"
    /\ UNCHANGED <<planVars, next, spawned, clock, tickVars, set_ready, gazeboVars>>

\* The service does not appear in time, or gazebo_msgs is not installed.
SpawnServiceMissing ==
    /\ phase = "wait_for_service"
    /\ phase' = "spin"
    /\ UNCHANGED <<planVars, next, spawned, clock, tickVars, set_ready, gazeboVars>>

\* Mutant: the loop goes one agent too far.
MoreToSpawnOneTooFar == next <= Len(plan) + 1

MoreToSpawn == next <= Len(plan)

CallSpawn ==
    /\ phase = "spawn"
    /\ MoreToSpawn
    /\ spawning' = spawning \union {next}
    /\ phase'    = "spin_until"
    /\ UNCHANGED <<planVars, next, spawned, clock, tickVars, set_ready, answer,
                   bodies, moves, stuck>>

\* spin_until_future_complete returns: with the answer, or without it after 10 s
SpawnReturns ==
    /\ phase = "spin_until"
    /\ spawned' = IF answer[next] = "success" THEN spawned \union {next} ELSE spawned
    /\ next'    = next + 1
    /\ phase'   = "spawn"
    /\ UNCHANGED <<planVars, clock, tickVars, set_ready, gazeboVars>>

SpawnLoopEnds ==
    /\ phase = "spawn"
    /\ ~ MoreToSpawn
    /\ phase' = "spin"
    /\ UNCHANGED <<planVars, next, spawned, clock, tickVars, set_ready, gazeboVars>>

-----------------------------------------------------------------------------
(***************************************************************************)
(* _tick and _move_body                                                    *)
(***************************************************************************)

\* Where an agent is, and how fast, at an elapsed time: what the HumanState of the
\* message and the EntityState of the move carry
PoseOf(agent, at) ==
    IF manager.kind = "worker" THEN WorkerPoseAtTime(agent, at) ELSE PoseAtTime(agent, at)

\* Mutants: the pending request is forgotten; or it is never seen to be done.
InFlightIgnored(i) == FALSE
InFlightForGood(i) == i \in stuck \/ (\E m \in moves : m.agent = i) \/ bodies[i] > 0

\* _inflight holds a future for the agent that is not done.
InFlight(i) == i \in stuck \/ \E m \in moves : m.agent = i

\* Those _move_body sends a request for
Movable == {i \in spawned : set_ready /\ ~ InFlight(i)}

Elapsed == IF t0 = 0 THEN 0 ELSE clock - t0

Tick ==
    /\ phase \in {"spin_until", "spin"}
    /\ clock > 0
    /\ t0' = IF t0 = 0 THEN clock ELSE t0
    /\ t'  = Elapsed
    /\ moves' = moves \union {[agent |-> i, at |-> Elapsed] : i \in Movable}
    /\ UNCHANGED <<planVars, mainVars, clock, set_ready, spawning, answer, bodies, stuck>>

-----------------------------------------------------------------------------
(***************************************************************************)
(* The simulation                                                          *)
(***************************************************************************)

Clock ==
    /\ phase \notin {"plan", "failed"}
    /\ \E now \in Instants[manager.kind] : now > clock /\ clock' = now
    /\ UNCHANGED <<planVars, mainVars, tickVars, set_ready, gazeboVars>>

SetServiceUp ==
    /\ phase \notin {"plan", "failed"}
    /\ ~ set_ready
    /\ set_ready' = TRUE
    /\ UNCHANGED <<planVars, mainVars, clock, tickVars, gazeboVars>>

GazeboSpawns(i) ==
    /\ spawning' = spawning \ {i}
    /\ \/ /\ bodies' = [bodies EXCEPT ![i] = 0]
          /\ answer' = [answer EXCEPT ![i] = "success"]
       \/ /\ bodies' = bodies
          /\ answer' = [answer EXCEPT ![i] = "refused"]
    /\ UNCHANGED <<planVars, mainVars, clock, tickVars, set_ready, moves, stuck>>

GazeboMoves(m) ==
    /\ moves'  = moves \ {m}
    /\ bodies' = [bodies EXCEPT ![m.agent] = m.at]
    /\ UNCHANGED <<planVars, mainVars, clock, tickVars, set_ready, spawning, answer, stuck>>

MoveLost(m) ==
    /\ Cardinality(stuck) < MaxLost
    /\ moves' = moves \ {m}
    /\ stuck' = stuck \union {m.agent}
    /\ UNCHANGED <<planVars, mainVars, clock, tickVars, set_ready, spawning, answer, bodies>>

-----------------------------------------------------------------------------
SpawnLoop == CallSpawn \/ SpawnReturns \/ SpawnLoopEnds

Next ==
    \/ PlanMore \/ PlanRaises \/ Initialised
    \/ SpawnServiceFound \/ SpawnServiceMissing
    \/ CallSpawn \/ SpawnReturns \/ SpawnLoopEnds
    \/ Tick
    \/ Clock \/ SetServiceUp
    \/ \E i \in spawning : GazeboSpawns(i)
    \/ \E m \in moves : GazeboMoves(m) \/ MoveLost(m)

Spec == Init /\ [][Next]_vars

(***************************************************************************)
(* The main program goes on, the timer fires while the node spins, and     *)
(* Gazebo carries out a move it does not lose.  Nothing is assumed of the  *)
(* answers to spawn requests, of the services or of the clock.             *)
(***************************************************************************)
FairSpec ==
    /\ Spec
    /\ WF_vars(SpawnLoop)
    /\ WF_vars(Tick)
    /\ \A i \in 1..MaxBodies : WF_vars(\E m \in moves : m.agent = i /\ GazeboMoves(m))

-----------------------------------------------------------------------------
(***************************************************************************)
(* Properties                                                              *)
(***************************************************************************)

Times == {0} \union UNION {0..now : now \in Instants[manager.kind]}

\* Type correctness: requests, answers and bodies are those of planned agents.
TypeOK ==
    /\ manager \in Managers
    /\ phase \in {"plan", "failed", "wait_for_service", "spawn", "spin_until", "spin"}
    /\ next \in 1..(Len(plan) + 1)
    /\ clock \in Times /\ t0 \in Times /\ t \in Times
    /\ set_ready \in BOOLEAN
    /\ DOMAIN bodies \in {{}, Agents} /\ DOMAIN answer = DOMAIN bodies
    /\ spawned \subseteq Agents /\ spawning \subseteq Agents /\ stuck \subseteq Agents
    /\ \A i \in DOMAIN bodies : /\ bodies[i] \in Times \union {NoBody}
                                /\ answer[i] \in {"none", "success", "refused"}
    /\ moves \subseteq [agent : Agents, at : Times]

\* People in two equal streams, two at least in each
Streams(num_humans) == IF num_humans < 4 THEN 4 ELSE num_humans - (num_humans % 2)

\* A plan that is complete has everybody the launch or its caller asks for: splitting into
\* groups and merging the person left over into the last of them loses nobody.  Only where
\* streams merge it has as many as make two equal streams, one fewer than an odd number asked
\* for, and four when fewer are asked for (per_group of _plan_merge).
CrowdAsAsked ==
    PlanComplete =>
        Len(plan) = CASE manager.kind = "pedestrian" /\ manager.cfg.profile = "merge" ->
                            Streams(manager.cfg.num_humans)
                      [] manager.kind = "pedestrian" /\ manager.cfg.profile # "merge" ->
                            manager.cfg.num_humans
                      [] manager.kind = "worker" ->
                            manager.cfg.num_crossing + manager.cfg.num_workstation
                              + manager.cfg.num_patrol
                      [] manager.kind = "amr" -> manager.cfg.num_agents

\* Two people who are not of one group start at least min_separation apart: the lanes of
\* those who cross, the draws of those who walk and the fixed routes keep clear of each
\* other (test_min_separation_and_robot_keepout).
StartsApart ==
    manager.kind # "amr" =>
        \A i, j \in Agents :
            (i # j /\ (plan[i].group = -1 \/ plan[i].group # plan[j].group))
                => ~ Closer(Start(plan[i]), Start(plan[j]), manager.cfg.min_separation)

\* Rounding of a pose, in centimetres
Rounding == 3

\* Between two messages nobody is displaced by more than a walk at the planned speed:
\* the turn at the end of a route, the sudden stop and the wrap of a worker's timeline
\* leave no jump for the tracker and the planner to see.
NoTeleport ==
    [][t' # t =>
        \A i \in Agents : Closer(PoseOf(plan[i], t').p, PoseOf(plan[i], t).p,
                                 plan[i].speed * (t' - t) + Rounding)]_vars

\* A body is never put back to the pose of an earlier time: with at most one move of
\* an agent under way, no order in which Gazebo carries requests out undoes a move.
BodyNeverGoesBack ==
    [][\A i \in DOMAIN bodies : bodies[i] # NoBody => bodies'[i] >= bodies[i]]_vars

\* Every body whose spawn was confirmed ends where its agent was published last,
\* unless the answer to one of its moves was lost.
ConfirmedBodiesFollow ==
    <>[](\A i \in spawned : set_ready /\ i \notin stuck => bodies[i] = t)
=============================================================================
