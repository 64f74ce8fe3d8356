-------------------------- MODULE PedestrianModel --------------------------
(***************************************************************************)
(* Planning of the simulated people (pedestrian_model.py) and of the other *)
(* robots (robot_agent_model.py): who exists, which route each one paces,  *)
(* and where somebody is at a time.  Lengths are in centimetres, times in  *)
(* seconds, a point is a pair.  The random generator is a choice: of the   *)
(* points its sampler may draw, which are SpawnPoints.                     *)
(***************************************************************************)
EXTENDS Integers, Sequences, FiniteSets, FiniteSetsExt

CONSTANT SpawnPoints    \* the points rng.uniform may draw, as <<x, y>>

Abs(n) == IF n < 0 THEN -n ELSE n

\* math.hypot, rounded down to the centimetre
Hypot(dx, dy) ==
    IF dx = 0 \/ dy = 0
    THEN Abs(dx) + Abs(dy)
    ELSE CHOOSE n \in 0..(Abs(dx) + Abs(dy)) :
             n * n <= dx * dx + dy * dy /\ dx * dx + dy * dy < (n + 1) * (n + 1)

\* hypot of the difference < d, exactly
Closer(p, q, d) ==
    (p[1] - q[1]) * (p[1] - q[1]) + (p[2] - q[2]) * (p[2] - q[2]) < d * d

\* Box.contains; a box is <<xmin, ymin, xmax, ymax>>
Contains(box, p, margin) ==
    /\ box[1] - margin <= p[1] /\ p[1] <= box[3] + margin
    /\ box[2] - margin <= p[2] /\ p[2] <= box[4] + margin

Blocked(obstacles, p, margin) == \E box \in obstacles : Contains(box, p, margin)

-----------------------------------------------------------------------------
(***************************************************************************)
(* What is planned.  A person that never stops has stop = -1; otherwise it *)
(* holds its position for hold seconds once it has walked stop.            *)
(***************************************************************************)

PROFILES ==
    {"walking", "crossing", "mixed", "group", "head_on", "turning", "same_direction",
     "blocker", "stop_go", "merge"}

Pedestrian(behavior, waypoints, speed, group) ==
    [behavior |-> behavior, waypoints |-> waypoints, speed |-> speed,
     group |-> group, stop |-> -1, hold |-> 0]

Start(ped) == ped.waypoints[1]
Placed(plan) == {Start(plan[i]) : i \in DOMAIN plan}

\* The defaults of SpawnConfig that no launch changes
SpawnConfig ==
    [min_separation |-> 100, robot_start |-> <<0, 0>>, robot_keepout |-> 150,
     speed |-> 90, group_size |-> 3, group_spacing |-> 70, crossing_x |-> 550,
     crossing_north |-> 220, crossing_south |-> -300,
     walk_xmin |-> 100, walk_xmax |-> 1200, obstacles |-> {}]

BehaviorFor(profile, index) ==
    IF profile # "mixed" THEN profile
    ELSE IF index % 2 = 0 THEN "crossing" ELSE "walking"

\* _sample_spawn: the draws that are accepted
SampleSpawn(cfg, placed, extra_margin) ==
    {p \in SpawnPoints :
        /\ cfg.region[1] <= p[1] /\ p[1] <= cfg.region[2]
        /\ cfg.region[3] <= p[2] /\ p[2] <= cfg.region[4]
        /\ ~ Blocked(cfg.obstacles, p, (cfg.min_separation \div 2) + extra_margin)
        /\ ~ Closer(p, cfg.robot_start, cfg.robot_keepout + extra_margin)
        /\ \A q \in placed : ~ Closer(p, q, cfg.min_separation + extra_margin)}

WalkRoute(cfg, spawn) ==
    LET far == IF 2 * spawn[1] <= cfg.walk_xmin + cfg.walk_xmax
               THEN cfg.walk_xmax ELSE cfg.walk_xmin
    IN  <<spawn, <<far, spawn[2]>> >>

\* Sideways offset of the people on the robot's lane
LaneY(index) == IF index = 0 THEN 0 ELSE IF index % 2 = 1 THEN 40 ELSE -40

\* The routes that take no draw and look at nobody else
FixedRoute(cfg, behavior, index) ==
    CASE behavior = "head_on" ->
            LET far == Min({cfg.walk_xmax, 800}) - index * 160
            IN  << <<far, LaneY(index)>>, <<150, LaneY(index)>> >>
      [] behavior = "turning" ->
            << <<200 + index * 120, 100>>, <<600 + index * 100, 100>>,
               <<600 + index * 100, -50>> >>
      [] behavior = "same_direction" ->
            << <<200 + index * 120, LaneY(index)>>, <<cfg.walk_xmax, LaneY(index)>> >>
      [] behavior = "blocker" ->
            << <<450 + index * 150, 0>>, <<450 + index * 150, 0>> >>
      [] behavior = "stop_go" ->
            << <<cfg.crossing_x + index * 100, cfg.crossing_north>>,
               <<cfg.crossing_x + index * 100, cfg.crossing_south>> >>

(***************************************************************************)
(* _place_crossing_x: the lanes tried, in order, are 0, 1, -1, 2, -2 ...   *)
(* steps from crossing_x; the first that is free is taken, if there is one.*)
(***************************************************************************)

CrossingLane(cfg, n) ==
    cfg.crossing_x
      + Max({cfg.min_separation, 50}) * (IF n % 2 = 0 THEN n \div 2 ELSE -(n \div 2))

\* Mutant: the lane is looked at for obstacles alone.
LaneFreeOfBoxes(cfg, placed, x) ==
    ~ Blocked(cfg.obstacles, <<x, cfg.crossing_north>>, cfg.min_separation \div 2)

LaneFree(cfg, placed, x) ==
    /\ ~ Blocked(cfg.obstacles, <<x, cfg.crossing_north>>, cfg.min_separation \div 2)
    /\ \A q \in placed : ~ Closer(<<x, cfg.crossing_north>>, q, cfg.min_separation)

PlaceCrossingX(cfg, placed) ==
    LET free == {n \in 1..23 : LaneFree(cfg, placed, CrossingLane(cfg, n))}
    IN  IF free = {} THEN {} ELSE {CrossingLane(cfg, Min(free))}

-----------------------------------------------------------------------------
(***************************************************************************)
(* Groups                                                                  *)
(***************************************************************************)

\* Mutant: the lone person is taken off the list and added to nobody.
GroupSizesDropping(n, size) ==
    LET s    == Max({2, Min({5, size})})
        full == n \div s
        rest == n % s
    IN  [g \in 1..(full + IF rest > 1 \/ full = 0 THEN Min({rest, 1}) ELSE 0) |->
            IF g <= full THEN s ELSE rest]

\* _group_sizes: full groups, and what is left as a group of its own, or added to
\* the last group when it is one person.
GroupSizes(n, size) ==
    LET s    == Max({2, Min({5, size})})
        full == n \div s
        rest == n % s
        lone == rest = 1 /\ full >= 1
    IN  [g \in 1..(full + IF rest > 0 /\ ~ lone THEN 1 ELSE 0) |->
            IF g > full THEN rest ELSE IF g = full /\ lone THEN s + 1 ELSE s]

\* How many groups are in the plan
GroupsPlanned(plan) == Cardinality({plan[i].group : i \in DOMAIN plan})

\* Member j (from 0) of a group whose centre walks route: two abreast, rows behind.
\* The routes of walkers run along x.
Member(cfg, gid, route, j) ==
    LET ux  == IF route[2][1] < route[1][1] THEN -1 ELSE 1
        off == << -ux * (j \div 2) * cfg.group_spacing,
                  (ux * (2 * (j % 2) - 1) * cfg.group_spacing) \div 2>>
        shift(p) == <<p[1] + off[1], p[2] + off[2]>>
    IN  Pedestrian("group", <<shift(route[1]), shift(route[2])>>, cfg.speed, gid)

\* One round of the loop of _plan_groups: the ways to place the next group
NextGroup(cfg, plan) ==
    LET gid  == GroupsPlanned(plan)
        size == GroupSizes(cfg.num_humans, cfg.group_size)[gid + 1]
        radius == cfg.group_spacing * (1 + (size - 1) \div 2)
    IN  {[j \in 1..size |-> Member(cfg, gid, WalkRoute(cfg, centre), j - 1)] :
            centre \in SampleSpawn(cfg, Placed(plan), radius)}

\* _plan_merge: two groups whose lanes bend to one line
Merge(cfg) ==
    LET per_group == Max({2, cfg.num_humans \div 2})
        merge_x   == (200 + cfg.walk_xmax) \div 2
        sx(k)     == 200 + ((k - 1) % per_group) * 60
        lane_y(k) == IF k <= per_group THEN 120 ELSE -120
    IN  [k \in 1..(2 * per_group) |->
            Pedestrian("merge", << <<sx(k), lane_y(k)>>, <<merge_x, lane_y(k)>>,
                                   <<cfg.walk_xmax, 0>> >>,
                       cfg.speed, IF k <= per_group THEN 0 ELSE 1)]

-----------------------------------------------------------------------------
(***************************************************************************)
(* plan_pedestrians, one round of its loop at a time                       *)
(***************************************************************************)

NextPedestrian(cfg, plan) ==
    LET i        == Len(plan)
        behavior == BehaviorFor(cfg.profile, i)
        ped(route) == Pedestrian(behavior, route, cfg.speed, -1)
    IN  CASE behavior = "crossing" ->
                {ped(<< <<x, cfg.crossing_north>>, <<x, cfg.crossing_south>> >>) :
                    x \in PlaceCrossingX(cfg, Placed(plan))}
          [] behavior = "walking" ->
                {ped(WalkRoute(cfg, spawn)) : spawn \in SampleSpawn(cfg, Placed(plan), 0)}
          [] behavior = "stop_go" ->
                {[ped(FixedRoute(cfg, behavior, i)) EXCEPT
                    !.stop = cfg.crossing_north, !.hold = 4]}
          [] OTHER -> {ped(FixedRoute(cfg, behavior, i))}

\* Everybody the next round may add; none when it raises ValueError for certain
NextPeople(cfg, plan) ==
    CASE cfg.profile = "group" -> NextGroup(cfg, plan)
      [] cfg.profile = "merge" -> {Merge(cfg)}
      [] OTHER -> {<<ped>> : ped \in NextPedestrian(cfg, plan)}

PedestriansPlanned(cfg, plan) ==
    CASE cfg.profile = "group" ->
            GroupsPlanned(plan) = Len(GroupSizes(cfg.num_humans, cfg.group_size))
      [] cfg.profile = "merge" -> plan # <<>>
      [] OTHER -> Len(plan) = cfg.num_humans

\* The sampler draws at most 200 times: it may give up although there is room.
SamplerUsed(cfg, plan) ==
    cfg.profile = "group" \/ BehaviorFor(cfg.profile, Len(plan)) = "walking"

(***************************************************************************)
(* plan_robot_agents with its default x_range and lanes: even agents start *)
(* east, odd ones west.                                                    *)
(***************************************************************************)

RobotAgents(num_agents, speed) ==
    LET lanes == <<0, -100, 100>>
        y(i)  == lanes[((i - 1) % 3) + 1]
    IN  [i \in 1..Max({0, num_agents}) |->
            Pedestrian("amr", IF i % 2 = 1 THEN << <<300, y(i)>>, <<1100, y(i)>> >>
                                           ELSE << <<1100, y(i)>>, <<300, y(i)>> >>,
                       speed, -1)]

-----------------------------------------------------------------------------
(***************************************************************************)
(* pose_at_time.  A pose is the position and the velocity.                 *)
(***************************************************************************)

Standing(p) == [p |-> p, v |-> <<0, 0>>]

\* seglens, and the way along the first legs of a route
SegLen(pts, i) == Hypot(pts[i + 1][1] - pts[i][1], pts[i + 1][2] - pts[i][2])

Upto(pts) ==
    LET upto[i \in 0..(Len(pts) - 1)] ==
            IF i = 0 THEN 0 ELSE upto[i - 1] + SegLen(pts, i)
    IN  upto

\* The loop over the legs: the pose s along the way, at a speed along its leg
PoseAlong(pts, s, speed) ==
    LET upto == Upto(pts)
        leg  == Min({i \in 1..(Len(pts) - 1) : SegLen(pts, i) > 0 /\ upto[i] >= s})
        along(k, of) == ((pts[leg + 1][k] - pts[leg][k]) * of) \div SegLen(pts, leg)
    IN  [p |-> [k \in 1..2 |-> pts[leg][k] + along(k, s - upto[leg - 1])],
         v |-> [k \in 1..2 |-> along(k, speed)]]

\* _pose_on_route after walking dist, out and back, along waypoints
PoseOnRoute(ped, dist) ==
    LET pts   == ped.waypoints
        total == Upto(pts)[Len(pts) - 1]
        d     == dist % (2 * total)
    IN  IF total = 0 \/ ped.speed <= 0 THEN Standing(pts[1])
        ELSE IF d <= total THEN PoseAlong(pts, d, ped.speed)
        ELSE PoseAlong(pts, 2 * total - d, -ped.speed)

\* The schedule of the stop, in distance walked at the pedestrian's speed
PoseAtTime(ped, t) ==
    LET walked == ped.speed * t
        held   == ped.speed * ped.hold
    IN  IF ped.stop < 0 \/ walked < ped.stop
        THEN PoseOnRoute(ped, walked)
        ELSE IF walked < ped.stop + held
             THEN Standing(PoseOnRoute(ped, ped.stop).p)
             ELSE PoseOnRoute(ped, walked - held)
=============================================================================
