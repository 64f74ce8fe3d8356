---------------------------- MODULE WorkerModel ----------------------------
(***************************************************************************)
(* Planning of the factory workers (worker_model.py): each one gets a      *)
(* cyclic timeline of legs, with a trapezoidal speed profile, and dwells.  *)
(* Lengths are in centimetres, times of a timeline in milliseconds.        *)
(***************************************************************************)
EXTENDS PedestrianModel

CONSTANT StationDraws   \* the sequences of stations rng.sample may return

\* A leg of at least twice the distance it takes to reach the cruise speed
ReachesCruise(length, v, a) == v * v <= a * length

\* The highest speed of a leg that is too short for the cruise speed
PeakSpeed(length, v, a) ==
    CHOOSE n \in 0..v : n * n <= a * length /\ a * length < (n + 1) * (n + 1)

\* Mutant: a leg takes as long as if the cruise speed were reached at once.
LegTimeAtCruise(length, v, a) == (1000 * length) \div v

\* _leg_time
LegTime(length, v, a) ==
    IF length = 0 THEN 0
    ELSE IF ReachesCruise(length, v, a)
         THEN 2 * ((1000 * v) \div a) + (1000 * (length - (v * v) \div a)) \div v
         ELSE 2 * ((1000 * PeakSpeed(length, v, a)) \div a)

\* Distance and speed of a leg, tau milliseconds after its start from rest, when
\* it accelerates to peak, holds it for cruise milliseconds and decelerates
Trapezoid(peak, cruise, a, tau) ==
    LET t_acc   == (1000 * peak) \div a
        d_acc   == (peak * peak) \div (2 * a)
        ramp(t) == (((a * t) \div 1000) * t) \div 2000
        td      == Min({tau, 2 * t_acc + cruise}) - (t_acc + cruise)
    IN  IF tau <= t_acc
        THEN [dist |-> ramp(tau), speed |-> (a * tau) \div 1000]
        ELSE IF tau <= t_acc + cruise
             THEN [dist |-> d_acc + (peak * (tau - t_acc)) \div 1000, speed |-> peak]
             ELSE [dist |-> d_acc + (peak * cruise) \div 1000
                              + (peak * td) \div 1000 - ramp(td),
                   speed |-> Max({peak - (a * td) \div 1000, 0})]

\* _leg_state
LegState(length, v, a, tau) ==
    IF length = 0 THEN [dist |-> 0, speed |-> 0]
    ELSE IF ReachesCruise(length, v, a)
         THEN Trapezoid(v, (1000 * (length - (v * v) \div a)) \div v, a, tau)
         ELSE Trapezoid(PeakSpeed(length, v, a), 0, a, tau)

-----------------------------------------------------------------------------
(***************************************************************************)
(* _build_segments: a leg to each point of the closed loop in turn, each   *)
(* followed by a dwell when there is one; a lone point is one long dwell.  *)
(***************************************************************************)

LegLength(from, to) == Hypot(to[1] - from[1], to[2] - from[2])

Segment(from, to, t0, t1, dwell) ==
    [from |-> from, to |-> to, t0 |-> t0, t1 |-> t1, dwell |-> dwell,
     length |-> LegLength(from, to)]

\* Without a dwell the segments of the dwells are empty and never active.
BuildSegments(route, speed, accel, dwell_time) ==
    LET n    == Len(route)
        next(i) == route[(i % n) + 1]
        dt(i)   == LegTime(LegLength(route[i], next(i)), speed, accel)
        t0(i)   == MapThenSumSet(dt, 1..(i - 1)) + (i - 1) * dwell_time
    IN  IF n = 1
        THEN <<Segment(route[1], route[1], 0, Max({dwell_time, 1000}), TRUE)>>
        ELSE [k \in 1..(2 * n) |->
                LET i == (k + 1) \div 2
                IN  IF k % 2 = 1
                    THEN Segment(route[i], next(i), t0(i), t0(i) + dt(i), FALSE)
                    ELSE Segment(next(i), next(i), t0(i) + dt(i), t0(i + 1), TRUE)]

Worker(role, route, speed, accel, dwell) ==
    [behavior |-> role, waypoints |-> route, speed |-> speed, accel |-> accel,
     group |-> -1, segments |-> BuildSegments(route, speed, accel, dwell)]

Period(worker) == worker.segments[Len(worker.segments)].t1

-----------------------------------------------------------------------------
(***************************************************************************)
(* plan_workers: the crossing workers, then those with a workstation, then *)
(* those on patrol.                                                        *)
(***************************************************************************)

\* The defaults of WorkerConfig that no launch changes
WorkerConfig ==
    [robot_start |-> <<0, 0>>, robot_keepout |-> 150, min_separation |-> 120,
     speed |-> 90, accel |-> 60, speed_jitter |-> 15, crossing_dwell |-> 1500,
     dwells |-> {4000, 8000}, patrol_routes |-> <<>>]

\* _clear
Clear(cfg, placed, p, separation) ==
    /\ cfg.walkable[1] <= p[1] /\ p[1] <= cfg.walkable[2]
    /\ cfg.walkable[3] <= p[2] /\ p[2] <= cfg.walkable[4]
    /\ ~ Blocked(cfg.obstacles, p, separation \div 2)
    /\ ~ Closer(p, cfg.robot_start, cfg.robot_keepout)
    /\ \A q \in placed : ~ Closer(p, q, separation)

\* _jitter_speed: the ends of the range it draws from
JitterSpeed(cfg) ==
    {Max({20, cfg.speed - cfg.speed_jitter}), cfg.speed + cfg.speed_jitter}

\* _plan_crossing: the first lane that is clear, for a drawn speed
NextCrossing(cfg, plan) ==
    LET base == cfg.crossing_routes[(Len(plan) % Len(cfg.crossing_routes)) + 1]
        off(n) == Max({cfg.min_separation, 60})
                    * (IF n % 2 = 0 THEN n \div 2 ELSE -(n \div 2))
        north(n) == <<base[1] + off(n), base[2]>>
        south(n) == <<base[3] + off(n), base[4]>>
        clear == {n \in 1..19 :
                    /\ Clear(cfg, Placed(plan), north(n), cfg.min_separation)
                    /\ ~ Blocked(cfg.obstacles, south(n), 0)}
    IN  IF clear = {} THEN {}
        ELSE {Worker("crossing", <<north(Min(clear)), south(Min(clear))>>,
                     speed, cfg.accel, cfg.crossing_dwell) : speed \in JitterSpeed(cfg)}

\* _plan_workstation: any draw whose stations are all out of the boxes and whose
\* first is a clear place to spawn
NextWorkstation(cfg, plan) ==
    {Worker("workstation", w.stations, w.speed, cfg.accel, w.dwell) :
        w \in [stations : {s \in StationDraws :
                            /\ \A i \in DOMAIN s : ~ Blocked(cfg.obstacles, s[i], 0)
                            /\ Clear(cfg, Placed(plan), s[1], cfg.min_separation)},
               speed : JitterSpeed(cfg), dwell : cfg.dwells]}

\* _plan_patrol: no dwell; the start is clear or the plan fails
NextPatrol(cfg, plan) ==
    LET loop == cfg.patrol_routes[(Len(plan) % Len(cfg.patrol_routes)) + 1]
    IN  IF cfg.patrol_routes # <<>> /\ Clear(cfg, Placed(plan), loop[1], cfg.min_separation)
        THEN {Worker("patrol", loop, speed, cfg.accel, 0) : speed \in JitterSpeed(cfg)}
        ELSE {}

NextWorkers(cfg, plan) ==
    {<<w>> : w \in IF Len(plan) < cfg.num_crossing THEN NextCrossing(cfg, plan)
                   ELSE IF Len(plan) < cfg.num_crossing + cfg.num_workstation
                        THEN NextWorkstation(cfg, plan)
                        ELSE NextPatrol(cfg, plan)}

WorkersPlanned(cfg, plan) ==
    Len(plan) = cfg.num_crossing + cfg.num_workstation + cfg.num_patrol

-----------------------------------------------------------------------------
(***************************************************************************)
(* active_segment and pose_at_time, t seconds after the start              *)
(***************************************************************************)

ActiveSegment(worker, tt) ==
    LET later == {k \in DOMAIN worker.segments : tt < worker.segments[k].t1}
    IN  worker.segments[IF later = {} THEN Len(worker.segments) ELSE Min(later)]

\* The pose tau milliseconds after the start of a segment
PoseOnSegment(worker, seg, tau) ==
    LET state == LegState(seg.length, worker.speed, worker.accel, tau)
        along(k, of) == ((seg.to[k] - seg.from[k]) * of) \div seg.length
    IN  IF seg.dwell \/ seg.length = 0
        THEN Standing(seg.from)
        ELSE [p |-> [k \in 1..2 |-> seg.from[k] + along(k, state.dist)],
              v |-> [k \in 1..2 |-> along(k, state.speed)]]

WorkerPoseAtTime(worker, t) ==
    LET tt  == (1000 * t) % Period(worker)
        seg == ActiveSegment(worker, tt)
    IN  PoseOnSegment(worker, seg, tt - seg.t0)
=============================================================================
