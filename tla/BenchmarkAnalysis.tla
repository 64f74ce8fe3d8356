-------------------------- MODULE BenchmarkAnalysis --------------------------
(***************************************************************************)
(* What the benchmark makes of the record of one run: the row of           *)
(* metrics.compute, the events of events.detect_events, the label of       *)
(* failure_classifier.classify, and the totals over rows.  A record has    *)
(* the samples of the odometry, [t, x, v], and the frames of people,       *)
(* [t, people], both in the order they came; a position is a point of a    *)
(* line and `people' a set of them.                                        *)
(*                                                                         *)
(* Left out: headings and oscillations, averages, latencies, telemetry and *)
(* all formatting.                                                         *)
(***************************************************************************)
EXTENDS Integers, SequencesExt, FiniteSetsExt

CONSTANTS
    CollisionDist, ComfortDist, StopSpeed,
    ProlongedStop,      \* PROLONGED_STOP_S
    ArrivalRadius, StuckPath, StopsFlag

ASSUME AnalysisAssumption ==
    /\ {CollisionDist, ComfortDist, StopSpeed, ProlongedStop, ArrivalRadius, StuckPath,
        StopsFlag} \subseteq Nat \ {0}
    /\ CollisionDist < ComfortDist

None == -1

Distance(a, b) == IF a <= b THEN b - a ELSE a - b

-----------------------------------------------------------------------------
(***************************************************************************)
(* common.py                                                               *)
(***************************************************************************)

\* nearest_pose: the sample closest in time to t, the first of several.
NearestPose(odom, t) ==
    LET dt(i)   == Distance(odom[i].t, t)
        nearest == {i \in DOMAIN odom : \A j \in DOMAIN odom : dt(i) <= dt(j)}
    IN  odom[Min(nearest)]

\* min_clearance
MinClearance(x, people) ==
    IF people = {} THEN None ELSE Min({Distance(x, p) : p \in people})

\* clearance_series: one entry for each frame
ClearanceSeries(record) ==
    IF record.odom = <<>> THEN <<>>
    ELSE [i \in DOMAIN record.humans |->
            MinClearance(NearestPose(record.odom, record.humans[i].t).x,
                         record.humans[i].people)]

-----------------------------------------------------------------------------
(***************************************************************************)
(* metrics.compute                                                         *)
(***************************************************************************)

Reached(odom, goal) == Distance(Last(odom).x, goal) < ArrivalRadius

PathLength(odom) ==
    FoldLeftDomain(LAMBDA sum, i : IF i = 1 THEN sum
                                   ELSE sum + Distance(odom[i - 1].x, odom[i].x), 0, odom)

\* The number of times the robot came to a stop
NumStops(odom) ==
    Cardinality({i \in 2..Len(odom) : odom[i].v < StopSpeed /\ odom[i - 1].v >= StopSpeed})

\* Mutant: a collision is looked for in the last frame with people only.
CollisionInLastFrame(clearances) ==
    \E i \in DOMAIN clearances :
        clearances[i] < CollisionDist /\ \A j \in DOMAIN clearances : j <= i

Collision(clearances) == \E i \in DOMAIN clearances : clearances[i] < CollisionDist

\* The row of a run.  A run without odometry has no more than its status in it, which
\* the readers of the row take for what is here.
Compute(record, goal) ==
    LET series     == ClearanceSeries(record)
        seen       == {i \in DOMAIN series : series[i] # None}
        clearances == [i \in seen |-> series[i]]
    IN  IF record.odom = <<>>
        THEN [status |-> record.status, success |-> FALSE, time_to_goal |-> None,
              path_length |-> None, num_stops |-> 0, min_distance |-> None,
              collision |-> FALSE, intruded |-> 0, seen |-> 0]
        ELSE [status       |-> record.status,
              success      |-> Reached(record.odom, goal),
              time_to_goal |-> IF Reached(record.odom, goal)
                               THEN Last(record.odom).t - Head(record.odom).t ELSE None,
              path_length  |-> PathLength(record.odom),
              num_stops    |-> NumStops(record.odom),
              min_distance |-> IF seen = {} THEN None ELSE Min(Range(clearances)),
              collision    |-> Collision(clearances),
              intruded     |-> Cardinality({i \in seen : clearances[i] < ComfortDist}),
              seen         |-> Cardinality(seen)]

-----------------------------------------------------------------------------
(***************************************************************************)
(* events.detect_events; an event is its type.                             *)
(***************************************************************************)

EnterZone(out, type, inside) == IF inside THEN out ELSE Append(out, type)

\* What a frame makes of the zones the robot is in and of the events so far
ProximityFrame(s, dist) ==
    LET near == dist # None /\ dist < CollisionDist
        soc  == dist # None /\ dist < ComfortDist
        out1 == IF near THEN EnterZone(s.out, "NEAR_COLLISION", s.in_collision) ELSE s.out
        out2 == IF soc THEN EnterZone(out1, "SOCIAL_INTRUSION", s.in_comfort) ELSE out1
    IN  [in_collision |-> near, in_comfort |-> soc, out |-> out2]

\* The loop of _proximity_events after each frame
ProximityLoop(series) ==
    LET after[i \in 0..Len(series)] ==
            IF i = 0 THEN [in_collision |-> FALSE, in_comfort |-> FALSE, out |-> <<>>]
            ELSE ProximityFrame(after[i - 1], series[i])
    IN  after

ProximityEvents(record) ==
    LET series == ClearanceSeries(record) IN ProximityLoop(series)[Len(series)].out

\* What a sample makes of the stop the robot is in and of the events so far
StopSample(s, o) ==
    IF o.v >= StopSpeed
    THEN [s EXCEPT !.out = IF s.stopped THEN Append(@, "ROBOT_RESUMED") ELSE @,
                   !.stopped = FALSE]
    ELSE IF ~ s.stopped
    THEN [stopped |-> TRUE, since |-> o.t, flagged |-> FALSE,
          out |-> Append(s.out, "ROBOT_STOPPED")]
    ELSE IF ~ s.flagged /\ o.t - s.since >= ProlongedStop
    THEN [s EXCEPT !.flagged = TRUE, !.out = Append(@, "PROLONGED_STOP")]
    ELSE s

\* The loop of _stop_events after each sample
StopLoop(odom) ==
    LET after[i \in 0..Len(odom)] ==
            IF i = 0 THEN [stopped |-> FALSE, since |-> 0, flagged |-> FALSE, out |-> <<>>]
            ELSE StopSample(after[i - 1], odom[i])
    IN  after

StopEvents(odom) == StopLoop(odom)[Len(odom)].out

\* detect_events; what is done with the list does not depend on its order.
DetectEvents(record) ==
    IF record.odom = <<>> THEN <<"RUN_STARTED", "NO_ODOM">>
    ELSE <<"RUN_STARTED">> \o ProximityEvents(record) \o StopEvents(record.odom)
            \o <<IF record.status = "SUCCEEDED" THEN "GOAL_REACHED" ELSE "RUN_FAILED">>

-----------------------------------------------------------------------------
(***************************************************************************)
(* failure_classifier.classify                                             *)
(***************************************************************************)

Flags(row) ==
    {f \in {"EXCESSIVE_STOPS", "SOCIAL_INTRUSION"} :
        \/ f = "EXCESSIVE_STOPS"  /\ row.num_stops >= StopsFlag
        \/ f = "SOCIAL_INTRUSION" /\ row.seen > 0 /\ 2 * row.intruded >= row.seen}

Stuck(row) == row.path_length # None /\ row.path_length < StuckPath

\* _STATUS_LABEL; NO_PROGRESS is a status that nothing sets.
StatusLabel ==
    [TIMEOUT |-> "GOAL_TIMEOUT", ABORTED |-> "NAV_ABORTED", REJECTED |-> "GOAL_REJECTED",
     CANCELED |-> "GOAL_CANCELED", NO_ACTIVE |-> "STACK_NOT_ACTIVE",
     NO_PROGRESS |-> "NO_PROGRESS"]

Label(row) ==
    IF row.collision THEN "COLLISION"
    ELSE IF row.success THEN "NONE"
    ELSE IF Stuck(row) THEN "STUCK"
    ELSE IF row.status \in DOMAIN StatusLabel THEN StatusLabel[row.status]
    ELSE "INCOMPLETE"

Classify(row) == [label |-> Label(row), flags |-> Flags(row)]

-----------------------------------------------------------------------------
(***************************************************************************)
(* statistics.aggregate and failure_classifier.breakdown over a set of     *)
(* runs, each with its row                                                 *)
(***************************************************************************)

Labels == {"COLLISION", "NONE", "STUCK", "INCOMPLETE"}
              \union {StatusLabel[s] : s \in DOMAIN StatusLabel}

\* What the totals count of a row
Digest(row) == [success |-> row.success, collision |-> row.collision, label |-> Label(row)]

\* The counts behind the rates and behind the breakdown of some runs; row is the digest of
\* each.
Aggregate(row, runs) ==
    [n          |-> Cardinality(runs),
     successes  |-> Cardinality({i \in runs : row[i].success}),
     collisions |-> Cardinality({i \in runs : row[i].collision}),
     breakdown  |-> [l \in Labels |-> Cardinality({i \in runs : row[i].label = l})]]

\* by_scenario, group_by_planner: the runs of each name that has any
GroupedBy(name, row, runs) ==
    [g \in {name[i] : i \in runs} |-> Aggregate(row, {i \in runs : name[i] = g})]

-----------------------------------------------------------------------------
(***************************************************************************)
(* What the readers of a run rely on, with row and events computed apart   *)
(***************************************************************************)

Count(events, type) == Cardinality({i \in DOMAIN events : events[i] = type})

\* The stretches of consecutive numbers in a set
Stretches(S) == Cardinality({i \in S : i - 1 \notin S})

\* A stop of at least ProlongedStop that begins with sample i
ProlongedFrom(odom, i) ==
    /\ odom[i].v < StopSpeed /\ (i > 1 => odom[i - 1].v >= StopSpeed)
    /\ \E j \in (i + 1)..Len(odom) :
            /\ \A k \in i..j : odom[k].v < StopSpeed
            /\ odom[j].t - odom[i].t >= ProlongedStop

\* The collisions and the intrusions of the row and the events are those of the series.
ZonesAgree(series, row, events) ==
    LET Below(dist) == {i \in DOMAIN series : series[i] # None /\ series[i] < dist}
    IN  /\ row.collision <=> Count(events, "NEAR_COLLISION") > 0
        /\ row.intruded > 0 <=> Count(events, "SOCIAL_INTRUSION") > 0
        /\ Count(events, "NEAR_COLLISION") = Stretches(Below(CollisionDist))
        /\ Count(events, "SOCIAL_INTRUSION") = Stretches(Below(ComfortDist))

\* The stops of the row and the events are those of the odometry.
StopsAgree(odom, row, events) ==
    LET stops == Count(events, "ROBOT_STOPPED")
    IN  /\ odom # <<>> => stops = row.num_stops + (IF Head(odom).v < StopSpeed THEN 1 ELSE 0)
        /\ Count(events, "ROBOT_RESUMED") \in {stops, stops - 1}
        /\ Count(events, "PROLONGED_STOP") =
                Cardinality({i \in DOMAIN odom : ProlongedFrom(odom, i)})

Agreement(record, row, events) ==
    /\ ZonesAgree(ClearanceSeries(record), row, events)
    /\ StopsAgree(record.odom, row, events)
    /\ Label(row) = "NONE" => Count(events, "NEAR_COLLISION") = 0
=============================================================================
