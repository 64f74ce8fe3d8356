--------------------------- MODULE BenchmarkRunner ---------------------------
(***************************************************************************)
(* A benchmark campaign (runner.py): for every planner and scenario a run  *)
(* is started, the goal is sent, what happens is recorded until the        *)
(* navigation answers or the time is over, and everything about the run is *)
(* written to the results directory.  The runner can be killed at any      *)
(* moment.  Afterwards analyze.py evaluates the directory, as it does with *)
(* the recording of a real robot (bag_ingest.py).                          *)
(*                                                                         *)
(* Nav2, Gazebo and human_publisher are the environment: the stack may not *)
(* come up, may answer late or never, may abort, and the robot drives and  *)
(* stops as it likes.  Time counts while the runner spins.                 *)
(***************************************************************************)
EXTENDS BenchmarkAnalysis

CONSTANTS
    Campaigns,      \* command lines: planners, scenarios and runs; a bag or none
    Installed,      \* planners whose package is installed
    PeopleOf(_, _), \* people in a scenario at a time
    Peopled,        \* scenarios with people in them
    Speed,          \* of the robot when it drives
    Start, Goal,
    GoalTolerance,  \* of Nav2's goal checker
    AnswerWait,     \* the time the runner waits for the answer to the goal
    TimeoutOf(_)    \* timeout of a scenario

ASSUME RunnerAssumption ==
    /\ {Speed, AnswerWait, GoalTolerance} \subseteq Nat
    /\ Start \in Int /\ Goal \in Int
    /\ \A c \in Campaigns :
        /\ c.planners \in Seq(STRING) /\ c.runs \in Nat
        /\ c.scenarios \in Seq(STRING) /\ IsInjective(c.scenarios)
        /\ Len(c.bag) <= 1
        /\ \A i \in DOMAIN c.bag :
            /\ c.bag[i].odom \in Seq([t : Nat, x : Int, v : Int])
            /\ c.bag[i].humans \in Seq([t : Nat, people : SUBSET Int])

VARIABLES
    campaign,       \* the arguments of main
    phase,          \* where main and run_one are
    job,            \* number of the run, n in main
    (***********************************************************************)
    (* run_one                                                             *)
    (***********************************************************************)
    now,            \* time since the recorder was created
    since,          \* time of the last wait's begin
    record,         \* status and the streams of the recorder
    (***********************************************************************)
    (* The stack of this run: the goal as Nav2 has it, the robot           *)
    (***********************************************************************)
    stack,          \* "down", "starting", "active"
    nav,            \* "none", "sent", "running", "rejected", "succeeded", "aborted"
    robot,
    (***********************************************************************)
    (* What is left of the runs                                            *)
    (***********************************************************************)
    rows,           \* rows of main, what is counted of them
    disk,           \* the files of each run ...
    saved,          \* ... and what is counted of the row in them
    logs,           \* number of the run whose stack has written a log, 0 for none
    report,         \* what the reports of main say, or None
    analysis        \* what social-nav-analyze says, or None

runVars == <<now, since, record>>
simVars == <<stack, nav, robot>>
outVars == <<rows, disk, saved, logs, report, analysis>>
vars    == <<campaign, phase, job, runVars, simVars, outVars>>

FromBag == campaign.bag # <<>>

\* The profiles that are run; without --planner there is one, which is not named.
Profiles == IF campaign.planners = <<>> THEN <<"">> ELSE campaign.planners

\* The runs of main, in the order of its loops
Jobs ==
    IF FromBag THEN << [planner |-> "", scenario |-> "bag", run |-> 1] >>
    ELSE LET n == Len(campaign.scenarios)
             loop(i) == (i - 1) \div campaign.runs
         IN  [i \in 1..(Len(Profiles) * n * campaign.runs) |->
                [planner  |-> Profiles[(loop(i) \div n) + 1],
                 scenario |-> campaign.scenarios[(loop(i) % n) + 1],
                 run      |-> ((i - 1) % campaign.runs) + 1]]

Scenario == Jobs[job].scenario

\* Mutant: the names of the files do not begin with the planner.
FileNameNoPlanner(j) == [j EXCEPT !.planner = ""]

\* The name of the files of a run: those of a planner that is named twice are written twice.
FileName(j) == j

Key  == FileName(Jobs[job])
Keys == {FileName(Jobs[i]) : i \in DOMAIN Jobs}

\* The log of the stack; it is opened for writing, and its name says nothing of the planner.
LogName(j) == [scenario |-> j.scenario, run |-> j.run]

LogNames == {LogName(Jobs[i]) : i \in DOMAIN Jobs}

\* Mutant: the raw record is written before the row.
RecordFirst == <<"record", "row", "events", "trajectory">>

FileOrder == <<"row", "record", "events", "trajectory">>

Files == ToSet(FileOrder)

EmptyRecord == [status |-> "NO_ACTIVE", odom |-> <<>>, humans |-> <<>>]
Parked    == [x |-> Start, v |-> 0]

Init ==
    /\ campaign \in Campaigns
    /\ phase = "validate" /\ job = 0
    /\ now = 0 /\ since = 0 /\ record = EmptyRecord
    /\ stack = "down" /\ nav = "none" /\ robot = Parked
    /\ rows = <<>> /\ report = <<>> /\ analysis = <<>>
    /\ disk = [k \in Keys |-> [f \in Files |-> "absent"]]
    /\ saved = [k \in Keys |-> <<>>]
    /\ logs = [l \in LogNames |-> 0]

-----------------------------------------------------------------------------
(***************************************************************************)
(* main: before the runs                                                   *)
(***************************************************************************)

\* PL.validate; a planner that is not known or not installed ends main.
Validate ==
    /\ phase = "validate" /\ ~ FromBag
    /\ phase' = IF ToSet(campaign.planners) \subseteq Installed THEN "next" ELSE "dead"
    /\ UNCHANGED <<campaign, job, runVars, simVars, outVars>>

\* Mutant: times count from the first odometry.
FirstStampOfOdom(bag) == Head(bag.odom).t

\* _t0
FirstStamp(bag) ==
    Min({bag.odom[i].t : i \in DOMAIN bag.odom} \union {bag.humans[i].t : i \in DOMAIN bag.humans})

\* load_bag and build_record: times count from the first message; without odometry there
\* is no record.
IngestBag ==
    /\ phase = "validate" /\ FromBag
    /\ LET bag == campaign.bag[1]
           Rel(series) == [i \in DOMAIN series |-> [series[i] EXCEPT !.t = @ - FirstStamp(bag)]]
       IN  IF bag.odom = <<>> THEN phase' = "dead" /\ UNCHANGED record
           ELSE /\ phase'  = Head(FileOrder)
                /\ record' = [status |-> "UNKNOWN", odom |-> Rel(bag.odom),
                              humans |-> Rel(bag.humans)]
    /\ job' = 1
    /\ UNCHANGED <<campaign, now, since, simVars, outVars>>

-----------------------------------------------------------------------------
(***************************************************************************)
(* run_one                                                                 *)
(***************************************************************************)

\* _kill_all, and the new stack is launched, with a log of its own.
StartRun ==
    /\ phase = "next" /\ job < Len(Jobs)
    /\ job'    = job + 1
    /\ stack'  = "starting" /\ nav' = "none" /\ robot' = Parked
    /\ now'    = 0 /\ since' = 0 /\ record' = EmptyRecord
    /\ logs'   = [logs EXCEPT ![LogName(Jobs[job'])] = job']
    /\ phase'  = "launch"
    /\ UNCHANGED <<campaign, rows, disk, saved, report, analysis>>

\* "Managed nodes are active" is in the log, or 90 looks were in vain; then the action
\* server is there within 40 s, or not.
StackUp ==
    /\ phase = "launch"
    /\ \/ stack' = "active" /\ nav' = "sent" /\ phase' = "answer"
       \/ stack' = "starting" /\ nav' = nav /\ phase' = "teardown"
    /\ UNCHANGED <<campaign, job, runVars, robot, outVars>>

AnswerOverdue == now - since >= AnswerWait

\* The answer to the goal, within its time or not at all
Answered ==
    /\ phase = "answer"
    /\ \/ /\ nav \in {"running", "succeeded", "aborted"}
          /\ phase' = "drive"
          /\ since' = now /\ record' = record
       \/ /\ nav = "rejected" \/ (nav = "sent" /\ AnswerOverdue)
          /\ phase' = "teardown"
          /\ since' = since /\ record' = [record EXCEPT !.status = "REJECTED"]
    /\ UNCHANGED <<campaign, job, now, simVars, outVars>>

StatusOf == [succeeded |-> "SUCCEEDED", aborted |-> "ABORTED"]

\* rf.done()
ResultArrives ==
    /\ phase = "drive" /\ nav \in DOMAIN StatusOf
    /\ record' = [record EXCEPT !.status = StatusOf[nav]]
    /\ phase'  = "teardown"
    /\ UNCHANGED <<campaign, job, now, since, simVars, outVars>>

TimedOut ==
    /\ phase = "drive" /\ now - since >= TimeoutOf(Scenario)
    /\ record' = [record EXCEPT !.status = "TIMEOUT"]
    /\ phase'  = "teardown"
    /\ UNCHANGED <<campaign, job, now, since, simVars, outVars>>

\* The recorder is destroyed; the processes of the run are interrupted and killed, and
\* nobody cancels the goal.
Teardown ==
    /\ phase = "teardown"
    /\ stack' = "down" /\ nav' = "none" /\ robot' = Parked
    /\ now' = 0 /\ since' = 0
    /\ phase' = Head(FileOrder)
    /\ UNCHANGED <<campaign, job, record, outVars>>

(***************************************************************************)
(* The recorder's callbacks                                                *)
(***************************************************************************)
Spins == phase \in {"answer", "drive"}

Fresh(series) == series # <<>> => Last(series).t < now

Odom ==
    /\ Spins /\ Fresh(record.odom)
    /\ record' = [record EXCEPT !.odom = Append(@, [t |-> now, x |-> robot.x, v |-> robot.v])]
    /\ UNCHANGED <<campaign, phase, job, now, since, simVars, outVars>>

Humans ==
    /\ Spins /\ Fresh(record.humans) /\ Scenario \in Peopled
    /\ record' = [record EXCEPT !.humans =
                    Append(@, [t |-> now, people |-> PeopleOf(Scenario, now)])]
    /\ UNCHANGED <<campaign, phase, job, now, since, simVars, outVars>>

(***************************************************************************)
(* Nav2 and the robot                                                      *)
(***************************************************************************)
AtGoal == Distance(robot.x, Goal) <= GoalTolerance

\* Nav2 answers, at once or late, and ends what it accepted.
Navigates ==
    /\ stack = "active"
    /\ \/ nav = "sent"    /\ nav' \in {"running", "rejected"}
       \/ nav = "running" /\ nav' = IF AtGoal THEN "succeeded" ELSE "aborted"
    /\ UNCHANGED <<campaign, phase, job, runVars, stack, robot, outVars>>

\* Time passes while the runner spins; it does not spin beyond its deadline.
Tick ==
    /\ Spins /\ now - since < (IF phase = "answer" THEN AnswerWait ELSE TimeoutOf(Scenario))
    /\ now' = now + 1
    /\ \E v \in IF nav = "running" THEN {0, Speed} ELSE {0} :
            robot' = [x |-> robot.x + v, v |-> v]
    /\ UNCHANGED <<campaign, phase, job, since, record, stack, nav, outVars>>

-----------------------------------------------------------------------------
(***************************************************************************)
(* main: the files of a run, one after the other.  Each is emptied, then   *)
(* written; a file that is not whole does not parse.                       *)
(***************************************************************************)
Row == Compute(record, Goal)

\* The file after f, or what main does after the last one
After(f) ==
    LET i == CHOOSE n \in DOMAIN FileOrder : FileOrder[n] = f
    IN  IF i < Len(FileOrder) THEN FileOrder[i + 1] ELSE IF FromBag THEN "done" ELSE "next"

WriteFile ==
    /\ phase \in Files
    /\ \/ /\ disk[Key][phase] # "partial"
          /\ disk'  = [disk EXCEPT ![Key][phase] = "partial"]
          /\ saved' = IF phase = "row" THEN [saved EXCEPT ![Key] = <<>>] ELSE saved
          /\ UNCHANGED <<phase, record, rows>>
       \/ /\ disk[Key][phase] = "partial"
          /\ disk'  = [disk EXCEPT ![Key][phase] = "whole"]
          /\ saved' = IF phase = "row" THEN [saved EXCEPT ![Key] = <<Digest(Row)>>] ELSE saved
          /\ phase' = After(phase)
          /\ IF After(phase) \in {"next", "done"}
             THEN rows' = Append(rows, Digest(Row)) /\ record' = EmptyRecord
             ELSE UNCHANGED <<rows, record>>
    /\ UNCHANGED <<campaign, job, now, since, simVars, logs, report, analysis>>

(***************************************************************************)
(* main: the reports, and analyze.py                                       *)
(***************************************************************************)

\* summary.csv and report.md, comparison.csv when planners were named.  A failure of the
\* HTML report is caught.
WriteReports ==
    /\ phase = "next" /\ job = Len(Jobs)
    /\ LET Grouped(name) == GroupedBy(name, rows, DOMAIN rows)
       IN  report' = <<[scenarios  |-> Grouped([i \in DOMAIN rows |-> Jobs[i].scenario]),
                       comparison |-> IF campaign.planners = <<>> THEN <<>>
                                      ELSE Grouped([i \in DOMAIN rows |-> Jobs[i].planner])]>>
    /\ phase' = "done"
    /\ UNCHANGED <<campaign, job, runVars, simVars, rows, disk, saved, logs, analysis>>

\* Ctrl-C, or an exception: no report is written.  The stack is not torn down either;
\* what becomes of it is no concern of this campaign.
Killed ==
    /\ phase \notin {"done", "dead"}
    /\ phase' = "dead"
    /\ now' = 0 /\ since' = 0 /\ record' = EmptyRecord
    /\ stack' = "down" /\ nav' = "none" /\ robot' = Parked
    /\ UNCHANGED <<campaign, job, outVars>>

\* load_rows: files that do not parse are passed over.
Loaded == {k \in Keys : disk[k]["row"] = "whole"}

LoadedRow == [k \in Loaded |-> saved[k][1]]

\* analyze_dir: events and trajectories anew from every record, totals over the rows
Analyze ==
    /\ phase \in {"done", "dead"} /\ analysis = <<>>
    /\ disk' = [k \in Keys |-> [f \in Files |->
                 IF disk[k]["record"] = "whole" /\ f \in {"events", "trajectory"}
                 THEN "whole" ELSE disk[k][f]]]
    /\ analysis' = <<[overall     |-> Aggregate(LoadedRow, Loaded),
                     by_scenario |-> GroupedBy([k \in Loaded |-> k.scenario], LoadedRow, Loaded)]>>
    /\ UNCHANGED <<campaign, phase, job, runVars, simVars, rows, saved, logs, report>>

-----------------------------------------------------------------------------
Program ==
    \/ Validate \/ IngestBag \/ StartRun \/ StackUp \/ Answered \/ ResultArrives \/ TimedOut
    \/ Teardown \/ WriteFile \/ WriteReports

Environment == Odom \/ Humans \/ Navigates \/ Tick \/ Killed

Next == Program \/ Environment \/ Analyze

Spec == Init /\ [][Next]_vars
-----------------------------------------------------------------------------
(***************************************************************************)
(* Properties                                                              *)
(***************************************************************************)
Digests == [success : BOOLEAN, collision : BOOLEAN, label : Labels]

TypeOK ==
    /\ phase \in {"validate", "next", "launch", "answer", "drive", "teardown", "done", "dead"}
                    \union Files
    /\ job \in 0..Len(Jobs)
    /\ now \in Nat /\ since \in 0..AnswerWait
    /\ \A i \in DOMAIN record.odom : record.odom[i].t \in Nat
    /\ \A i \in DOMAIN record.humans : record.humans[i].t \in Nat
    /\ stack \in {"down", "starting", "active"}
    /\ nav \in {"none", "sent", "running", "rejected", "succeeded", "aborted"}
    /\ robot \in [x : Int, v : {0, Speed}]
    /\ rows \in Seq(Digests) /\ Len(rows) <= Len(Jobs)
    /\ disk \in [Keys -> [Files -> {"absent", "partial", "whole"}]]
    /\ DOMAIN saved = Keys /\ \A k \in Keys : saved[k] \in Seq(Digests) /\ Len(saved[k]) <= 1
    /\ logs \in [LogNames -> 0..Len(Jobs)]
    /\ Len(report) <= 1 /\ Len(analysis) <= 1

\* Row, events and label of a record are computed apart, from the same streams, at
\* different rates and with gaps: they tell the same story.
AnalysesAgree ==
    (phase = "row" /\ disk[Key]["row"] # "partial") =>
        Agreement(record, Row, DetectEvents(record))

\* A planner named once has its own files.
Distinct == FromBag \/ IsInjective(campaign.planners)

\* Whenever the campaign is killed, the four result files of every run it has finished are
\* there, with its row, and the analysis finds at most the run it was in besides; whatever
\* has a record has a row, and after the analysis its events and trajectory.  With one
\* planner every run that was started has its log as well.
NothingLost ==
    /\ Distinct => \A i \in DOMAIN rows :
            LET k == FileName(Jobs[i])
            IN  (\A f \in Files : disk[k][f] = "whole") /\ saved[k] = <<rows[i]>>
    /\ Distinct => \A k \in Keys : disk[k]["record"] # "absent" => disk[k]["row"] = "whole"
    /\ analysis # <<>> =>
            /\ Distinct => analysis[1].overall.n \in {Len(rows), Len(rows) + 1}
            /\ \A k \in Keys : disk[k]["record"] = "whole" =>
                    disk[k]["events"] = "whole" /\ disk[k]["trajectory"] = "whole"
    /\ ~ FromBag /\ Len(Profiles) = 1 => \A i \in 1..job : logs[LogName(Jobs[i])] = i

\* A campaign that ends by itself has run every planner on every scenario, as often as it
\* was asked to, and analyze.py finds in the files what the reports say: per scenario the
\* same runs, successes, collisions and labels, and over all the sum of the planners.
ReportsAgree ==
    (phase = "done" /\ ~ FromBag /\ Distinct) =>
        LET runs == Len(campaign.scenarios) * campaign.runs
        IN  /\ Len(rows) = Len(Profiles) * runs
            /\ runs > 0 => \A p \in ToSet(campaign.planners) : report[1].comparison[p].n = runs
            /\ analysis # <<>> =>
                    /\ analysis[1].by_scenario = report[1].scenarios
                    /\ analysis[1].overall = Aggregate(rows, DOMAIN rows)
=============================================================================
