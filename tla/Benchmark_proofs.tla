--------------------------- MODULE Benchmark_proofs ---------------------------
(***************************************************************************)
(* Proofs about the benchmark: a campaign of BenchmarkRunner, for every    *)
(* command line, recording, stack and robot, and the control panel         *)
(* (SimControlPanel) that campaigns are started from, for every set of     *)
(* activities.                                                             *)
(***************************************************************************)
EXTENDS BenchmarkRunner, SimControlPanel,
        FiniteSetTheorems, WellFoundedInduction, TLAPS

-----------------------------------------------------------------------------
(***************************************************************************)
(* The inductive invariant of a campaign                                   *)
(***************************************************************************)

\* run_one and its files
RunPhases == {"launch", "answer", "drive", "teardown"}

Shots == [t : Nat, x : Int, v : Int]

\* What PeopleOf and the recordings may show
Crowds == (SUBSET Int) \union {PeopleOf(s, t) : s \in Peopled, t \in Nat}

Frames == [t : Nat, people : Crowds]

Statuses == {"NO_ACTIVE", "UNKNOWN", "REJECTED", "SUCCEEDED", "ABORTED", "TIMEOUT"}

RecordOK == record \in [status : Statuses, odom : Seq(Shots), humans : Seq(Frames)]

\* How far main has come, in its loops and in its rows
Progress ==
    /\ campaign \in Campaigns
    /\ phase = "launch" => since = 0 /\ now = 0
    /\ phase = "answer" => since = 0 /\ now <= AnswerWait
    /\ phase = "validate" => job = 0 /\ rows = <<>>
    /\ phase \in {"next"} \union RunPhases => ~ FromBag
    /\ phase = "next" => Len(rows) = job
    /\ phase \in RunPhases \union Files => job \in 1..Len(Jobs) /\ Len(rows) = job - 1
    /\ phase = "dead" => Len(rows) \in {job - 1, job}
    /\ phase = "done" => Len(rows) = job /\ job = Len(Jobs)

\* The place of a file in FileOrder
Place == [row |-> 1, record |-> 2, events |-> 3, trajectory |-> 4]

\* The files of the current run, while they are written
CurrentFiles ==
    phase \in Files =>
        /\ \A f \in Files : Place[f] < Place[phase] => disk[Key][f] = "whole"
        /\ phase # "row" => saved[Key] = <<Digest(Row)>>

\* The files of the i-th run, when each has its own: whole once its row is among the rows,
\* not there before it has begun, and in between row before record.
FilesOf(i) ==
    LET k == FileName(Jobs[i])
    IN  /\ i <= Len(rows) =>
            (\A f \in Files : disk[k][f] = "whole") /\ saved[k] = <<rows[i]>>
        /\ i > Len(rows) /\ (i > Len(rows) + 1 \/ phase \in {"validate", "next"} \union RunPhases) =>
            disk[k]["row"] = "absent" /\ disk[k]["record"] = "absent"
        /\ i > Len(rows) /\ phase = "row" => disk[k]["record"] = "absent"
        /\ disk[k]["record"] # "absent" => disk[k]["row"] = "whole"

OwnFiles == Distinct => \A i \in 1..Len(Jobs) : FilesOf(i)

\* What the reports and the analysis say is what was there, and stays so.
Told ==
    /\ phase \notin {"done", "dead"} => analysis = <<>>
    /\ phase = "done" /\ ~ FromBag =>
        report = <<[scenarios  |-> GroupedBy([i \in DOMAIN rows |-> Jobs[i].scenario],
                                             rows, DOMAIN rows),
                    comparison |-> IF campaign.planners = <<>> THEN <<>>
                                   ELSE GroupedBy([i \in DOMAIN rows |-> Jobs[i].planner],
                                                  rows, DOMAIN rows)]>>
    /\ analysis # <<>> =>
        /\ analysis = <<[overall     |-> Aggregate(LoadedRow, Loaded),
                         by_scenario |-> GroupedBy([k \in Loaded |-> k.scenario],
                                                   LoadedRow, Loaded)]>>
        /\ \A k \in Keys : disk[k]["record"] = "whole" =>
                disk[k]["events"] = "whole" /\ disk[k]["trajectory"] = "whole"

\* The logs of the runs, when there is one planner
OwnLogs ==
    ~ FromBag /\ Len(Profiles) = 1 => \A i \in 1..job : logs[LogName(Jobs[i])] = i

IInv == TypeOK /\ RecordOK /\ Progress /\ CurrentFiles /\ OwnFiles /\ OwnLogs /\ Told

-----------------------------------------------------------------------------
(***************************************************************************)
(* The runs of a campaign and their files                                  *)
(***************************************************************************)

\* FileOrder, spelled out
LEMMA FileOrderIs ==
    /\ Files = {"row", "record", "events", "trajectory"}
    /\ Head(FileOrder) = "row"
BY DEF Files, FileOrder, ToSet

\* The CHOOSE in After, spelled out
LEMMA AfterIs ==
    /\ After("row") = "record" /\ After("record") = "events" /\ After("events") = "trajectory"
    /\ After("trajectory") = IF FromBag THEN "done" ELSE "next"
<1>. DEFINE i(f) == CHOOSE n \in DOMAIN FileOrder : FileOrder[n] = f
<1>1. \A n \in DOMAIN FileOrder : n \in {1, 2, 3, 4}
  BY DEF FileOrder
<1>2. i("row") = 1
  BY <1>1 DEF FileOrder
<1>3. i("record") = 2
  BY <1>1 DEF FileOrder
<1>4. i("events") = 3
  BY <1>1 DEF FileOrder
<1>5. i("trajectory") = 4
  BY <1>1 DEF FileOrder
<1>6. /\ Len(FileOrder) = 4 /\ FileOrder[2] = "record"
      /\ FileOrder[3] = "events" /\ FileOrder[4] = "trajectory"
  BY DEF FileOrder
<1>. HIDE DEF i
<1>7. \A f : After(f) = IF i(f) < Len(FileOrder) THEN FileOrder[i(f) + 1]
                        ELSE IF FromBag THEN "done" ELSE "next"
  BY DEF After, i
<1>. QED
  BY <1>2, <1>3, <1>4, <1>5, <1>6, <1>7

\* A product of natural numbers is one.
LEMMA ProductType ==
    ASSUME NEW a \in Nat, NEW b \in Nat
    PROVE  a * b \in Nat
OBVIOUS

\* The runs are numbered from 1; a bag is one run.
LEMMA JobsType ==
    ASSUME campaign \in Campaigns
    PROVE  /\ Len(Jobs) \in Nat /\ DOMAIN Jobs = 1..Len(Jobs)
           /\ Keys = {Jobs[i] : i \in 1..Len(Jobs)}
           /\ FromBag => Len(Jobs) = 1
           /\ ~ FromBag => Len(Jobs) = Len(Profiles) * Len(campaign.scenarios) * campaign.runs
<1>1. CASE FromBag
  BY <1>1 DEF Jobs, Keys, FileName
<1>2. CASE ~ FromBag
  <2>. DEFINE n == Len(Profiles) * Len(campaign.scenarios) * campaign.runs
              loop(i) == (i - 1) \div campaign.runs
              job1(i) == [planner  |-> Profiles[(loop(i) \div Len(campaign.scenarios)) + 1],
                          scenario |-> campaign.scenarios[(loop(i) % Len(campaign.scenarios)) + 1],
                          run      |-> ((i - 1) % campaign.runs) + 1]
  <2>1. Len(Profiles) \in Nat /\ Len(campaign.scenarios) \in Nat /\ campaign.runs \in Nat
    BY RunnerAssumption DEF Profiles
  <2>2. n \in Nat
    BY <2>1, ProductType
  <2>3. Jobs = [i \in 1..n |-> job1(i)]
    BY <1>2 DEF Jobs
  <2>. HIDE DEF n, job1
  <2>4. Len(Jobs) = n /\ DOMAIN Jobs = 1..n
    BY <2>2, <2>3
  <2>. QED
    BY <1>2, <2>2, <2>4 DEF Keys, FileName, n
<1>. QED
  BY <1>1, <1>2

\* The campaign is the same all along, and with it what is derived from it.
LEMMA SameCampaign ==
    ASSUME campaign' = campaign
    PROVE  /\ Jobs' = Jobs /\ Keys' = Keys /\ FromBag' = FromBag
           /\ Distinct' = Distinct /\ Profiles' = Profiles /\ LogNames' = LogNames
<1>1. FromBag' = FromBag /\ Profiles' = Profiles
  BY DEF FromBag, Profiles
<1>2. Jobs' = Jobs
  BY <1>1 DEF Jobs
<1>. QED
  BY <1>1, <1>2 DEF Keys, Distinct, LogNames

-----------------------------------------------------------------------------
(***************************************************************************)
(* Types and progress                                                      *)
(***************************************************************************)

\* What is known of a sequence and its elements
LEMMA SequenceIs ==
    ASSUME NEW S, NEW s \in Seq(S)
    PROVE  /\ Len(s) \in Nat /\ DOMAIN s = 1..Len(s)
           /\ \A i \in DOMAIN s : s[i] \in S
OBVIOUS

\* A sequence of one element
LEMMA OneElement == ASSUME NEW x PROVE Len(<<x>>) = 1 /\ DOMAIN <<x>> = 1..1
OBVIOUS

\* What has the indices of a sequence is a sequence.
LEMMA IsSequence ==
    ASSUME NEW S, NEW n \in Nat, NEW f, f = [i \in 1..n |-> f[i]], \A i \in 1..n : f[i] \in S
    PROVE  f \in Seq(S)
<1>1. f \in [1..n -> S]
  OBVIOUS
<1>. QED
  BY <1>1

\* A set of numbers that is not empty has a least one.
LEMMA LeastOf ==
    ASSUME NEW S, S \subseteq Nat, S # {}
    PROVE  Min(S) \in S /\ \A y \in S : Min(S) <= y
<1>1. PICK x \in S : \A y \in S : ~ (<<y, x>> \in OpToRel(<, Nat))
  BY NatLessThanWellFounded, WFMin, Zenon
<1>2. \A a, b \in Nat : <<b, a>> \in OpToRel(<, Nat) <=> b < a
  BY DEF OpToRel
<1>3. \A y \in S : x \in Nat /\ y \in Nat /\ ~ (y < x)
  BY <1>1, <1>2
<1>4. \A y \in S : x <= y
  BY <1>3
<1>. QED
  BY <1>4 DEF Min

\* What is counted of a row is of its type, whatever the record.
LEMMA DigestType == Digest(Row) \in Digests
<1>1. \A d : Collision(d) \in BOOLEAN
  BY DEF Collision
<1>2. \A o : Reached(o, Goal) \in BOOLEAN
  BY DEF Reached
<1>3. Row.success \in BOOLEAN /\ Row.collision \in BOOLEAN
  BY <1>1, <1>2 DEF Row, Compute
<1>4. \A row : Label(row) \in Labels
  BY DEF Label, Labels
<1>. QED
  BY <1>3, <1>4 DEF Digest, Digests

\* The odometry and the frames of a recording, with the times they get, are those of a record.
LEMMA IngestType ==
    ASSUME Progress, FromBag, IngestBag, campaign.bag[1].odom # <<>>
    PROVE  RecordOK'
<1>. DEFINE bag == campaign.bag[1]
            stamps == {bag.odom[i].t : i \in DOMAIN bag.odom}
                        \union {bag.humans[i].t : i \in DOMAIN bag.humans}
            t0 == FirstStamp(bag)
<1>1. 1 \in DOMAIN campaign.bag
  BY RunnerAssumption DEF Progress, FromBag
<1>2. bag.odom \in Seq(Shots) /\ bag.humans \in Seq([t : Nat, people : SUBSET Int])
  BY <1>1, RunnerAssumption DEF Progress, Shots
<1>. HIDE DEF bag
<1>0. /\ Len(bag.odom) \in Nat /\ DOMAIN bag.odom = 1..Len(bag.odom)
      /\ Len(bag.humans) \in Nat /\ DOMAIN bag.humans = 1..Len(bag.humans)
      /\ \A i \in DOMAIN bag.odom : bag.odom[i] \in Shots
      /\ \A i \in DOMAIN bag.humans : bag.humans[i] \in [t : Nat, people : SUBSET Int]
  BY <1>2, SequenceIs
<1>3. stamps \subseteq Nat /\ stamps # {}
  <2>1. bag.odom # <<>>
    BY DEF bag
  <2>2. 1 \in DOMAIN bag.odom
    BY <1>2, <2>1
  <2>3. /\ \A i \in DOMAIN bag.odom : bag.odom[i].t \in Nat /\ bag.odom[i].t \in stamps
        /\ \A i \in DOMAIN bag.humans : bag.humans[i].t \in Nat /\ bag.humans[i].t \in stamps
    BY <1>0 DEF Shots
  <2>4. stamps \subseteq Nat
    BY <2>3
  <2>. QED
    BY <2>2, <2>3, <2>4
<1>4. t0 \in Nat /\ \A t \in stamps : t0 <= t
  BY <1>3, LeastOf DEF FirstStamp
<1>. HIDE DEF t0
<1>10. /\ \A i \in DOMAIN bag.odom : bag.odom[i].t - t0 \in Nat
      /\ \A i \in DOMAIN bag.humans : bag.humans[i].t - t0 \in Nat
  <2>1. /\ \A i \in DOMAIN bag.odom : bag.odom[i].t \in stamps
        /\ \A i \in DOMAIN bag.humans : bag.humans[i].t \in stamps
    OBVIOUS
  <2>. HIDE DEF stamps
  <2>2. \A t \in stamps : t - t0 \in Nat
    BY <1>3, <1>4
  <2>. QED
    BY <2>1, <2>2
<1>5. /\ record'.odom = [i \in DOMAIN bag.odom |-> [bag.odom[i] EXCEPT !.t = @ - t0]]
      /\ record'.humans = [i \in DOMAIN bag.humans |-> [bag.humans[i] EXCEPT !.t = @ - t0]]
  BY DEF IngestBag, bag, t0
<1>6. \A i \in DOMAIN bag.odom : [bag.odom[i] EXCEPT !.t = @ - t0] \in Shots
  <2>. SUFFICES ASSUME NEW i \in DOMAIN bag.odom
                PROVE  [bag.odom[i] EXCEPT !.t = @ - t0] \in Shots
    OBVIOUS
  <2>1. bag.odom[i] \in Shots /\ bag.odom[i].t - t0 \in Nat
    BY <1>0, <1>10
  <2>. QED
    BY <2>1 DEF Shots
<1>7. \A i \in DOMAIN bag.humans : [bag.humans[i] EXCEPT !.t = @ - t0] \in Frames
  <2>. SUFFICES ASSUME NEW i \in DOMAIN bag.humans
                PROVE  [bag.humans[i] EXCEPT !.t = @ - t0] \in Frames
    OBVIOUS
  <2>1. bag.humans[i] \in [t : Nat, people : SUBSET Int] /\ bag.humans[i].t - t0 \in Nat
    BY <1>0, <1>10
  <2>2. SUBSET Int \subseteq Crowds
    BY DEF Crowds
  <2>. QED
    BY <2>1, <2>2 DEF Frames
<1>8. record'.odom \in Seq(Shots)
  <2>1. \A i \in 1..Len(bag.odom) : record'.odom[i] \in Shots
    BY <1>0, <1>5, <1>6
  <2>. QED
    BY <1>0, <1>5, <2>1, IsSequence
<1>9. record'.humans \in Seq(Frames)
  <2>1. \A i \in 1..Len(bag.humans) : record'.humans[i] \in Frames
    BY <1>0, <1>5, <1>7
  <2>. QED
    BY <1>0, <1>5, <2>1, IsSequence
<1>11. record' = [status |-> "UNKNOWN", odom |-> record'.odom, humans |-> record'.humans]
  BY DEF IngestBag
<1>12. "UNKNOWN" \in Statuses
  BY DEF Statuses
<1>. QED
  BY <1>8, <1>9, <1>11, <1>12 DEF RecordOK

\* TypeOK in parts: main and the stack, and what is written
Control ==
    /\ phase \in {"validate", "next", "launch", "answer", "drive", "teardown", "done", "dead"}
                    \union Files
    /\ job \in 0..Len(Jobs)
    /\ now \in Nat /\ since \in 0..AnswerWait
    /\ stack \in {"down", "starting", "active"}
    /\ nav \in {"none", "sent", "running", "rejected", "succeeded", "aborted"}
    /\ robot \in [x : Int, v : {0, Speed}]

Outputs ==
    /\ rows \in Seq(Digests) /\ Len(rows) <= Len(Jobs)
    /\ disk \in [Keys -> [Files -> {"absent", "partial", "whole"}]]
    /\ DOMAIN saved = Keys /\ \A k \in Keys : saved[k] \in Seq(Digests) /\ Len(saved[k]) <= 1
    /\ logs \in [LogNames -> 0..Len(Jobs)]
    /\ Len(report) <= 1 /\ Len(analysis) <= 1

\* The parts make TypeOK.
LEMMA TypeParts ==
    /\ TypeOK => Control /\ Outputs
    /\ RecordOK /\ Control /\ Outputs => TypeOK
<1>1. TypeOK => Control /\ Outputs
  BY DEF TypeOK, Control, Outputs
<1>2. ASSUME RecordOK, Control, Outputs
      PROVE  TypeOK
  <2>0. record.odom \in Seq(Shots) /\ record.humans \in Seq(Frames)
    BY <1>2 DEF RecordOK
  <2>1. \A i \in DOMAIN record.odom : record.odom[i] \in Shots
    BY <2>0, SequenceIs
  <2>2. \A i \in DOMAIN record.humans : record.humans[i] \in Frames
    BY <2>0, SequenceIs
  <2>3. /\ \A i \in DOMAIN record.odom : record.odom[i].t \in Nat
        /\ \A i \in DOMAIN record.humans : record.humans[i].t \in Nat
    BY <2>1, <2>2 DEF Shots, Frames
  <2>. QED
    BY <1>2, <2>3 DEF TypeOK, Control, Outputs
<1>. QED
  BY <1>1, <1>2

\* A record stays one when its status changes, when it is emptied, and when something is
\* appended to one of its streams.
LEMMA RecordKept ==
    ASSUME RecordOK
    PROVE  /\ record' = record => RecordOK'
           /\ \A st \in Statuses : record' = [record EXCEPT !.status = st] => RecordOK'
           /\ record' = EmptyRecord => RecordOK'
           /\ \A shot \in Shots :
                record' = [record EXCEPT !.odom = Append(@, shot)] => RecordOK'
           /\ \A frame \in Frames :
                record' = [record EXCEPT !.humans = Append(@, frame)] => RecordOK'
<1>1. record' = record => RecordOK'
  BY DEF RecordOK
<1>2. ASSUME NEW st \in Statuses, record' = [record EXCEPT !.status = st]
      PROVE  RecordOK'
  BY <1>2 DEF RecordOK
<1>3. ASSUME record' = EmptyRecord
      PROVE  RecordOK'
  <2>1. "NO_ACTIVE" \in Statuses /\ <<>> \in Seq(Shots) /\ <<>> \in Seq(Frames)
    BY DEF Statuses
  <2>2. record' = [status |-> "NO_ACTIVE", odom |-> <<>>, humans |-> <<>>]
    BY <1>3 DEF EmptyRecord
  <2>. QED
    BY <2>1, <2>2 DEF RecordOK
<1>4. ASSUME NEW shot \in Shots, record' = [record EXCEPT !.odom = Append(@, shot)]
      PROVE  RecordOK'
  <2>1. record \in [status : Statuses, odom : Seq(Shots), humans : Seq(Frames)]
    BY DEF RecordOK
  <2>2. Append(record.odom, shot) \in Seq(Shots)
    BY <2>1
  <2>3. record' = [record EXCEPT !.odom = Append(record.odom, shot)]
    BY <1>4
  <2>. QED
    BY <2>1, <2>2, <2>3 DEF RecordOK
<1>5. ASSUME NEW frame \in Frames,
             record' = [record EXCEPT !.humans = Append(@, frame)]
      PROVE  RecordOK'
  <2>1. record \in [status : Statuses, odom : Seq(Shots), humans : Seq(Frames)]
    BY DEF RecordOK
  <2>2. Append(record.humans, frame) \in Seq(Frames)
    BY <2>1
  <2>3. record' = [record EXCEPT !.humans = Append(record.humans, frame)]
    BY <1>5
  <2>. QED
    BY <2>1, <2>2, <2>3 DEF RecordOK
<1>. QED
  BY <1>1, <1>2, <1>3, <1>4, <1>5

\* The steps of run_one, of its stack and of a kill touch neither the disk nor the rows; they
\* keep the types and the progress.
LEMMA ProgramType ==
    ASSUME TypeOK, RecordOK, Progress, Program \/ Environment, ~ WriteFile
    PROVE  TypeOK' /\ RecordOK' /\ Progress'
<1>. campaign' = campaign
  BY DEF Program, Environment, Validate, IngestBag, StartRun, StackUp, Answered, ResultArrives,
         TimedOut, Teardown, WriteReports, Odom, Humans, Navigates, Tick, Killed
<1>. Jobs' = Jobs /\ Keys' = Keys /\ FromBag' = FromBag
  BY SameCampaign
<1>. /\ Len(Jobs) \in Nat /\ DOMAIN Jobs = 1..Len(Jobs)
     /\ FromBag => Len(Jobs) = 1
  BY JobsType DEF Progress
<1>. AnswerWait \in Nat /\ Speed \in Nat /\ Start \in Int
  BY RunnerAssumption
<1>. /\ Files = {"row", "record", "events", "trajectory"} /\ Head(FileOrder) = "row"
  BY FileOrderIs
<1>. /\ RecordOK /\ Progress /\ Control /\ Outputs
  BY TypeParts
<1>. USE DEF runVars, simVars, outVars, RunPhases
<1>0. SUFFICES RecordOK' /\ Control' /\ Outputs' /\ Progress'
  BY TypeParts, PTL
<1>16. LogNames' = LogNames
  BY SameCampaign
<1>15. ASSUME UNCHANGED outVars
        PROVE  Outputs' /\ rows' = rows
  BY <1>16, <1>15 DEF Outputs
<1>1. CASE Validate
  <2>. Outputs' /\ rows' = rows
    BY <1>1, <1>15 DEF Validate
  <2>1. RecordOK'
    BY <1>1, RecordKept DEF Validate
  <2>. QED
    BY <1>1, <2>1 DEF Validate, Control, Progress
<1>2. CASE IngestBag
  <2>. Outputs' /\ rows' = rows
    BY <1>2, <1>15 DEF IngestBag
  <2>1. RecordOK'
    BY <1>2, IngestType, RecordKept DEF IngestBag
  <2>. QED
    BY <1>2, <2>1 DEF IngestBag, Control, Progress
<1>3. CASE StartRun
  <2>2. job' \in DOMAIN Jobs
    BY <1>3 DEF StartRun, Control
  <2>3. LogName(Jobs[job']) \in LogNames
    BY <2>2 DEF LogNames
  <2>4. logs' \in [LogNames -> 0..Len(Jobs)]
    BY <1>3, <2>2, <2>3 DEF StartRun, Outputs
  <2>. Outputs' /\ rows' = rows
    BY <1>3, <1>16, <2>4 DEF StartRun, Outputs
  <2>1. RecordOK'
    BY <1>3, RecordKept DEF StartRun
  <2>. QED
    BY <1>3, <2>1 DEF StartRun, Control, Progress, Parked
<1>4. CASE StackUp
  <2>. Outputs' /\ rows' = rows
    BY <1>4, <1>15 DEF StackUp
  <2>1. RecordOK'
    BY <1>4, RecordKept DEF StackUp
  <2>2. Control'
    BY <1>4 DEF StackUp, Control, Progress
  <2>3. Progress'
    <3>1. /\ phase = "launch" /\ phase' \in {"answer", "teardown"}
          /\ UNCHANGED <<job, now, since>>
      BY <1>4 DEF StackUp
    <3>2. job \in 1..Len(Jobs) /\ Len(rows) = job - 1 /\ ~ FromBag /\ since = 0 /\ now = 0
      BY <3>1 DEF Progress
    <3>3. since' = 0 /\ now' = 0 /\ job' = job /\ 0 <= AnswerWait
      BY <3>1, <3>2
    <3>4. CASE phase' = "answer"
      BY <3>2, <3>3, <3>4 DEF Progress
    <3>5. CASE phase' = "teardown"
      BY <3>2, <3>3, <3>5 DEF Progress
    <3>. QED
      BY <3>1, <3>4, <3>5
  <2>. QED
    BY <2>1, <2>2, <2>3
<1>5. CASE Answered
  <2>. Outputs' /\ rows' = rows
    BY <1>5, <1>15 DEF Answered
  <2>1. RecordOK'
    BY <1>5, RecordKept DEF Answered, Statuses
  <2>. QED
    BY <1>5, <2>1 DEF Answered, Control, Progress
<1>6. CASE ResultArrives
  <2>. Outputs' /\ rows' = rows
    BY <1>6, <1>15 DEF ResultArrives
  <2>1. StatusOf[nav] \in Statuses
    BY <1>6 DEF ResultArrives, StatusOf, Statuses
  <2>2. RecordOK'
    BY <1>6, <2>1, RecordKept DEF ResultArrives
  <2>. QED
    BY <1>6, <2>2 DEF ResultArrives, Control, Progress
<1>7. CASE TimedOut
  <2>. Outputs' /\ rows' = rows
    BY <1>7, <1>15 DEF TimedOut
  <2>1. RecordOK'
    BY <1>7, RecordKept DEF TimedOut, Statuses
  <2>. QED
    BY <1>7, <2>1 DEF TimedOut, Control, Progress
<1>8. CASE Teardown
  <2>. Outputs' /\ rows' = rows
    BY <1>8, <1>15 DEF Teardown
  <2>1. RecordOK'
    BY <1>8, RecordKept DEF Teardown
  <2>2. Control'
    BY <1>8 DEF Teardown, Control, Progress, Parked
  <2>3. Progress'
    BY <1>8 DEF Teardown, Control, Progress
  <2>. QED
    BY <2>1, <2>2, <2>3
<1>9. CASE WriteReports
  <2>1. RecordOK'
    BY <1>9, RecordKept DEF WriteReports
  <2>2. Len(report') = 1
    BY <1>9 DEF WriteReports
  <2>3. /\ phase = "next" /\ phase' = "done" /\ job = Len(Jobs)
        /\ UNCHANGED <<job, now, since, simVars, rows, disk, saved, logs, analysis>>
    BY <1>9 DEF WriteReports
  <2>. QED
    BY <1>16, <2>1, <2>2, <2>3 DEF Control, Outputs, Progress
<1>10. CASE Odom
  <2>. Outputs' /\ rows' = rows
    BY <1>10, <1>15 DEF Odom
  <2>1. [t |-> now, x |-> robot.x, v |-> robot.v] \in Shots
    BY DEF Control, Shots
  <2>2. RecordOK'
    BY <1>10, <2>1, RecordKept DEF Odom
  <2>. QED
    BY <1>10, <2>2 DEF Odom, Control, Progress
<1>11. CASE Humans
  <2>. Outputs' /\ rows' = rows
    BY <1>11, <1>15 DEF Humans
  <2>1. [t |-> now, people |-> PeopleOf(Scenario, now)] \in Frames
    <3>1. PeopleOf(Scenario, now) \in Crowds
      <4>1. Scenario \in Peopled /\ now \in Nat
        BY <1>11 DEF Humans, Control
      <4>2. PeopleOf(Scenario, now) \in {PeopleOf(s, t) : s \in Peopled, t \in Nat}
        BY <4>1
      <4>. QED
        BY <4>2 DEF Crowds
    <3>. QED
      BY <3>1 DEF Control, Frames
  <2>2. RecordOK'
    BY <1>11, <2>1, RecordKept DEF Humans
  <2>. QED
    BY <1>11, <2>2 DEF Humans, Control, Progress
<1>12. CASE Navigates
  <2>. Outputs' /\ rows' = rows
    BY <1>12, <1>15 DEF Navigates
  <2>1. RecordOK'
    BY <1>12, RecordKept DEF Navigates
  <2>. QED
    BY <1>12, <2>1 DEF Navigates, Control, Progress
<1>13. CASE Tick
  <2>. Outputs' /\ rows' = rows
    BY <1>13, <1>15 DEF Tick
  <2>1. RecordOK'
    BY <1>13, RecordKept DEF Tick
  <2>2. now' = now + 1 /\ (phase = "answer" => now - since < AnswerWait)
    BY <1>13 DEF Tick
  <2>3. robot' \in [x : Int, v : {0, Speed}]
    BY <1>13 DEF Tick, Control
  <2>4. UNCHANGED <<phase, job, since, stack, nav, outVars>>
    BY <1>13 DEF Tick
  <2>5. Control'
    BY <2>2, <2>3, <2>4 DEF Control
  <2>6. Progress'
    <3>1. phase \in {"answer", "drive"}
      BY <1>13 DEF Tick, Spins
    <3>2. job \in 1..Len(Jobs) /\ Len(rows) = job - 1 /\ ~ FromBag
      BY <3>1 DEF Progress
    <3>3. phase' = phase /\ job' = job /\ since' = since
      BY <2>4
    <3>4. phase = "answer" => since' = 0 /\ now' <= AnswerWait
      BY <2>2, <3>3 DEF Progress, Control
    <3>. QED
      BY <3>1, <3>2, <3>3, <3>4 DEF Progress
  <2>. QED
    BY <2>1, <2>5, <2>6
<1>14. CASE Killed
  <2>. Outputs' /\ rows' = rows
    BY <1>14, <1>15 DEF Killed
  <2>1. RecordOK'
    BY <1>14, RecordKept DEF Killed
  <2>4. /\ phase \notin {"done", "dead"} /\ phase' = "dead" /\ job' = job /\ now' = 0 /\ since' = 0
        /\ stack' = "down" /\ nav' = "none" /\ robot' = [x |-> Start, v |-> 0]
    BY <1>14 DEF Killed, Parked
  <2>2. Control'
    BY <2>4 DEF Control
  <2>3. Progress'
    <3>1. Len(rows) \in {job - 1, job}
      BY <2>4 DEF Control, Progress
    <3>. QED
      BY <2>4, <3>1 DEF Progress
  <2>. QED
    BY <2>1, <2>2, <2>3
<1>. QED
  BY <1>1, <1>2, <1>3, <1>4, <1>5, <1>6, <1>7, <1>8, <1>9, <1>10, <1>11, <1>12, <1>13, <1>14
     DEF Program, Environment

\* The files of the current run are files of the campaign.
LEMMA KeyType ==
    ASSUME Progress, phase \in Files
    PROVE  Key \in Keys /\ Key = Jobs[job] /\ job \in 1..Len(Jobs)
<1>1. job \in 1..Len(Jobs)
  BY DEF Progress
<1>. QED
  BY <1>1, JobsType DEF Progress, Key, FileName

\* What the two steps of a file do: it is emptied, and it is written.
Emptied ==
    /\ disk[Key][phase] # "partial"
    /\ disk'  = [disk EXCEPT ![Key][phase] = "partial"]
    /\ saved' = IF phase = "row" THEN [saved EXCEPT ![Key] = <<>>] ELSE saved
    /\ UNCHANGED <<phase, record, rows>>

Written ==
    /\ disk[Key][phase] = "partial"
    /\ disk'  = [disk EXCEPT ![Key][phase] = "whole"]
    /\ saved' = IF phase = "row" THEN [saved EXCEPT ![Key] = <<Digest(Row)>>] ELSE saved
    /\ phase' = After(phase)
    /\ \/ phase # "trajectory" /\ UNCHANGED <<rows, record>>
       \/ phase = "trajectory" /\ rows' = Append(rows, Digest(Row)) /\ record' = EmptyRecord

LEMMA WriteFileIs ==
    ASSUME WriteFile
    PROVE  /\ phase \in Files /\ (Emptied \/ Written)
           /\ UNCHANGED <<campaign, job, now, since, simVars, logs, report, analysis>>
<1>1. phase \in {"row", "record", "events", "trajectory"}
  BY FileOrderIs DEF WriteFile
<1>2. After(phase) \in {"next", "done"} <=> phase = "trajectory"
  BY <1>1, AfterIs
<1>. QED
  BY <1>1, <1>2 DEF WriteFile, Emptied, Written

\* Writing a file keeps the types and the progress.
LEMMA WriteFileType ==
    ASSUME TypeOK, RecordOK, Progress, WriteFile
    PROVE  TypeOK' /\ RecordOK' /\ Progress'
<1>. /\ phase \in Files /\ campaign' = campaign /\ (Emptied \/ Written)
     /\ UNCHANGED <<job, now, since, stack, nav, robot, logs, report, analysis>>
  BY WriteFileIs DEF simVars
<1>. Jobs' = Jobs /\ Keys' = Keys /\ FromBag' = FromBag /\ LogNames' = LogNames
  BY SameCampaign
<1>. /\ Len(Jobs) \in Nat /\ (FromBag => Len(Jobs) = 1)
     /\ Key \in Keys /\ job \in 1..Len(Jobs) /\ Len(rows) = job - 1
  BY JobsType, KeyType DEF Progress
<1>. Files = {"row", "record", "events", "trajectory"}
  BY FileOrderIs
<1>. RecordOK /\ Progress /\ Control /\ Outputs
  BY TypeParts
<1>. Digest(Row) \in Digests
  BY DigestType
<1>0. SUFFICES RecordOK' /\ Control' /\ Outputs' /\ Progress'
  BY TypeParts, PTL
<1>1. RecordOK'
  BY RecordKept DEF Emptied, Written
<1>2. rows' = rows \/ (rows' = Append(rows, Digest(Row)) /\ phase = "trajectory")
  BY DEF Emptied, Written
<1>3. rows' \in Seq(Digests) /\ Len(rows') <= Len(Jobs)
  <2>. rows \in Seq(Digests)
    BY DEF Outputs
  <2>1. CASE rows' = rows
    BY <2>1
  <2>2. CASE rows' = Append(rows, Digest(Row))
    <3>1. rows' \in Seq(Digests) /\ Len(rows') = Len(rows) + 1
      BY <2>2
    <3>. QED
      BY <3>1
  <2>. QED
    BY <1>2, <2>1, <2>2
<1>4. disk' \in [Keys -> [Files -> {"absent", "partial", "whole"}]]
  <2>1. PICK state \in {"absent", "partial", "whole"} :
            disk' = [disk EXCEPT ![Key] = [disk[Key] EXCEPT ![phase] = state]]
    BY DEF Emptied, Written
  <2>2. disk \in [Keys -> [Files -> {"absent", "partial", "whole"}]]
    BY DEF Outputs
  <2>3. [disk[Key] EXCEPT ![phase] = state] \in [Files -> {"absent", "partial", "whole"}]
    BY <2>2
  <2>. QED
    BY <2>1, <2>2, <2>3
<1>5. DOMAIN saved' = Keys /\ \A k \in Keys : saved'[k] \in Seq(Digests) /\ Len(saved'[k]) <= 1
  <2>1. \E s \in Seq(Digests) : Len(s) <= 1 /\ saved' \in {[saved EXCEPT ![Key] = s], saved}
    <3>1. <<>> \in Seq(Digests) /\ Len(<<>>) <= 1
      OBVIOUS
    <3>2. <<Digest(Row)>> \in Seq(Digests) /\ Len(<<Digest(Row)>>) <= 1
      OBVIOUS
    <3>. QED
      BY <3>1, <3>2 DEF Emptied, Written
  <2>. QED
    BY <2>1 DEF Outputs
<1>6. Outputs'
  BY <1>3, <1>4, <1>5 DEF Outputs
<1>7. CASE Emptied
  <2>1. phase' = phase /\ rows' = rows
    BY <1>7 DEF Emptied
  <2>. QED
    BY <1>1, <1>6, <2>1 DEF Control, Progress
<1>8. CASE Written /\ phase # "trajectory"
  <2>1. phase' \in {"record", "events", "trajectory"} /\ rows' = rows
    BY <1>8, AfterIs DEF Written
  <2>2. Control'
    BY <2>1 DEF Control
  <2>3. Progress'
    BY <2>1 DEF Progress, RunPhases
  <2>. QED
    BY <1>1, <1>6, <2>2, <2>3
<1>9. CASE Written /\ phase = "trajectory"
  <2>1. phase' = IF FromBag THEN "done" ELSE "next"
    BY <1>9, AfterIs DEF Written
  <2>2. Len(rows') = job
    BY <1>9 DEF Written, Outputs
  <2>3. CASE FromBag
    <3>1. phase' = "done" /\ job = Len(Jobs)
      <4>1. phase' = "done"
        BY <2>1, <2>3, Zenon
      <4>2. Len(Jobs) = 1 /\ job \in 1..Len(Jobs)
        BY <2>3, Zenon
      <4>3. job = Len(Jobs)
        BY <4>2
      <4>. QED
        BY <4>1, <4>3, Zenon
    <3>2. Control'
      BY <3>1 DEF Control
    <3>3. Progress'
      BY <2>2, <3>1 DEF Progress, RunPhases
    <3>. QED
      BY <1>1, <1>6, <3>2, <3>3
  <2>4. CASE ~ FromBag
    <3>1. phase' = "next"
      BY <2>1, <2>4
    <3>2. Control'
      BY <3>1 DEF Control
    <3>3. Progress'
      BY <2>2, <2>4, <3>1 DEF Progress, RunPhases
    <3>. QED
      BY <1>1, <1>6, <3>2, <3>3
  <2>. QED
    BY <2>3, <2>4
<1>. QED
  BY <1>7, <1>8, <1>9

\* analyze.py writes the missing files and its totals, and nothing else.
LEMMA AnalyzeType ==
    ASSUME TypeOK, RecordOK, Progress, Analyze
    PROVE  TypeOK' /\ RecordOK' /\ Progress'
<1>. UNCHANGED <<campaign, phase, job, now, since, record, stack, nav, robot, rows, saved, logs,
                 report>>
  BY DEF Analyze, runVars, simVars
<1>. Jobs' = Jobs /\ Keys' = Keys /\ FromBag' = FromBag /\ LogNames' = LogNames
  BY SameCampaign
<1>. RecordOK /\ Progress /\ Control /\ Outputs
  BY TypeParts
<1>1. RecordOK' /\ Control' /\ Progress'
  BY RecordKept DEF Control, Progress
<1>2. disk' \in [Keys -> [Files -> {"absent", "partial", "whole"}]]
  <2>1. disk' = [k \in Keys |-> [f \in Files |->
                  IF disk[k]["record"] = "whole" /\ f \in {"events", "trajectory"}
                  THEN "whole" ELSE disk[k][f]]]
    BY DEF Analyze
  <2>2. \A k \in Keys, f \in Files : disk[k][f] \in {"absent", "partial", "whole"}
    BY DEF Outputs
  <2>. QED
    BY <2>1, <2>2
<1>3. Len(analysis') = 1
  BY DEF Analyze
<1>4. Outputs'
  BY <1>2, <1>3 DEF Outputs
<1>. QED
  BY <1>1, <1>4, TypeParts, PTL

\* A campaign begins with no file and no run done.
LEMMA TypeInit == Init => TypeOK /\ RecordOK /\ Progress
<1>. SUFFICES ASSUME Init
              PROVE  TypeOK /\ RecordOK /\ Progress
  OBVIOUS
<1>. AnswerWait \in Nat /\ Speed \in Nat /\ Start \in Int
  BY RunnerAssumption
<1>1. Len(Jobs) \in Nat
  BY JobsType DEF Init
<1>2. RecordOK
  BY DEF Init, EmptyRecord, RecordOK, Statuses
<1>3. Control
  BY <1>1 DEF Init, Control, Parked
<1>4. Outputs
  BY <1>1 DEF Init, Outputs
<1>5. Progress
  BY FileOrderIs DEF Init, Progress, RunPhases
<1>. QED
  BY <1>2, <1>3, <1>4, <1>5, TypeParts

\* Every step keeps the types and the progress.
LEMMA TypeStep ==
    TypeOK /\ RecordOK /\ Progress /\ [Next]_vars => TypeOK' /\ RecordOK' /\ Progress'
<1>. SUFFICES ASSUME TypeOK, RecordOK, Progress, [Next]_vars
              PROVE  TypeOK' /\ RecordOK' /\ Progress'
  OBVIOUS
<1>1. CASE UNCHANGED vars
  <2>1. campaign' = campaign /\ RecordOK'
    BY <1>1, RecordKept DEF vars, runVars
  <2>2. Jobs' = Jobs /\ Keys' = Keys /\ FromBag' = FromBag /\ LogNames' = LogNames
    BY <2>1, SameCampaign
  <2>. QED
    BY <1>1, <2>1, <2>2 DEF vars, runVars, simVars, outVars, TypeOK, Progress
<1>2. CASE WriteFile
  BY <1>2, WriteFileType
<1>3. CASE Analyze
  BY <1>3, AnalyzeType
<1>4. CASE (Program \/ Environment) /\ ~ WriteFile
  BY <1>4, ProgramType
<1>. QED
  BY <1>1, <1>2, <1>3, <1>4 DEF Next

\* Whatever the command line or the recording, whatever the stack and the robot do and
\* whenever the runner is killed: every state of a campaign is of the types that TypeOK
\* says, with times that are counted from the first message and an answer awaited no
\* longer than AnswerWait.
THEOREM TypeCorrect == Spec => []TypeOK
BY TypeInit, TypeStep, PTL DEF Spec

-----------------------------------------------------------------------------
(***************************************************************************)
(* Each run has its own files                                              *)
(***************************************************************************)

\* Division with remainder
LEMMA DivMod ==
    ASSUME NEW a \in Nat, NEW d \in Nat \ {0}
    PROVE  /\ a \div d \in Nat /\ a % d \in 0..(d - 1)
           /\ a = d * (a \div d) + (a % d)
OBVIOUS

\* A quotient is below k when the dividend is below k times the divisor, and only then.
LEMMA QuotientBelow ==
    ASSUME NEW a \in Nat, NEW d \in Nat \ {0}, NEW k \in Nat
    PROVE  a \div d < k <=> a < k * d
<1>. DEFINE q == a \div d
            r == a % d
<1>1. q \in Nat /\ r \in 0..(d - 1) /\ a = d * q + r
  BY DivMod
<1>. HIDE DEF q, r
<1>2. ASSUME q < k
      PROVE  a < k * d
  <2>1. q + 1 <= k
    BY <1>1, <1>2
  <2>2. (q + 1) * d <= k * d
    BY <1>1, <2>1
  <2>3. (q + 1) * d = d * q + d
    BY <1>1
  <2>4. d * q \in Nat /\ k * d \in Nat
    BY <1>1, ProductType
  <2>. QED
    BY <1>1, <2>2, <2>3, <2>4
<1>3. ASSUME ~ (q < k)
      PROVE  ~ (a < k * d)
  <2>1. k * d <= q * d
    BY <1>1, <1>3
  <2>2. q * d = d * q /\ d * q \in Nat /\ k * d \in Nat
    BY <1>1, ProductType
  <2>. QED
    BY <1>1, <2>1, <2>2
<1>. QED
  BY <1>2, <1>3 DEF q

\* The loops of main: how often they run, and where they are in the i-th run
Loops == Len(campaign.scenarios) * campaign.runs
Inner(i) == (i - 1) \div campaign.runs

\* Where main is in its loops tells the number of the run.
LEMMA JobAt ==
    ASSUME campaign \in Campaigns, ~ FromBag, NEW i \in 1..Len(Jobs)
    PROVE  LET n == Len(campaign.scenarios)
           IN  /\ campaign.runs \in Nat \ {0} /\ n \in Nat \ {0} /\ Loops \in Nat
               /\ Inner(i) \in Nat /\ Inner(i) \div n \in 0..(Len(Profiles) - 1)
               /\ Inner(i) % n \in 0..(n - 1)
               /\ i - 1 = campaign.runs * Inner(i) + ((i - 1) % campaign.runs)
               /\ Inner(i) = n * (Inner(i) \div n) + (Inner(i) % n)
               /\ \A q \in Nat : Inner(i) \div n < q <=> i - 1 < q * Loops
               /\ Jobs[i] = [planner  |-> Profiles[(Inner(i) \div n) + 1],
                             scenario |-> campaign.scenarios[(Inner(i) % n) + 1],
                             run      |-> ((i - 1) % campaign.runs) + 1]
<1>. DEFINE n == Len(campaign.scenarios)
            runs == campaign.runs
            p == Len(Profiles)
<1>1. runs \in Nat /\ n \in Nat /\ p \in Nat
  BY RunnerAssumption DEF Profiles
<1>2. Len(Jobs) = p * n * runs
  BY JobsType
<1>3. Jobs[i] = [planner  |-> Profiles[(Inner(i) \div n) + 1],
                 scenario |-> campaign.scenarios[(Inner(i) % n) + 1],
                 run      |-> ((i - 1) % runs) + 1]
  BY <1>2 DEF Jobs, Inner
<1>. HIDE DEF n, runs, p
<1>4. i \in Nat /\ 1 <= i /\ i <= p * n * runs
  BY <1>2, JobsType
<1>5. runs # 0 /\ n # 0
  <2>1. \A x \in Nat : x * 0 = 0
    OBVIOUS
  <2>2. runs = 0 => p * n * runs = 0
    BY <1>1, <2>1, ProductType
  <2>3. n = 0 => p * n * runs = 0
    BY <1>1, <2>1
  <2>. QED
    BY <1>4, <2>2, <2>3
<1>6. i - 1 \in Nat /\ runs \in Nat \ {0} /\ n \in Nat \ {0}
  BY <1>1, <1>4, <1>5
<1>7. /\ Inner(i) \in Nat
      /\ i - 1 = runs * Inner(i) + ((i - 1) % runs)
  BY <1>6, DivMod DEF Inner, runs
<1>8. /\ Inner(i) \div n \in Nat /\ Inner(i) % n \in 0..(n - 1)
      /\ Inner(i) = n * (Inner(i) \div n) + (Inner(i) % n)
  BY <1>6, <1>7, DivMod
<1>9. ASSUME NEW q \in Nat
      PROVE  Inner(i) \div n < q <=> i - 1 < q * (n * runs)
  <2>1. q * n \in Nat
    BY <1>1, ProductType
  <2>2. Inner(i) \div n < q <=> Inner(i) < q * n
    BY <1>6, <1>7, QuotientBelow
  <2>3. Inner(i) < q * n <=> i - 1 < (q * n) * runs
    BY <1>6, <2>1, QuotientBelow DEF Inner, runs
  <2>4. (q * n) * runs = q * (n * runs)
    BY <1>1
  <2>. QED
    BY <2>2, <2>3, <2>4
<1>10. Inner(i) \div n < p
  <2>1. p * n * runs = p * (n * runs)
    BY <1>1
  <2>. QED
    BY <1>1, <1>4, <1>9, <2>1
<1>11. Inner(i) \div n \in 0..(p - 1)
  BY <1>1, <1>8, <1>10
<1>12. n * runs \in Nat
  BY <1>1, ProductType
<1>. QED
  BY <1>3, <1>6, <1>7, <1>8, <1>9, <1>11, <1>12 DEF n, runs, p, Loops

\* When the planners are named once, no two runs have the same files.
LEMMA OwnNames ==
    ASSUME campaign \in Campaigns, Distinct, NEW i \in 1..Len(Jobs), NEW j \in 1..Len(Jobs),
           FileName(Jobs[i]) = FileName(Jobs[j])
    PROVE  i = j
<1>1. CASE FromBag
  <2>1. Len(Jobs) = 1
    BY <1>1, JobsType
  <2>. QED
    BY <2>1
<1>2. CASE ~ FromBag
  <2>. DEFINE n == Len(campaign.scenarios)
  <2>9. /\ Jobs[i] = [planner  |-> Profiles[(Inner(i) \div n) + 1],
                      scenario |-> campaign.scenarios[(Inner(i) % n) + 1],
                      run      |-> ((i - 1) % campaign.runs) + 1]
        /\ Jobs[j] = [planner  |-> Profiles[(Inner(j) \div n) + 1],
                      scenario |-> campaign.scenarios[(Inner(j) % n) + 1],
                      run      |-> ((j - 1) % campaign.runs) + 1]
    BY <1>2, JobAt
  <2>0. i \in Int /\ j \in Int
    BY JobsType
  <2>. HIDE DEF n
  <2>1. /\ Jobs[i].planner = Profiles[(Inner(i) \div n) + 1]
        /\ Jobs[i].scenario = campaign.scenarios[(Inner(i) % n) + 1]
        /\ Jobs[i].run = ((i - 1) % campaign.runs) + 1
        /\ Jobs[j].planner = Profiles[(Inner(j) \div n) + 1]
        /\ Jobs[j].scenario = campaign.scenarios[(Inner(j) % n) + 1]
        /\ Jobs[j].run = ((j - 1) % campaign.runs) + 1
    BY <2>9
  <2>2. /\ Inner(i) \div n \in 0..(Len(Profiles) - 1) /\ Inner(i) % n \in 0..(n - 1)
        /\ Inner(j) \div n \in 0..(Len(Profiles) - 1) /\ Inner(j) % n \in 0..(n - 1)
        /\ Inner(i) = n * (Inner(i) \div n) + (Inner(i) % n)
        /\ Inner(j) = n * (Inner(j) \div n) + (Inner(j) % n)
        /\ i - 1 = campaign.runs * Inner(i) + ((i - 1) % campaign.runs)
        /\ j - 1 = campaign.runs * Inner(j) + ((j - 1) % campaign.runs)
        /\ n \in Nat
    BY <1>2, JobAt DEF n
  <2>3. /\ DOMAIN Profiles = 1..Len(Profiles) /\ Len(Profiles) \in Nat
        /\ DOMAIN campaign.scenarios = 1..n
        /\ IsInjective(Profiles) /\ IsInjective(campaign.scenarios)
    <3>1. /\ campaign.planners \in Seq(STRING) /\ campaign.scenarios \in Seq(STRING)
          /\ IsInjective(campaign.planners) /\ IsInjective(campaign.scenarios)
      BY <1>2, RunnerAssumption DEF Distinct
    <3>2. DOMAIN campaign.scenarios = 1..n
      BY <3>1 DEF n
    <3>3. CASE campaign.planners = <<>>
      <4>1. Profiles = <<"">>
        BY <3>3 DEF Profiles
      <4>2. DOMAIN Profiles = 1..1 /\ Len(Profiles) = 1
        BY <4>1, OneElement
      <4>3. IsInjective(Profiles)
        BY <4>2 DEF IsInjective
      <4>. QED
        BY <3>1, <3>2, <4>2, <4>3
    <3>4. CASE campaign.planners # <<>>
      BY <3>1, <3>2, <3>4 DEF Profiles
    <3>. QED
      BY <3>3, <3>4
  <2>4. Inner(i) \div n = Inner(j) \div n
    <3>. DEFINE a == Inner(i) \div n
                b == Inner(j) \div n
    <3>0. a \in 0..(Len(Profiles) - 1) /\ b \in 0..(Len(Profiles) - 1)
      BY <2>2
    <3>. HIDE DEF a, b
    <3>1. a + 1 \in DOMAIN Profiles /\ b + 1 \in DOMAIN Profiles /\ a \in Int /\ b \in Int
      BY <2>2, <2>3, <3>0
    <3>2. Profiles[a + 1] = Profiles[b + 1]
      BY <2>1 DEF FileName, a, b
    <3>3. a + 1 = b + 1
      BY <2>3, <3>1, <3>2 DEF IsInjective
    <3>4. a = b
      BY <3>1, <3>3
    <3>. QED
      BY <3>4 DEF a, b
  <2>5. Inner(i) % n = Inner(j) % n
    <3>. DEFINE a == Inner(i) % n
                b == Inner(j) % n
    <3>0. a \in 0..(n - 1) /\ b \in 0..(n - 1)
      BY <2>2
    <3>. HIDE DEF a, b
    <3>1. a + 1 \in DOMAIN campaign.scenarios /\ b + 1 \in DOMAIN campaign.scenarios
          /\ a \in Int /\ b \in Int
      BY <2>2, <2>3, <3>0
    <3>2. campaign.scenarios[a + 1] = campaign.scenarios[b + 1]
      BY <2>1 DEF FileName, a, b
    <3>3. a + 1 = b + 1
      BY <2>3, <3>1, <3>2 DEF IsInjective
    <3>4. a = b
      BY <3>1, <3>3
    <3>. QED
      BY <3>4 DEF a, b
  <2>6. Inner(i) = Inner(j)
    BY <2>2, <2>4, <2>5
  <2>7. (i - 1) % campaign.runs = (j - 1) % campaign.runs
    <3>. DEFINE a == (i - 1) % campaign.runs
                b == (j - 1) % campaign.runs
    <3>0. campaign.runs \in Nat \ {0}
      BY <1>2, JobAt
    <3>1. a \in Int /\ b \in Int
      BY <2>0, <3>0
    <3>3. a + 1 = b + 1
      BY <2>1 DEF FileName
    <3>. HIDE DEF a, b
    <3>2. a = b
      BY <3>1, <3>3
    <3>. QED
      BY <3>2 DEF a, b
  <2>8. i - 1 = j - 1
    BY <2>2, <2>6, <2>7
  <2>. QED
    BY <2>0, <2>8
<1>. QED
  BY <1>1, <1>2

-----------------------------------------------------------------------------
(***************************************************************************)
(* The files on disk                                                       *)
(***************************************************************************)

\* Writing a file changes that file, and with the row what is saved of it; all other files
\* stay as they are.
LEMMA WriteEffect ==
    ASSUME TypeOK, Progress, WriteFile
    PROVE  /\ \A k \in Keys \ {Key} : disk'[k] = disk[k] /\ saved'[k] = saved[k]
           /\ \A f \in Files \ {phase} : disk'[Key][f] = disk[Key][f]
           /\ Emptied => disk'[Key][phase] = "partial"
           /\ Written => disk'[Key][phase] = "whole"
           /\ Written /\ phase = "row" => saved'[Key] = <<Digest(Row)>>
           /\ phase # "row" => saved' = saved
<1>1. phase \in Files /\ Key \in Keys
  BY WriteFileIs, KeyType
<1>2. disk \in [Keys -> [Files -> {"absent", "partial", "whole"}]] /\ DOMAIN saved = Keys
  BY DEF TypeOK
<1>3. \/ Emptied /\ disk' = [disk EXCEPT ![Key] = [disk[Key] EXCEPT ![phase] = "partial"]]
      \/ Written /\ disk' = [disk EXCEPT ![Key] = [disk[Key] EXCEPT ![phase] = "whole"]]
  BY WriteFileIs DEF Emptied, Written
<1>4. ~ (Emptied /\ Written)
  BY DEF Emptied, Written
<1>5. disk[Key] \in [Files -> {"absent", "partial", "whole"}]
  BY <1>1, <1>2
<1>6. /\ \A k \in Keys \ {Key} : disk'[k] = disk[k]
      /\ \A f \in Files \ {phase} : disk'[Key][f] = disk[Key][f]
  BY <1>1, <1>2, <1>3, <1>5
<1>7. /\ Emptied => disk'[Key][phase] = "partial"
      /\ Written => disk'[Key][phase] = "whole"
  BY <1>1, <1>2, <1>3, <1>4, <1>5
<1>8. /\ \A k \in Keys \ {Key} : saved'[k] = saved[k]
      /\ Written /\ phase = "row" => saved'[Key] = <<Digest(Row)>>
      /\ phase # "row" => saved' = saved
  <2>1. CASE Emptied
    BY <1>1, <1>2, <1>4, <2>1 DEF Emptied
  <2>2. CASE Written
    BY <1>1, <1>2, <2>2 DEF Written
  <2>. QED
    BY <1>3, <2>1, <2>2
<1>. QED
  BY <1>6, <1>7, <1>8

\* While the files of a run are written, those that come first are whole, and the row on
\* disk is that of the record.
LEMMA CurrentFilesStep ==
    ASSUME TypeOK, Progress, CurrentFiles, [Next]_vars
    PROVE  CurrentFiles'
<1>. USE FileOrderIs
<1>1. ASSUME campaign' = campaign, job' = job
      PROVE  Key' = Key
  BY <1>1, SameCampaign DEF Key, FileName
<1>2. CASE UNCHANGED <<campaign, job, disk, saved, phase, record>>
  BY <1>1, <1>2 DEF CurrentFiles, Row
<1>3. CASE phase' \notin Files
  BY <1>3 DEF CurrentFiles
<1>4. CASE phase' = "row"
  BY <1>4 DEF CurrentFiles, Place
<1>5. CASE WriteFile
  <2>1. /\ phase \in Files /\ (Emptied \/ Written)
        /\ campaign' = campaign /\ job' = job
    BY <1>5, WriteFileIs
  <2>2. Key' = Key
    BY <1>1, <2>1
  <2>3. CASE Emptied
    <3>1. phase' = phase /\ record' = record
      BY <2>3 DEF Emptied
    <3>2. \A f \in Files : Place[f] < Place[phase] => disk'[Key][f] = "whole"
      BY <1>5, <2>1, WriteEffect DEF CurrentFiles, Place
    <3>3. phase # "row" => saved'[Key] = <<Digest(Row)>>
      BY <1>5, <2>1, WriteEffect DEF CurrentFiles
    <3>4. Digest(Row)' = Digest(Row)
      BY <3>1 DEF Row
    <3>. QED
      BY <2>2, <3>1, <3>2, <3>3, <3>4 DEF CurrentFiles
  <2>4. CASE Written /\ phase # "trajectory"
    <3>1. phase' = After(phase) /\ record' = record
      BY <2>4 DEF Written
    <3>2. \A f \in Files : Place[f] < Place[phase'] => f = phase \/ Place[f] < Place[phase]
      BY <2>1, <2>4, <3>1, AfterIs DEF Place
    <3>3. \A f \in Files : Place[f] < Place[phase'] => disk'[Key][f] = "whole"
      <4>1. \A f \in Files : Place[f] < Place[phase] => f # phase /\ disk[Key][f] = "whole"
        BY <2>1 DEF CurrentFiles, Place
      <4>2. disk'[Key][phase] = "whole"
        BY <1>5, <2>4, WriteEffect
      <4>3. \A f \in Files \ {phase} : disk'[Key][f] = disk[Key][f]
        BY <1>5, WriteEffect
      <4>. QED
        BY <3>2, <4>1, <4>2, <4>3
    <3>4. saved'[Key] = <<Digest(Row)>>
      BY <1>5, <2>1, <2>4, WriteEffect DEF CurrentFiles
    <3>5. Digest(Row)' = Digest(Row)
      BY <3>1 DEF Row
    <3>. QED
      BY <2>2, <3>3, <3>4, <3>5 DEF CurrentFiles
  <2>5. CASE Written /\ phase = "trajectory"
    BY <1>3, <2>5, AfterIs DEF Written
  <2>. QED
    BY <2>1, <2>3, <2>4, <2>5
<1>6. CASE Validate \/ StartRun \/ StackUp \/ Answered \/ ResultArrives \/ TimedOut
           \/ WriteReports \/ Killed
  BY <1>3, <1>6 DEF Validate, StartRun, StackUp, Answered, ResultArrives, TimedOut, WriteReports,
                    Killed
<1>7. CASE IngestBag \/ Teardown
  BY <1>3, <1>4, <1>7 DEF IngestBag, Teardown
<1>8. CASE Odom \/ Humans \/ Tick \/ Analyze
  BY <1>3, <1>8 DEF Odom, Humans, Tick, Analyze, Spins
<1>9. CASE Navigates
  BY <1>2, <1>9 DEF Navigates, runVars, outVars
<1>10. CASE UNCHANGED vars
  BY <1>2, <1>10 DEF vars, runVars, outVars
<1>. QED
  BY <1>5, <1>6, <1>7, <1>8, <1>9, <1>10 DEF Next, Program, Environment

\* A step that leaves the disk and the rows alone, and begins the files of no run that main
\* was not in, leaves what is known of the files.
LEMMA FilesQuiet ==
    ASSUME OwnFiles, UNCHANGED <<campaign, rows, disk, saved>>,
           phase' \in {"validate", "next"} \union RunPhases =>
                phase \in {"validate", "next"} \union RunPhases,
           phase' = "row" => phase \in {"row", "validate", "next"} \union RunPhases
    PROVE  OwnFiles'
<1>. Jobs' = Jobs /\ Distinct' = Distinct
  BY SameCampaign
<1>. SUFFICES ASSUME Distinct, NEW i \in 1..Len(Jobs)
              PROVE  FilesOf(i)'
  BY DEF OwnFiles
<1>1. FilesOf(i)
  BY DEF OwnFiles
<1>. QED
  BY <1>1 DEF FilesOf, FileName

\* Writing the files of a run leaves those of the other runs alone, and ends with all of its
\* own there.
LEMMA FilesWritten ==
    ASSUME TypeOK, Progress, CurrentFiles, OwnFiles, WriteFile
    PROVE  OwnFiles'
<1>. /\ phase \in Files /\ (Emptied \/ Written)
     /\ campaign' = campaign /\ job' = job
  BY WriteFileIs
<1>. Jobs' = Jobs /\ Distinct' = Distinct
  BY SameCampaign
<1>. SUFFICES ASSUME Distinct, NEW i \in 1..Len(Jobs)
              PROVE  FilesOf(i)'
  BY DEF OwnFiles
<1>. DEFINE k == Jobs[i]
<1>1. /\ Key \in Keys /\ Key = Jobs[job] /\ job \in 1..Len(Jobs) /\ Len(rows) = job - 1
      /\ k \in Keys /\ rows \in Seq(Digests) /\ i \in Nat /\ job \in Nat
  <2>1. Key \in Keys /\ Key = Jobs[job] /\ job \in 1..Len(Jobs)
    BY KeyType
  <2>2. Len(Jobs) \in Nat /\ Keys = {Jobs[j] : j \in 1..Len(Jobs)}
    BY JobsType DEF Progress
  <2>3. Len(rows) = job - 1 /\ rows \in Seq(Digests)
    BY DEF Progress, TypeOK
  <2>. QED
    BY <2>1, <2>2, <2>3
<1>2. i # job => k # Key
  BY <1>1, OwnNames DEF FileName, Progress
<1>3. FilesOf(i)
  BY DEF OwnFiles
<1>4. phase \in {"row", "record", "events", "trajectory"} /\ phase \notin RunPhases
  BY FileOrderIs DEF RunPhases
<1>5. /\ i <= Len(rows) => (\A f \in Files : disk[k][f] = "whole") /\ saved[k] = <<rows[i]>>
      /\ i > Len(rows) + 1 => disk[k]["row"] = "absent" /\ disk[k]["record"] = "absent"
      /\ i > Len(rows) /\ phase = "row" => disk[k]["record"] = "absent"
      /\ disk[k]["record"] # "absent" => disk[k]["row"] = "whole"
  BY <1>1, <1>3 DEF FilesOf, FileName
<1>6. SUFFICES
        /\ i <= Len(rows') => (\A f \in Files : disk'[k][f] = "whole") /\ saved'[k] = <<rows'[i]>>
        /\ i > Len(rows') /\ (i > Len(rows') + 1 \/ phase' \in {"validate", "next"} \union RunPhases)
            => disk'[k]["row"] = "absent" /\ disk'[k]["record"] = "absent"
        /\ i > Len(rows') /\ phase' = "row" => disk'[k]["record"] = "absent"
        /\ disk'[k]["record"] # "absent" => disk'[k]["row"] = "whole"
  BY DEF FilesOf, FileName
<1>7. CASE i # job
  <2>1. disk'[k] = disk[k] /\ saved'[k] = saved[k]
    BY <1>1, <1>2, <1>7, WriteEffect
  <2>2. i <= Len(rows) \/ i > Len(rows) + 1
    BY <1>1, <1>7
  <2>3. CASE phase # "trajectory" \/ Emptied
    <3>1. rows' = rows /\ phase' \in {"row", "record", "events", "trajectory"}
      BY <1>4, <2>3, AfterIs DEF Emptied, Written
    <3>. QED
      BY <1>5, <2>1, <2>2, <3>1
  <2>4. CASE phase = "trajectory" /\ Written
    <3>1. /\ Len(rows') = Len(rows) + 1 /\ phase' # "row"
          /\ \A j \in 1..Len(rows) : rows'[j] = rows[j]
      BY <1>1, <2>4, AfterIs DEF Written
    <3>. QED
      BY <1>1, <1>5, <2>1, <2>2, <3>1
  <2>. QED
    BY <2>3, <2>4
<1>8. CASE i = job
  <2>1. k = Key /\ i = Len(rows) + 1
    BY <1>1, <1>8
  <2>2. /\ \A f \in Files \ {phase} : disk'[k][f] = disk[k][f]
        /\ Written => disk'[k][phase] = "whole"
        /\ phase # "row" => saved'[k] = saved[k] /\ saved[k] = <<Digest(Row)>>
        /\ phase # "row" => disk[k]["row"] = "whole"
    <3>1. /\ \A f \in Files \ {phase} : disk'[Key][f] = disk[Key][f]
          /\ Written => disk'[Key][phase] = "whole"
          /\ phase # "row" => saved' = saved
      BY WriteEffect
    <3>2. phase # "row" => "row" \in Files /\ Place["row"] < Place[phase]
      BY <1>4, FileOrderIs DEF Place
    <3>3. phase # "row" => disk[Key]["row"] = "whole" /\ saved[Key] = <<Digest(Row)>>
      BY <3>2 DEF CurrentFiles
    <3>. QED
      BY <2>1, <3>1, <3>3
  <2>3. disk'[k]["record"] # "absent" => disk'[k]["row"] = "whole"
    BY <1>1, <1>4, <1>5, <2>1, <2>2, FileOrderIs
  <2>4. CASE phase # "trajectory" \/ Emptied
    <3>1. /\ rows' = rows /\ phase' \in {"row", "record", "events", "trajectory"}
          /\ phase' = "row" => phase = "row"
      BY <1>4, <2>4, AfterIs DEF Emptied, Written
    <3>2. phase' = "row" => disk'[k]["record"] = "absent"
      BY <1>1, <1>5, <2>1, <2>2, <3>1, FileOrderIs
    <3>. QED
      BY <1>1, <2>1, <2>3, <3>1, <3>2 DEF RunPhases
  <2>5. CASE phase = "trajectory" /\ Written
    <3>1. /\ Len(rows') = Len(rows) + 1 /\ rows'[Len(rows) + 1] = Digest(Row)
      BY <1>1, <2>5 DEF Written
    <3>2. \A f \in Files : disk'[k][f] = "whole"
      BY <2>1, <2>2, <2>5, FileOrderIs DEF CurrentFiles, Place
    <3>. QED
      BY <1>1, <2>1, <2>2, <2>3, <2>5, <3>1, <3>2
  <2>. QED
    BY <2>4, <2>5
<1>. QED
  BY <1>7, <1>8

\* The analysis leaves rows and records alone, and what is whole.
LEMMA FilesAnalyzed ==
    ASSUME TypeOK, Progress, OwnFiles, Analyze
    PROVE  OwnFiles'
<1>. campaign' = campaign
  BY DEF Analyze
<1>. Jobs' = Jobs /\ Keys' = Keys /\ Distinct' = Distinct
  BY SameCampaign
<1>. SUFFICES ASSUME Distinct, NEW i \in 1..Len(Jobs)
              PROVE  FilesOf(i)'
  BY DEF OwnFiles
<1>1. FilesOf(i) /\ Jobs[i] \in Keys
  BY JobsType DEF OwnFiles, Progress
<1>2. phase' = phase /\ phase \in {"done", "dead"} /\ rows' = rows /\ saved' = saved
  BY DEF Analyze
<1>3. \A k \in Keys : /\ disk'[k]["row"] = disk[k]["row"]
                      /\ disk'[k]["record"] = disk[k]["record"]
                      /\ \A f \in Files : disk[k][f] = "whole" => disk'[k][f] = "whole"
  BY FileOrderIs DEF Analyze
<1>. QED
  BY <1>1, <1>2, <1>3 DEF FilesOf, FileName, RunPhases

\* Every step keeps what is known of the files.
LEMMA OwnFilesStep ==
    ASSUME TypeOK, Progress, CurrentFiles, OwnFiles, [Next]_vars
    PROVE  OwnFiles'
<1>. USE DEF runVars, simVars, outVars, RunPhases
<1>1. CASE WriteFile
  BY <1>1, FilesWritten
<1>2. CASE Analyze
  BY <1>2, FilesAnalyzed
<1>3. CASE Validate \/ IngestBag \/ StartRun \/ StackUp \/ Answered
  BY <1>3, FilesQuiet, FileOrderIs DEF Validate, IngestBag, StartRun, StackUp, Answered
<1>4. CASE ResultArrives \/ TimedOut \/ Teardown \/ WriteReports \/ Killed
  BY <1>4, FilesQuiet, FileOrderIs DEF ResultArrives, TimedOut, Teardown, WriteReports, Killed
<1>5. CASE Odom \/ Humans \/ Navigates \/ Tick
  BY <1>5, FilesQuiet DEF Odom, Humans, Navigates, Tick
<1>6. CASE UNCHANGED vars
  BY <1>6, FilesQuiet DEF vars
<1>. QED
  BY <1>1, <1>2, <1>3, <1>4, <1>5, <1>6 DEF Next, Program, Environment

-----------------------------------------------------------------------------
(***************************************************************************)
(* What the reports and the analysis say                                   *)
(***************************************************************************)

\* What the reports say of the rows
Reports ==
    <<[scenarios  |-> GroupedBy([i \in DOMAIN rows |-> Jobs[i].scenario], rows, DOMAIN rows),
       comparison |-> IF campaign.planners = <<>> THEN <<>>
                      ELSE GroupedBy([i \in DOMAIN rows |-> Jobs[i].planner],
                                     rows, DOMAIN rows)]>>

\* What the analysis says of the files
Totals ==
    <<[overall     |-> Aggregate(LoadedRow, Loaded),
       by_scenario |-> GroupedBy([k \in Loaded |-> k.scenario], LoadedRow, Loaded)]>>

\* The events and trajectories that the analysis writes
RecordsAnalyzed ==
    \A k \in Keys : disk[k]["record"] = "whole" =>
        disk[k]["events"] = "whole" /\ disk[k]["trajectory"] = "whole"

\* Told, with these names
LEMMA ToldIs ==
    Told <=> /\ phase \notin {"done", "dead"} => analysis = <<>>
             /\ phase = "done" /\ ~ FromBag => report = Reports
             /\ analysis # <<>> => analysis = Totals /\ RecordsAnalyzed
BY DEF Told, Reports, Totals, RecordsAnalyzed

\* The reports stay, and the analysis, while rows and files do.
LEMMA ToldQuiet ==
    ASSUME Told, UNCHANGED <<campaign, rows, disk, saved, report, analysis>>,
           phase' = phase \/ phase \notin {"done", "dead"}, phase' = "done" => phase = "done"
    PROVE  Told'
<1>. Jobs' = Jobs /\ Keys' = Keys /\ FromBag' = FromBag
  BY SameCampaign
<1>1. Reports' = Reports /\ RecordsAnalyzed' = RecordsAnalyzed
  BY DEF Reports, RecordsAnalyzed
<1>2. Loaded' = Loaded
  BY DEF Loaded
<1>3. LoadedRow' = LoadedRow
  BY <1>2 DEF LoadedRow
<1>4. Totals' = Totals
  BY <1>2, <1>3 DEF Totals
<1>5. /\ phase \notin {"done", "dead"} => analysis = <<>>
      /\ phase = "done" /\ ~ FromBag => report = Reports
      /\ analysis # <<>> => analysis = Totals /\ RecordsAnalyzed
  BY ToldIs
<1>6. /\ phase' \notin {"done", "dead"} => analysis' = <<>>
      /\ phase' = "done" /\ ~ FromBag' => report' = Reports'
      /\ analysis' # <<>> => analysis' = Totals' /\ RecordsAnalyzed'
  BY <1>1, <1>4, <1>5
<1>. QED
  BY <1>6 DEF Told, Reports, Totals, RecordsAnalyzed

\* The analysis tells what is there.
LEMMA ToldAnalyze ==
    ASSUME TypeOK, Told, Analyze
    PROVE  Told'
<1>. /\ UNCHANGED <<campaign, rows, saved, report, phase>>
     /\ phase \in {"done", "dead"} /\ analysis' = Totals
  BY DEF Analyze, Totals
<1>. Jobs' = Jobs /\ Keys' = Keys /\ FromBag' = FromBag
  BY SameCampaign
<1>1. Reports' = Reports
  BY DEF Reports
<1>2. \A k \in Keys : disk'[k] = [f \in Files |->
            IF disk[k]["record"] = "whole" /\ f \in {"events", "trajectory"}
            THEN "whole" ELSE disk[k][f]]
  BY DEF Analyze
<1>3. RecordsAnalyzed'
  BY <1>2, FileOrderIs DEF RecordsAnalyzed
<1>4. Loaded' = Loaded
  <2>1. "row" \in Files /\ "row" \notin {"events", "trajectory"}
    BY FileOrderIs
  <2>2. \A k \in Keys : disk'[k]["row"] = disk[k]["row"]
    BY <1>2, <2>1
  <2>. QED
    BY <2>2 DEF Loaded
<1>5. LoadedRow' = LoadedRow
  BY <1>4 DEF LoadedRow
<1>6. Totals' = Totals
  BY <1>4, <1>5 DEF Totals
<1>7. /\ phase' \notin {"done", "dead"} => analysis' = <<>>
      /\ phase' = "done" /\ ~ FromBag' => report' = Reports'
      /\ analysis' # <<>> => analysis' = Totals' /\ RecordsAnalyzed'
  BY <1>1, <1>3, <1>6, ToldIs
<1>. QED
  BY <1>7 DEF Told, Reports, Totals, RecordsAnalyzed

\* Every step keeps what is told.
LEMMA ToldStep ==
    ASSUME TypeOK, Progress, Told, [Next]_vars
    PROVE  Told'
<1>. USE DEF runVars, simVars, outVars
<1>. phase \notin {"done", "dead"} => analysis = <<>>
  BY ToldIs
<1>1. CASE WriteFile
  <2>1. /\ phase \in Files /\ (Emptied \/ Written) /\ campaign' = campaign
        /\ analysis' = analysis /\ report' = report
    BY <1>1, WriteFileIs
  <2>2. analysis' = <<>>
    BY <2>1, FileOrderIs
  <2>3. phase' = "done" => FromBag
    BY <2>1, AfterIs, FileOrderIs DEF Emptied, Written
  <2>4. FromBag' = FromBag
    BY <2>1, SameCampaign
  <2>. QED
    BY <2>2, <2>3, <2>4 DEF Told
<1>2. CASE WriteReports
  <2>1. /\ report' = Reports /\ analysis' = <<>> /\ UNCHANGED <<campaign, rows>>
    BY <1>2 DEF WriteReports, Reports
  <2>2. Jobs' = Jobs /\ Reports' = Reports
    BY <2>1, SameCampaign DEF Reports
  <2>3. /\ phase' \notin {"done", "dead"} => analysis' = <<>>
        /\ phase' = "done" /\ ~ FromBag' => report' = Reports'
        /\ analysis' # <<>> => analysis' = Totals' /\ RecordsAnalyzed'
    BY <2>1, <2>2
  <2>. QED
    BY <2>3 DEF Told, Reports, Totals, RecordsAnalyzed
<1>3. CASE Analyze
  BY <1>3, ToldAnalyze
<1>4. CASE Validate \/ IngestBag \/ StartRun \/ StackUp \/ Answered
  BY <1>4, ToldQuiet, FileOrderIs DEF Validate, IngestBag, StartRun, StackUp, Answered
<1>5. CASE ResultArrives \/ TimedOut \/ Teardown \/ Killed
  BY <1>5, ToldQuiet, FileOrderIs DEF ResultArrives, TimedOut, Teardown, Killed
<1>6. CASE Odom \/ Humans \/ Navigates \/ Tick
  BY <1>6, ToldQuiet DEF Odom, Humans, Navigates, Tick
<1>7. CASE UNCHANGED vars
  BY <1>7, ToldQuiet DEF vars
<1>. QED
  BY <1>1, <1>2, <1>3, <1>4, <1>5, <1>6, <1>7 DEF Next, Program, Environment

\* With one planner no two runs have the same log.
LEMMA OwnLogNames ==
    ASSUME campaign \in Campaigns, ~ FromBag, Len(Profiles) = 1,
           NEW i \in 1..Len(Jobs), NEW j \in 1..Len(Jobs), LogName(Jobs[i]) = LogName(Jobs[j])
    PROVE  i = j
<1>1. ASSUME NEW k \in 1..Len(Jobs)
      PROVE  Jobs[k] = [planner |-> Profiles[1], scenario |-> LogName(Jobs[k]).scenario,
                        run |-> LogName(Jobs[k]).run]
  <2>. DEFINE p == Inner(k) \div Len(campaign.scenarios)
              q == (Inner(k) % Len(campaign.scenarios)) + 1
              r == ((k - 1) % campaign.runs) + 1
  <2>1. /\ p \in 0..(Len(Profiles) - 1)
        /\ Jobs[k] = [planner |-> Profiles[p + 1], scenario |-> campaign.scenarios[q], run |-> r]
    BY JobAt
  <2>. HIDE DEF p, q, r
  <2>2. p = 0
    BY <2>1
  <2>3. Jobs[k] = [planner |-> Profiles[1], scenario |-> campaign.scenarios[q], run |-> r]
    BY <2>1, <2>2
  <2>. QED
    BY <2>3 DEF LogName
<1>3. FileName(Jobs[i]) = FileName(Jobs[j])
  <2>1. /\ Jobs[i] = [planner |-> Profiles[1], scenario |-> LogName(Jobs[i]).scenario,
                      run |-> LogName(Jobs[i]).run]
        /\ Jobs[j] = [planner |-> Profiles[1], scenario |-> LogName(Jobs[j]).scenario,
                      run |-> LogName(Jobs[j]).run]
    BY <1>1, Zenon
  <2>. QED
    BY <2>1, Zenon DEF FileName
<1>4. Distinct
  BY RunnerAssumption DEF Distinct, IsInjective, Profiles
<1>. QED
  BY <1>3, <1>4, OwnNames

\* Every step keeps what is known of the logs.
LEMMA OwnLogsStep ==
    ASSUME TypeOK, Progress, OwnLogs, [Next]_vars
    PROVE  OwnLogs'
<1>. USE DEF runVars, simVars, outVars
<1>1. campaign' = campaign
  BY DEF vars, Next, Program, Environment, Validate, IngestBag, StartRun, StackUp, Answered,
         ResultArrives, TimedOut, Teardown, WriteFile, WriteReports, Odom, Humans, Navigates,
         Tick, Killed, Analyze
<1>2. Jobs' = Jobs /\ FromBag' = FromBag /\ Profiles' = Profiles
  BY <1>1, SameCampaign DEF Profiles
<1>3. CASE StartRun
  <2>. SUFFICES ASSUME ~ FromBag, Len(Profiles) = 1, NEW i \in 1..job'
                PROVE  logs'[LogName(Jobs[i])] = i
    BY <1>2 DEF OwnLogs, LogName
  <2>1. /\ job \in Nat /\ Len(Jobs) \in Nat /\ DOMAIN Jobs = 1..Len(Jobs)
        /\ job' = job + 1 /\ job < Len(Jobs)
        /\ logs' = [logs EXCEPT ![LogName(Jobs[job'])] = job']
    BY <1>3, JobsType DEF StartRun, TypeOK, Progress
  <2>2. i \in 1..Len(Jobs) /\ job' \in 1..Len(Jobs)
    BY <2>1
  <2>3. LogName(Jobs[i]) \in DOMAIN logs /\ LogName(Jobs[job']) \in DOMAIN logs
    BY <2>1, <2>2 DEF TypeOK, LogNames
  <2>4. CASE i = job'
    BY <2>1, <2>3, <2>4
  <2>5. CASE i # job'
    <3>1. LogName(Jobs[i]) # LogName(Jobs[job'])
      BY <2>2, <2>5, OwnLogNames DEF Progress
    <3>2. i \in 1..job
      BY <2>1, <2>5
    <3>. QED
      BY <2>1, <2>3, <3>1, <3>2 DEF OwnLogs
  <2>. QED
    BY <2>4, <2>5
<1>4. CASE IngestBag
  BY <1>2, <1>4 DEF IngestBag, OwnLogs
<1>5. CASE ~ StartRun /\ ~ IngestBag
  <2>1. job' = job /\ logs' = logs
    BY <1>5 DEF vars, Next, Program, Environment, Validate, StackUp, Answered, ResultArrives,
                TimedOut, Teardown, WriteFile, WriteReports, Odom, Humans, Navigates, Tick,
                Killed, Analyze
  <2>. QED
    BY <1>2, <2>1 DEF OwnLogs, LogName
<1>. QED
  BY <1>3, <1>4, <1>5

\* Before the first step no file is there.
LEMMA FilesInit == Init => CurrentFiles /\ OwnFiles /\ OwnLogs /\ Told
<1>. SUFFICES ASSUME Init
              PROVE  CurrentFiles /\ OwnFiles /\ OwnLogs /\ Told
  OBVIOUS
<1>0. OwnLogs
  BY DEF Init, OwnLogs
<1>1. CurrentFiles /\ Told
  BY FileOrderIs DEF Init, CurrentFiles, Told
<1>2. ASSUME NEW i \in 1..Len(Jobs)
      PROVE  FilesOf(i)
  <2>1. Jobs[i] \in Keys /\ i \in Nat
    BY JobsType DEF Init
  <2>. QED
    BY <2>1, FileOrderIs DEF Init, FilesOf, FileName
<1>. QED
  BY <1>0, <1>1, <1>2 DEF OwnFiles

\* The invariant holds in every state of a campaign.
THEOREM Invariance == Spec => []IInv
<1>1. Init => IInv
  BY TypeInit, FilesInit DEF IInv
<1>2. IInv /\ [Next]_vars => IInv'
  BY TypeStep, CurrentFilesStep, OwnFilesStep, OwnLogsStep, ToldStep DEF IInv
<1>. QED
  BY <1>1, <1>2, PTL DEF Spec

-----------------------------------------------------------------------------
(***************************************************************************)
(* Counting the files                                                      *)
(***************************************************************************)

\* What is named differently is as many as its names.
LEMMA ImageSize ==
    ASSUME NEW S, IsFiniteSet(S), NEW f, \A x, y \in S : f[x] = f[y] => x = y
    PROVE  IsFiniteSet({f[x] : x \in S}) /\ Cardinality({f[x] : x \in S}) = Cardinality(S)
<1>. DEFINE T == {f[x] : x \in S}
            g == [x \in S |-> f[x]]
<1>1. g \in Injection(S, T)
  BY DEF Injection, IsInjective
<1>2. g \in Surjection(S, T)
  BY DEF Surjection
<1>3. ExistsBijection(S, T)
  BY <1>1, <1>2 DEF ExistsBijection, Bijection
<1>. QED
  BY <1>3, FS_Bijection

\* Totals do not depend on what the runs are numbered by.
LEMMA Renumbered ==
    ASSUME NEW S, IsFiniteSet(S), NEW f, \A x, y \in S : f[x] = f[y] => x = y,
           NEW row, NEW named, \A x \in S : named[f[x]] = row[x]
    PROVE  Aggregate(named, {f[x] : x \in S}) = Aggregate(row, S)
<1>. DEFINE T == {f[x] : x \in S}
<1>1. ASSUME NEW A, A \subseteq S
      PROVE  Cardinality({f[x] : x \in A}) = Cardinality(A)
  <2>1. IsFiniteSet(A)
    BY <1>1, FS_Subset
  <2>. QED
    BY <1>1, <2>1, ImageSize
<1>2. {k \in T : named[k].success} = {f[x] : x \in {x \in S : row[x].success}}
  OBVIOUS
<1>3. {k \in T : named[k].collision} = {f[x] : x \in {x \in S : row[x].collision}}
  OBVIOUS
<1>4. \A l : {k \in T : named[k].label = l} = {f[x] : x \in {x \in S : row[x].label = l}}
  OBVIOUS
<1>5. Cardinality({k \in T : named[k].success}) = Cardinality({x \in S : row[x].success})
  BY <1>1, <1>2
<1>6. Cardinality({k \in T : named[k].collision}) = Cardinality({x \in S : row[x].collision})
  BY <1>1, <1>3
<1>7. ASSUME NEW l
      PROVE  Cardinality({k \in T : named[k].label = l}) = Cardinality({x \in S : row[x].label = l})
  <2>1. {k \in T : named[k].label = l} = {f[x] : x \in {x \in S : row[x].label = l}}
    BY <1>4
  <2>2. {x \in S : row[x].label = l} \subseteq S
    OBVIOUS
  <2>. QED
    BY <1>1, <2>1, <2>2
<1>8. Cardinality(T) = Cardinality(S)
  BY <1>1
<1>. HIDE DEF T
<1>9. [l \in Labels |-> Cardinality({k \in T : named[k].label = l})] =
      [l \in Labels |-> Cardinality({x \in S : row[x].label = l})]
  BY <1>7
<1>10. Aggregate(named, T) = Aggregate(row, S)
  BY <1>5, <1>6, <1>8, <1>9 DEF Aggregate
<1>. QED
  BY <1>10 DEF T

\* The runs whose row is on disk when a campaign is over: those of the rows of main, and of
\* one that was killed perhaps one more.
LEMMA RowsOnDisk ==
    ASSUME IInv, Distinct, phase \in {"done", "dead"}
    PROVE  \E n \in {Len(rows), Len(rows) + 1} :
            /\ n <= Len(Jobs) /\ (phase = "done" => n = Len(rows))
            /\ Loaded = {Jobs[i] : i \in 1..n} /\ Cardinality(Loaded) = n
<1>. DEFINE Is(i) == disk[Jobs[i]]["row"] = "whole"
<1>1. /\ Len(rows) \in Nat /\ Len(Jobs) \in Nat /\ Len(rows) <= Len(Jobs)
      /\ Keys = {Jobs[i] : i \in 1..Len(Jobs)}
      /\ phase = "done" => Len(rows) = Len(Jobs)
  <2>1. campaign \in Campaigns /\ rows \in Seq(Digests) /\ Len(rows) <= Len(Jobs)
    BY DEF IInv, TypeOK, Progress
  <2>2. phase = "done" => Len(rows) = Len(Jobs)
    BY DEF IInv, Progress
  <2>. QED
    BY <2>1, <2>2, JobsType
<1>2. /\ \A i \in 1..Len(Jobs) : i <= Len(rows) => Is(i)
      /\ \A i \in 1..Len(Jobs) : i > Len(rows) + 1 => ~ Is(i)
  <2>. SUFFICES ASSUME NEW i \in 1..Len(Jobs)
                PROVE  (i <= Len(rows) => Is(i)) /\ (i > Len(rows) + 1 => ~ Is(i))
    OBVIOUS
  <2>1. FilesOf(i)
    BY DEF IInv, OwnFiles
  <2>2. i \in Nat
    BY <1>1
  <2>. QED
    BY <1>1, <2>1, <2>2, FileOrderIs DEF FilesOf, FileName
<1>. HIDE DEF Is
<1>3. Loaded = {Jobs[i] : i \in {i \in 1..Len(Jobs) : Is(i)}}
  BY <1>1 DEF Loaded, Is
<1>4. ASSUME NEW n \in {Len(rows), Len(rows) + 1}, n <= Len(Jobs),
             phase = "done" => n = Len(rows),
             \A i \in 1..Len(Jobs) : Is(i) <=> i <= n
      PROVE  /\ Loaded = {Jobs[i] : i \in 1..n} /\ Cardinality(Loaded) = n
  <2>1. {i \in 1..Len(Jobs) : Is(i)} = 1..n
    BY <1>1, <1>4
  <2>2. n \in Nat /\ 1..n \subseteq 1..Len(Jobs)
    BY <1>1, <1>4
  <2>3. \A i, j \in 1..n : Jobs[i] = Jobs[j] => i = j
    BY <2>2, OwnNames DEF FileName, IInv, Progress
  <2>4. IsFiniteSet(1..n) /\ Cardinality(1..n) = n
    BY <2>2, FS_Interval
  <2>. QED
    BY <1>3, <2>1, <2>3, <2>4, ImageSize
<1>5. CASE Len(rows) + 1 <= Len(Jobs) /\ Is(Len(rows) + 1)
  <2>1. \A i \in 1..Len(Jobs) : Is(i) <=> i <= Len(rows) + 1
    BY <1>1, <1>2, <1>5
  <2>2. phase # "done"
    BY <1>1, <1>5
  <2>. QED
    BY <1>4, <1>5, <2>1, <2>2
<1>6. CASE ~ (Len(rows) + 1 <= Len(Jobs) /\ Is(Len(rows) + 1))
  <2>1. \A i \in 1..Len(Jobs) : Is(i) <=> i <= Len(rows)
    BY <1>1, <1>2, <1>6
  <2>. QED
    BY <1>1, <1>4, <2>1
<1>. QED
  BY <1>5, <1>6

\* Whenever the runner is killed, and whatever it was doing: the four result files of every
\* run it has finished are there with its row, no record is without its row, the analysis
\* finds at most one run more and leaves no record without its events and trajectory, and
\* with one planner no log of a run is written over.
THEOREM NothingIsLost == Spec => []NothingLost
<1>1. ASSUME IInv
      PROVE  NothingLost
  <2>1. ASSUME Distinct, NEW i \in DOMAIN rows
        PROVE  LET k == FileName(Jobs[i])
               IN  (\A f \in Files : disk[k][f] = "whole") /\ saved[k] = <<rows[i]>>
    <3>1. i \in 1..Len(Jobs) /\ i <= Len(rows)
      <4>1. campaign \in Campaigns /\ rows \in Seq(Digests) /\ Len(rows) <= Len(Jobs)
        BY <1>1 DEF IInv, TypeOK, Progress
      <4>2. DOMAIN rows = 1..Len(rows) /\ Len(rows) \in Nat /\ Len(Jobs) \in Nat
        BY <4>1, JobsType, SequenceIs
      <4>. QED
        BY <2>1, <4>1, <4>2
    <3>. QED
      BY <1>1, <2>1, <3>1 DEF IInv, OwnFiles, FilesOf
  <2>2. ASSUME Distinct, NEW k \in Keys, disk[k]["record"] # "absent"
        PROVE  disk[k]["row"] = "whole"
    <3>1. PICK i \in 1..Len(Jobs) : k = FileName(Jobs[i])
      BY <1>1, JobsType DEF IInv, Progress, FileName
    <3>. QED
      BY <1>1, <2>2, <3>1 DEF IInv, OwnFiles, FilesOf
  <2>3. ASSUME analysis # <<>>
        PROVE  /\ phase \in {"done", "dead"} /\ RecordsAnalyzed
               /\ analysis[1].overall.n = Cardinality(Loaded)
    BY <1>1, <2>3, ToldIs DEF IInv, Totals, Aggregate
  <2>4. ASSUME analysis # <<>>, Distinct
        PROVE  analysis[1].overall.n \in {Len(rows), Len(rows) + 1}
    BY <1>1, <2>3, <2>4, RowsOnDisk
  <2>. QED
    BY <1>1, <2>1, <2>2, <2>3, <2>4 DEF NothingLost, RecordsAnalyzed, IInv, OwnLogs
<1>. QED
  BY <1>1, Invariance, PTL

\* A planner is tried on every scenario, as often as was asked for: the runs with its name.
LEMMA RunsOfPlanner ==
    ASSUME campaign \in Campaigns, ~ FromBag, Distinct, Loops > 0,
           NEW p \in ToSet(campaign.planners)
    PROVE  /\ \E i \in 1..Len(Jobs) : Jobs[i].planner = p
           /\ Cardinality({i \in 1..Len(Jobs) : Jobs[i].planner = p}) = Loops
<1>. DEFINE n == Len(campaign.scenarios)
            at(i) == Inner(i) \div n
<1>1. /\ campaign.planners \in Seq(STRING) /\ campaign.planners # <<>>
      /\ Profiles = campaign.planners /\ IsInjective(Profiles)
      /\ n \in Nat /\ campaign.runs \in Nat /\ Loops \in Nat
  <2>1. /\ campaign.planners \in Seq(STRING) /\ n \in Nat /\ campaign.runs \in Nat
    BY RunnerAssumption
  <2>2. campaign.planners # <<>>
    BY <2>1 DEF ToSet
  <2>. QED
    BY <2>1, <2>2, ProductType DEF Profiles, Distinct, Loops
<1>2. Len(Profiles) \in Nat /\ DOMAIN Profiles = 1..Len(Profiles)
  BY <1>1
<1>3. PICK q \in 1..Len(Profiles) : Profiles[q] = p
  BY <1>1, <1>2 DEF ToSet
<1>4. Len(Jobs) = Len(Profiles) * Loops
  <2>1. Len(Jobs) = Len(Profiles) * n * campaign.runs /\ Loops = n * campaign.runs
    BY JobsType DEF Loops
  <2>. HIDE DEF n
  <2>2. \A a, b, c \in Nat : a * b * c = a * (b * c)
    OBVIOUS
  <2>3. Len(Profiles) * n * campaign.runs = Len(Profiles) * (n * campaign.runs)
    BY <1>1, <1>2, <2>2
  <2>. QED
    BY <2>1, <2>3
<1>. HIDE DEF n
<1>5. ASSUME NEW i \in 1..Len(Jobs)
      PROVE  Jobs[i].planner = p <=> (q - 1) * Loops < i /\ i <= q * Loops
  <2>0. i \in Int
    BY JobsType
  <2>1. /\ at(i) \in 0..(Len(Profiles) - 1)
        /\ \A m \in Nat : at(i) < m <=> i - 1 < m * Loops
        /\ Jobs[i].planner = Profiles[at(i) + 1]
    <3>1. /\ at(i) \in 0..(Len(Profiles) - 1)
          /\ \A m \in Nat : at(i) < m <=> i - 1 < m * Loops
      BY JobAt DEF n
    <3>2. Jobs[i] = [planner  |-> Profiles[(Inner(i) \div n) + 1],
                     scenario |-> campaign.scenarios[(Inner(i) % n) + 1],
                     run      |-> ((i - 1) % campaign.runs) + 1]
      BY JobAt DEF n
    <3>. QED
      BY <3>1, <3>2
  <2>. HIDE DEF at
  <2>2. at(i) + 1 \in DOMAIN Profiles /\ q \in DOMAIN Profiles
    BY <1>2, <2>1
  <2>3. Jobs[i].planner = p <=> at(i) + 1 = q
    BY <1>1, <1>3, <2>1, <2>2 DEF IsInjective
  <2>4. q \in Nat /\ q - 1 \in Nat /\ at(i) \in Nat
    BY <1>2, <2>1
  <2>5. at(i) + 1 = q <=> at(i) < q /\ ~ (at(i) < q - 1)
    BY <2>4
  <2>6. at(i) < q <=> i - 1 < q * Loops
    BY <2>1, <2>4
  <2>7. at(i) < q - 1 <=> i - 1 < (q - 1) * Loops
    BY <2>1, <2>4
  <2>8. q * Loops \in Int /\ (q - 1) * Loops \in Int
    BY <1>1, <2>4
  <2>. QED
    BY <2>0, <2>3, <2>5, <2>6, <2>7, <2>8
<1>. HIDE DEF at
<1>. DEFINE low == (q - 1) * Loops
            high == q * Loops
<1>6. low \in Nat /\ high = low + Loops /\ high <= Len(Jobs) /\ high \in Nat
  <2>1. q \in Nat /\ q - 1 \in Nat /\ q <= Len(Profiles)
    BY <1>2
  <2>2. low \in Nat /\ high \in Nat
    BY <1>1, <2>1, ProductType
  <2>3. high = low + Loops
    BY <1>1, <2>1
  <2>4. q * Loops <= Len(Profiles) * Loops
    BY <1>1, <1>2, <2>1
  <2>. QED
    BY <1>4, <2>2, <2>3, <2>4
<1>7. \A i \in 1..Len(Jobs) : Jobs[i].planner = p <=> low < i /\ i <= high
  BY <1>5
<1>. HIDE DEF low, high
<1>8. Len(Jobs) \in Nat /\ Loops \in Nat
  BY <1>1, JobsType
<1>9. {i \in 1..Len(Jobs) : Jobs[i].planner = p} = (low + 1)..high
  BY <1>6, <1>7, <1>8
<1>10. Cardinality((low + 1)..high) = Loops
  <2>1. low + 1 \in Int /\ high \in Int /\ ~ (low + 1 > high) /\ high - (low + 1) + 1 = Loops
    BY <1>6, <1>8
  <2>. QED
    BY <2>1, FS_Interval
<1>11. high \in 1..Len(Jobs) /\ Jobs[high].planner = p
  BY <1>6, <1>7, <1>8
<1>. QED
  BY <1>9, <1>10, <1>11

\* Runs that are numbered otherwise, and named the same, are grouped the same.
LEMMA RenumberedGroups ==
    ASSUME NEW S, IsFiniteSet(S), NEW f, \A x, y \in S : f[x] = f[y] => x = y,
           NEW row, NEW named, \A x \in S : named[f[x]] = row[x],
           NEW name, NEW group, \A x \in S : group[f[x]] = name[x]
    PROVE  GroupedBy(group, named, {f[x] : x \in S}) = GroupedBy(name, row, S)
<1>. DEFINE T == {f[x] : x \in S}
<1>1. {group[k] : k \in T} = {name[x] : x \in S}
  OBVIOUS
<1>2. ASSUME NEW g
      PROVE  Aggregate(named, {k \in T : group[k] = g}) = Aggregate(row, {x \in S : name[x] = g})
  <2>. DEFINE A == {x \in S : name[x] = g}
  <2>1. {k \in T : group[k] = g} = {f[x] : x \in A}
    OBVIOUS
  <2>2. A \subseteq S /\ IsFiniteSet(A)
    BY FS_Subset
  <2>. HIDE DEF A
  <2>3. Aggregate(named, {f[x] : x \in A}) = Aggregate(row, A)
    BY <2>2, Renumbered
  <2>. QED
    BY <2>1, <2>3 DEF A
<1>. HIDE DEF T
<1>3. GroupedBy(group, named, T) = GroupedBy(name, row, S)
  <2>1. GroupedBy(group, named, T) =
            [g \in {name[x] : x \in S} |-> Aggregate(row, {x \in S : name[x] = g})]
    <3>1. \A g \in {name[x] : x \in S} :
                Aggregate(named, {k \in T : group[k] = g})
                    = Aggregate(row, {x \in S : name[x] = g})
      BY <1>2
    <3>2. GroupedBy(group, named, T) =
            [g \in {name[x] : x \in S} |-> Aggregate(named, {k \in T : group[k] = g})]
      BY <1>1 DEF GroupedBy
    <3>. QED
      BY <3>1, <3>2
  <2>. QED
    BY <2>1 DEF GroupedBy
<1>. QED
  BY <1>3 DEF T

\* A campaign that ends by itself has run every planner on every scenario as often as asked
\* for, and analyze.py, which reads the files again, counts what the reports counted: per
\* scenario and over all.
THEOREM AnalysisAgrees == Spec => []ReportsAgree
<1>1. ASSUME IInv, phase = "done", ~ FromBag, Distinct
      PROVE  /\ Len(rows) = Len(Profiles) * Loops
             /\ Loops > 0 => \A p \in ToSet(campaign.planners) : report[1].comparison[p].n = Loops
             /\ analysis # <<>> => /\ analysis[1].by_scenario = report[1].scenarios
                                   /\ analysis[1].overall = Aggregate(rows, DOMAIN rows)
  <2>. campaign \in Campaigns
    BY <1>1 DEF IInv, Progress
  <2>1. /\ rows \in Seq(Digests) /\ Len(rows) = Len(Jobs) /\ Len(Jobs) \in Nat
        /\ DOMAIN rows = 1..Len(Jobs) /\ IsFiniteSet(1..Len(Jobs))
    <3>1. rows \in Seq(Digests) /\ Len(rows) = Len(Jobs)
      BY <1>1 DEF IInv, TypeOK, Progress
    <3>2. DOMAIN rows = 1..Len(Jobs) /\ Len(Jobs) \in Nat
      BY <3>1, SequenceIs
    <3>. QED
      BY <3>1, <3>2, FS_Interval
  <2>2. Len(rows) = Len(Profiles) * Loops
    <3>1. Len(Jobs) = Len(Profiles) * Len(campaign.scenarios) * campaign.runs
      BY <1>1, JobsType
    <3>2. Len(Profiles) \in Nat /\ Len(campaign.scenarios) \in Nat /\ campaign.runs \in Nat
      BY RunnerAssumption DEF Profiles
    <3>. QED
      BY <2>1, <3>1, <3>2 DEF Loops
  <2>. DEFINE scenario == [i \in DOMAIN rows |-> Jobs[i].scenario]
              planner  == [i \in DOMAIN rows |-> Jobs[i].planner]
  <2>3. /\ report[1].scenarios = GroupedBy(scenario, rows, DOMAIN rows)
        /\ campaign.planners # <<>> =>
                report[1].comparison = GroupedBy(planner, rows, DOMAIN rows)
    BY <1>1, ToldIs DEF IInv, Reports
  <2>4. ASSUME Loops > 0, NEW p \in ToSet(campaign.planners)
        PROVE  report[1].comparison[p].n = Loops
    <3>1. campaign.planners # <<>>
      BY RunnerAssumption, <2>4 DEF ToSet
    <3>2. /\ \E i \in 1..Len(Jobs) : Jobs[i].planner = p
          /\ Cardinality({i \in 1..Len(Jobs) : Jobs[i].planner = p}) = Loops
      BY <1>1, <2>4, RunsOfPlanner
    <3>3. p \in {planner[i] : i \in DOMAIN rows}
      BY <2>1, <3>2
    <3>4. {i \in DOMAIN rows : planner[i] = p} = {i \in 1..Len(Jobs) : Jobs[i].planner = p}
      BY <2>1
    <3>. HIDE DEF planner
    <3>5. report[1].comparison[p] = Aggregate(rows, {i \in DOMAIN rows : planner[i] = p})
      BY <2>3, <3>1, <3>3 DEF GroupedBy
    <3>6. Aggregate(rows, {i \in 1..Len(Jobs) : Jobs[i].planner = p}).n
            = Cardinality({i \in 1..Len(Jobs) : Jobs[i].planner = p})
      BY DEF Aggregate
    <3>. QED
      BY <3>2, <3>4, <3>5, <3>6
  <2>5. ASSUME analysis # <<>>
        PROVE  /\ analysis[1].by_scenario = report[1].scenarios
               /\ analysis[1].overall = Aggregate(rows, DOMAIN rows)
    <3>1. Loaded = {Jobs[i] : i \in DOMAIN rows}
      BY <1>1, <2>1, RowsOnDisk
    <3>2. \A i, j \in DOMAIN rows : Jobs[i] = Jobs[j] => i = j
      BY <1>1, <2>1, OwnNames DEF FileName
    <3>3. ASSUME NEW i \in DOMAIN rows
          PROVE  LoadedRow[Jobs[i]] = rows[i]
      <4>0. i \in 1..Len(Jobs) /\ i \in Nat /\ i <= Len(rows)
        BY <2>1
      <4>1. saved[Jobs[i]] = <<rows[i]>>
        BY <1>1, <4>0 DEF IInv, OwnFiles, FilesOf, FileName
      <4>2. Jobs[i] \in Loaded
        BY <3>1
      <4>. QED
        BY <4>1, <4>2 DEF LoadedRow
    <3>. DEFINE group == [k \in Loaded |-> k.scenario]
    <3>4. /\ analysis[1].overall = Aggregate(LoadedRow, Loaded)
          /\ analysis[1].by_scenario = GroupedBy(group, LoadedRow, Loaded)
      BY <1>1, <2>5, ToldIs DEF IInv, Totals
    <3>5. \A i \in DOMAIN rows : group[Jobs[i]] = scenario[i]
      BY <3>1
    <3>. HIDE DEF group, scenario
    <3>6. IsFiniteSet(DOMAIN rows)
      BY <2>1
    <3>7. Aggregate(LoadedRow, Loaded) = Aggregate(rows, DOMAIN rows)
      BY <3>1, <3>2, <3>3, <3>6, Renumbered
    <3>8. GroupedBy(group, LoadedRow, Loaded) = GroupedBy(scenario, rows, DOMAIN rows)
      BY <3>1, <3>2, <3>3, <3>5, <3>6, RenumberedGroups
    <3>. QED
      BY <2>3, <3>4, <3>7, <3>8
  <2>. QED
    BY <2>2, <2>4, <2>5
<1>2. IInv => ReportsAgree
  BY <1>1 DEF ReportsAgree, Loops
<1>. QED
  BY <1>2, Invariance, PTL

-----------------------------------------------------------------------------
(***************************************************************************)
(* Row, events and label tell the same story.  The loops of detect_events  *)
(* are recursive functions; what each counts is proved by induction on the *)
(* number of frames or samples, the induction itself by a least            *)
(* counterexample.                                                         *)
(***************************************************************************)

\* Induction along a sequence, for a set of the lengths for which something holds.
LEMMA UpTo ==
    ASSUME NEW n \in Nat, NEW S, 0 \in S, \A k \in 1..n : k - 1 \in S => k \in S
    PROVE  \A k \in 0..n : k \in S
<1>. SUFFICES ASSUME NEW m \in 0..n, m \notin S
              PROVE  FALSE
  OBVIOUS
<1>. DEFINE bad == {k \in 0..n : k \notin S}
<1>1. bad \subseteq Nat /\ m \in bad
  OBVIOUS
<1>2. Min(bad) \in bad /\ \A k \in bad : Min(bad) <= k
  BY <1>1, LeastOf
<1>. DEFINE k == Min(bad)
<1>3. k \in 0..n /\ k \notin S /\ \A j \in 0..n : j \notin S => k <= j
  BY <1>2
<1>. HIDE DEF k, bad
<1>4. k \in 1..n
  BY <1>3
<1>5. k - 1 \in 0..n /\ ~ (k <= k - 1)
  BY <1>4
<1>. QED
  BY <1>3, <1>4, <1>5

\* What a loop over n elements can make of its variables: their values after each element
LoopsOf(X, n, base, step) ==
    {g \in [0..n -> X] : g[0] = base /\ \A i \in 1..n : g[i] = step[i][g[i - 1]]}

\* A loop whose steps are defined everywhere has its values.
LEMMA LoopExists ==
    ASSUME NEW X, NEW n \in Nat, NEW base \in X, NEW step \in [1..n -> [X -> X]]
    PROVE  LoopsOf(X, n, base, step) # {}
<1>. DEFINE upto(k) == LoopsOf(X, k, base, step)
            S == {k \in 0..n : upto(k) # {}}
<1>1. 0 \in S
  <2>1. [i \in 0..0 |-> base] \in upto(0)
    BY DEF LoopsOf
  <2>. QED
    BY <2>1
<1>2. ASSUME NEW k \in 1..n, k - 1 \in S
      PROVE  k \in S
  <2>1. PICK g \in [0..(k - 1) -> X] :
            g[0] = base /\ \A i \in 1..(k - 1) : g[i] = step[i][g[i - 1]]
    BY <1>2 DEF LoopsOf
  <2>. DEFINE h == [i \in 0..k |-> IF i = k THEN step[k][g[k - 1]] ELSE g[i]]
  <2>2. g[k - 1] \in X /\ step[k][g[k - 1]] \in X
    BY <2>1
  <2>3. h \in [0..k -> X]
    BY <2>1, <2>2
  <2>4. h[0] = base
    BY <2>1
  <2>5. ASSUME NEW i \in 1..k
        PROVE  h[i] = step[i][h[i - 1]]
    <3>1. i - 1 \in 0..k /\ i - 1 # k /\ h[i - 1] = g[i - 1]
      OBVIOUS
    <3>2. CASE i = k
      BY <3>1, <3>2
    <3>3. CASE i # k
      <4>1. i \in 1..(k - 1) /\ i \in 0..k
        BY <3>3
      <4>2. h[i] = g[i]
        BY <3>3, <4>1
      <4>. QED
        BY <2>1, <3>1, <4>1, <4>2
    <3>. QED
      BY <3>2, <3>3
  <2>. HIDE DEF h
  <2>6. h \in upto(k)
    BY <2>3, <2>4, <2>5 DEF LoopsOf
  <2>. QED
    BY <2>6
<1>3. \A k \in 0..n : k \in S
  <2>. HIDE DEF S
  <2>. QED
    BY <1>1, <1>2, UpTo
<1>. QED
  BY <1>3

\* The numbers of a set up to the next one
LEMMA OneMore ==
    ASSUME NEW A, NEW k \in Nat
    PROVE  /\ IsFiniteSet(A \cap 1..k)
           /\ Cardinality(A \cap 1..k) \in Nat
           /\ Cardinality(A \cap 1..(k + 1))
                = Cardinality(A \cap 1..k) + (IF k + 1 \in A THEN 1 ELSE 0)
<1>1. IsFiniteSet(A \cap 1..k) /\ Cardinality(A \cap 1..k) \in Nat
  <2>1. IsFiniteSet(1..k) /\ A \cap 1..k \in SUBSET (1..k)
    BY FS_Interval
  <2>2. IsFiniteSet(A \cap 1..k)
    BY <2>1, FS_Subset
  <2>. QED
    BY <2>2, FS_CardinalityType
<1>2. CASE k + 1 \in A
  <2>1. A \cap 1..(k + 1) = (A \cap 1..k) \cup {k + 1} /\ k + 1 \notin A \cap 1..k
    BY <1>2
  <2>. QED
    BY <1>1, <1>2, <2>1, FS_AddElement
<1>3. CASE k + 1 \notin A
  <2>1. A \cap 1..(k + 1) = A \cap 1..k
    BY <1>3
  <2>. QED
    BY <1>1, <1>3, <2>1
<1>. QED
  BY <1>1, <1>2, <1>3

\* An event that is appended is counted.
LEMMA CountAppend ==
    ASSUME NEW S, NEW s \in Seq(S), NEW e \in S, NEW type
    PROVE  /\ Append(s, e) \in Seq(S) /\ Count(s, type) \in Nat
           /\ Count(Append(s, e), type) = Count(s, type) + (IF e = type THEN 1 ELSE 0)
<1>. DEFINE u == Append(s, e)
            n == Len(s)
            A == {i \in 1..(n + 1) : u[i] = type}
<1>1. /\ n \in Nat /\ DOMAIN s = 1..n /\ u \in Seq(S) /\ DOMAIN u = 1..(n + 1)
      /\ u[n + 1] = e /\ \A i \in 1..n : u[i] = s[i]
  OBVIOUS
<1>. HIDE DEF u, n
<1>2. {i \in DOMAIN u : u[i] = type} = A \cap 1..(n + 1)
  BY <1>1
<1>3. {i \in DOMAIN s : s[i] = type} = A \cap 1..n
  BY <1>1
<1>4. n + 1 \in A <=> e = type
  BY <1>1
<1>. HIDE DEF A
<1>5. /\ Cardinality(A \cap 1..n) \in Nat
      /\ Cardinality(A \cap 1..(n + 1))
            = Cardinality(A \cap 1..n) + (IF n + 1 \in A THEN 1 ELSE 0)
  BY <1>1, OneMore
<1>6. Count(u, type) = Count(s, type) + (IF e = type THEN 1 ELSE 0) /\ Count(s, type) \in Nat
  BY <1>2, <1>3, <1>4, <1>5 DEF Count
<1>. QED
  BY <1>1, <1>6 DEF u

\* No events
LEMMA CountEmpty == ASSUME NEW type PROVE Count(<<>>, type) = 0
<1>1. {i \in DOMAIN <<>> : <<>>[i] = type} = {}
  OBVIOUS
<1>. QED
  BY <1>1, FS_EmptySet DEF Count

\* The events of two lists
LEMMA CountConcat ==
    ASSUME NEW S, NEW s \in Seq(S), NEW u \in Seq(S), NEW type
    PROVE  s \o u \in Seq(S) /\ Count(s \o u, type) = Count(s, type) + Count(u, type)
<1>. DEFINE n == Len(s)
            m == Len(u)
            w == s \o u
            A == {i \in 1..n : s[i] = type}
            B == {i \in 1..m : u[i] = type}
            f == [i \in 1..m |-> i + n]
            C == {f[i] : i \in B}
<1>1. /\ n \in Nat /\ DOMAIN s = 1..n /\ m \in Nat /\ DOMAIN u = 1..m
      /\ w \in Seq(S) /\ DOMAIN w = 1..(n + m)
      /\ \A i \in 1..n : w[i] = s[i]
      /\ \A i \in 1..m : w[i + n] = u[i]
  OBVIOUS
<1>. HIDE DEF n, m, w
<1>2. IsFiniteSet(A) /\ IsFiniteSet(B)
  <2>1. IsFiniteSet(1..n) /\ IsFiniteSet(1..m)
    BY <1>1, FS_Interval
  <2>. QED
    BY <2>1, FS_Subset
<1>3. {i \in 1..(n + m) : w[i] = type} = A \cup C
  <2>1. ASSUME NEW i \in 1..(n + m)
        PROVE  w[i] = type <=> i \in A \cup C
    <3>1. CASE i <= n
      <4>1. i \in 1..n /\ \A j \in 1..m : f[j] # i
        BY <1>1, <3>1
      <4>2. i \notin C
        BY <4>1
      <4>. QED
        BY <1>1, <4>1, <4>2
    <3>2. CASE i > n
      <4>1. i - n \in 1..m /\ f[i - n] = i /\ i \notin 1..n
        BY <1>1, <3>2
      <4>2. \A j \in 1..m : f[j] = i => j = i - n
        BY <1>1
      <4>3. w[i] = u[i - n]
        BY <1>1, <4>1
      <4>4. i \notin A
        BY <4>1
      <4>5. i \in C <=> i - n \in B
        BY <4>1, <4>2
      <4>. QED
        BY <4>1, <4>3, <4>4, <4>5
    <3>. QED
      BY <1>1, <3>1, <3>2
  <2>2. A \cup C \subseteq 1..(n + m)
    BY <1>1
  <2>. QED
    BY <2>1, <2>2
<1>4. A \cap C = {}
  BY <1>1
<1>5. \A x, y \in B : f[x] = f[y] => x = y
  BY <1>1
<1>6. IsFiniteSet(C) /\ Cardinality(C) = Cardinality(B)
  <2>. HIDE DEF f, B
  <2>. QED
    BY <1>2, <1>5, ImageSize
<1>7. Cardinality(A) \in Nat /\ Cardinality(B) \in Nat /\ Cardinality({}) = 0
  BY <1>2, FS_CardinalityType, FS_EmptySet
<1>. HIDE DEF A, B, C, f
<1>8. Cardinality(A \cup C) = Cardinality(A) + Cardinality(B)
  <2>1. Cardinality(A \cup C) = Cardinality(A) + Cardinality(C) - Cardinality(A \cap C)
    BY <1>2, <1>6, FS_Union
  <2>2. Cardinality(A \cap C) = 0
    BY <1>4, <1>7
  <2>3. Cardinality(C) = Cardinality(B)
    BY <1>6
  <2>. QED
    BY <1>7, <2>1, <2>2, <2>3
<1>9. Count(w, type) = Count(s, type) + Count(u, type)
  BY <1>1, <1>3, <1>8 DEF Count, A, B
<1>. QED
  BY <1>1, <1>9 DEF w

\* The loop of the proximity events goes from frame to frame.
LEMMA ProximityIs ==
    ASSUME NEW series, Len(series) \in Nat
    PROVE  LET after == ProximityLoop(series)
           IN  /\ after[0] = [in_collision |-> FALSE, in_comfort |-> FALSE, out |-> <<>>]
               /\ \A i \in 1..Len(series) :
                        after[i] = ProximityFrame(after[i - 1], series[i])
               /\ \A i \in 0..Len(series) : after[i].out \in Seq({"NEAR_COLLISION", "SOCIAL_INTRUSION"})
<1>. DEFINE n == Len(series)
            X == [in_collision : BOOLEAN, in_comfort : BOOLEAN,
                  out : Seq({"NEAR_COLLISION", "SOCIAL_INTRUSION"})]
            base == [in_collision |-> FALSE, in_comfort |-> FALSE, out |-> <<>>]
            step == [i \in 1..n |-> [s \in X |-> ProximityFrame(s, series[i])]]
            after == ProximityLoop(series)
<1>1. base \in X /\ n \in Nat
  OBVIOUS
<1>2. ASSUME NEW s \in X, NEW dist
      PROVE  ProximityFrame(s, dist) \in X
  BY DEF ProximityFrame, EnterZone
<1>3. step \in [1..n -> [X -> X]]
  BY <1>2
<1>4. PICK g \in [0..n -> X] : g[0] = base /\ \A i \in 1..n : g[i] = step[i][g[i - 1]]
  <2>1. LoopsOf(X, n, base, step) # {}
    <3>. HIDE DEF X, step, base, n
    <3>. QED
      BY <1>1, <1>3, LoopExists
  <2>. QED
    BY <2>1 DEF LoopsOf
<1>5. ASSUME NEW i \in 1..n
      PROVE  g[i] = ProximityFrame(g[i - 1], series[i]) /\ g[i - 1] \in X
  <2>1. g[i - 1] \in X
    BY <1>4
  <2>. QED
    BY <1>4, <2>1
<1>6. g = [i \in 0..n |-> IF i = 0 THEN base ELSE ProximityFrame(g[i - 1], series[i])]
  <2>1. \A i \in 0..n : g[i] = IF i = 0 THEN base ELSE ProximityFrame(g[i - 1], series[i])
    <3>. HIDE DEF X, base, n
    <3>. QED
      BY <1>4, <1>5
  <2>. QED
    BY <1>4, <2>1
<1>7. after = [i \in 0..n |-> IF i = 0 THEN base ELSE ProximityFrame(after[i - 1], series[i])]
  BY <1>6 DEF ProximityLoop
<1>. HIDE DEF after
<1>8. after[0] = base /\ \A i \in 1..n : after[i] = ProximityFrame(after[i - 1], series[i])
  <2>1. \A i \in 0..n : after[i] = IF i = 0 THEN base ELSE ProximityFrame(after[i - 1], series[i])
    BY <1>7, Zenon
  <2>2. 0 \in 0..n /\ \A i \in 1..n : i \in 0..n /\ i # 0
    BY <1>1
  <2>. HIDE DEF n, base
  <2>. QED
    BY <2>1, <2>2
<1>9. \A k \in 0..n : after[k] \in X
  <2>. DEFINE S == {k \in 0..n : after[k] \in X}
  <2>1. 0 \in S
    <3>1. 0 \in 0..n
      BY <1>1
    <3>2. after[0] \in X
      <4>. HIDE DEF X, base
      <4>. QED
        BY <1>1, <1>8
    <3>. HIDE DEF X, n, base
    <3>. QED
      BY <3>1, <3>2
  <2>2. ASSUME NEW k \in 1..n, k - 1 \in S
        PROVE  k \in S
    <3>1. k \in 0..n /\ after[k - 1] \in X
      BY <2>2
    <3>. HIDE DEF X
    <3>. QED
      BY <1>2, <1>8, <3>1
  <2>3. \A k \in 0..n : k \in S
    <3>. HIDE DEF S, n
    <3>. QED
      BY <1>1, <2>1, <2>2, UpTo
  <2>. QED
    BY <2>3
<1>10. \A k \in 0..n : after[k].out \in Seq({"NEAR_COLLISION", "SOCIAL_INTRUSION"})
  BY <1>9
<1>. QED
  BY <1>8, <1>10 DEF after

\* A frame adds an event for each zone that is entered.
LEMMA FrameCounts ==
    ASSUME NEW s, s.out \in Seq({"NEAR_COLLISION", "SOCIAL_INTRUSION"}), NEW dist
    PROVE  LET near == dist # None /\ dist < CollisionDist
               soc  == dist # None /\ dist < ComfortDist
               t    == ProximityFrame(s, dist)
           IN  /\ t.in_collision = near /\ t.in_comfort = soc
               /\ Count(t.out, "NEAR_COLLISION") = Count(s.out, "NEAR_COLLISION")
                        + (IF near /\ ~ s.in_collision THEN 1 ELSE 0)
               /\ Count(t.out, "SOCIAL_INTRUSION") = Count(s.out, "SOCIAL_INTRUSION")
                        + (IF soc /\ ~ s.in_comfort THEN 1 ELSE 0)
<1>. DEFINE T == {"NEAR_COLLISION", "SOCIAL_INTRUSION"}
            near == dist # None /\ dist < CollisionDist
            soc  == dist # None /\ dist < ComfortDist
            out1 == IF near THEN EnterZone(s.out, "NEAR_COLLISION", s.in_collision) ELSE s.out
            out2 == IF soc THEN EnterZone(out1, "SOCIAL_INTRUSION", s.in_comfort) ELSE out1
<1>1. ASSUME NEW out \in Seq(T), NEW e \in T, NEW inside, NEW type \in T
      PROVE  LET u == EnterZone(out, e, inside)
             IN  /\ u \in Seq(T) /\ Count(out, type) \in Nat /\ Count(u, type) \in Nat
                 /\ Count(u, type) = Count(out, type)
                        + (IF ~ inside /\ e = type THEN 1 ELSE 0)
  <2>. HIDE DEF T
  <2>1. /\ Append(out, e) \in Seq(T) /\ Count(out, type) \in Nat
        /\ Count(Append(out, e), type) = Count(out, type) + (IF e = type THEN 1 ELSE 0)
    BY CountAppend
  <2>. QED
    BY <2>1 DEF EnterZone
<1>2. s.out \in Seq(T)
  OBVIOUS
<1>3. "NEAR_COLLISION" \in T /\ "SOCIAL_INTRUSION" \in T
  OBVIOUS
<1>4. ProximityFrame(s, dist) = [in_collision |-> near, in_comfort |-> soc, out |-> out2]
  BY DEF ProximityFrame
<1>. HIDE DEF T, near, soc
<1>5. \A type \in T :
            /\ out1 \in Seq(T) /\ Count(out1, type) \in Nat /\ Count(s.out, type) \in Nat
            /\ Count(out1, type) = Count(s.out, type)
                    + (IF near /\ ~ s.in_collision /\ "NEAR_COLLISION" = type THEN 1 ELSE 0)
  <2>1. CASE near
    BY <1>1, <1>2, <1>3, <2>1
  <2>2. CASE ~ near
    <3>1. out1 = s.out
      BY <2>2
    <3>. HIDE DEF out1
    <3>2. \A type \in T : Count(s.out, type) \in Nat
      BY <1>1, <1>2, <1>3
    <3>. QED
      BY <1>2, <2>2, <3>1, <3>2
  <2>. QED
    BY <2>1, <2>2
<1>. HIDE DEF out1
<1>6. \A type \in T :
            Count(out2, type) = Count(out1, type)
                    + (IF soc /\ ~ s.in_comfort /\ "SOCIAL_INTRUSION" = type THEN 1 ELSE 0)
  <2>1. CASE soc
    BY <1>1, <1>3, <1>5, <2>1
  <2>2. CASE ~ soc
    BY <1>5, <2>2
  <2>. QED
    BY <2>1, <2>2
<1>. HIDE DEF out2
<1>8. Count(out2, "NEAR_COLLISION") = Count(s.out, "NEAR_COLLISION")
            + (IF near /\ ~ s.in_collision THEN 1 ELSE 0)
  BY <1>3, <1>5, <1>6
<1>9. Count(out2, "SOCIAL_INTRUSION") = Count(s.out, "SOCIAL_INTRUSION")
            + (IF soc /\ ~ s.in_comfort THEN 1 ELSE 0)
  <2>1. Count(out1, "SOCIAL_INTRUSION") = Count(s.out, "SOCIAL_INTRUSION")
    BY <1>3, <1>5
  <2>. QED
    BY <1>3, <1>6, <2>1
<1>. QED
  BY <1>4, <1>8, <1>9 DEF near, soc

\* As far as the loop has come, it has an event for every stretch of frames in a zone.
LEMMA ProximityCounts ==
    ASSUME NEW series, Len(series) \in Nat
    PROVE  LET Below(dist) == {i \in 1..Len(series) : series[i] # None /\ series[i] < dist}
               events == ProximityLoop(series)[Len(series)].out
           IN  /\ events \in Seq({"NEAR_COLLISION", "SOCIAL_INTRUSION"})
               /\ Count(events, "NEAR_COLLISION") = Stretches(Below(CollisionDist))
               /\ Count(events, "SOCIAL_INTRUSION") = Stretches(Below(ComfortDist))
<1>. DEFINE n == Len(series)
            T == {"NEAR_COLLISION", "SOCIAL_INTRUSION"}
            after == ProximityLoop(series)
            Below(dist) == {i \in 1..n : series[i] # None /\ series[i] < dist}
            near == Below(CollisionDist)
            soc == Below(ComfortDist)
            Begins(A) == {i \in A : i - 1 \notin A}
            S == {k \in 0..n :
                    /\ after[k].in_collision <=> k \in near
                    /\ after[k].in_comfort <=> k \in soc
                    /\ Count(after[k].out, "NEAR_COLLISION") = Cardinality(Begins(near) \cap 1..k)
                    /\ Count(after[k].out, "SOCIAL_INTRUSION") = Cardinality(Begins(soc) \cap 1..k)}
<1>1. /\ after[0] = [in_collision |-> FALSE, in_comfort |-> FALSE, out |-> <<>>]
      /\ \A i \in 1..n : after[i] = ProximityFrame(after[i - 1], series[i])
      /\ \A i \in 0..n : after[i].out \in Seq(T)
  BY ProximityIs
<1>2. n \in Nat /\ near \subseteq 1..n /\ soc \subseteq 1..n
  OBVIOUS
<1>3. \A i \in 1..n : /\ i \in near <=> series[i] # None /\ series[i] < CollisionDist
                      /\ i \in soc <=> series[i] # None /\ series[i] < ComfortDist
  OBVIOUS
<1>. HIDE DEF n, T, after, near, soc
<1>4. 0 \in S
  <2>1. 0 \in 0..n /\ 0 \notin near /\ 0 \notin soc
    BY <1>2
  <2>2. \A A : A \cap 1..0 = {}
    OBVIOUS
  <2>3. \A A : Cardinality(A \cap 1..0) = 0
    BY <2>2, FS_EmptySet
  <2>4. after[0].out = <<>> /\ ~ after[0].in_collision /\ ~ after[0].in_comfort
    BY <1>1
  <2>. QED
    BY <2>1, <2>3, <2>4, CountEmpty
<1>5. ASSUME NEW k \in 1..n, k - 1 \in S
      PROVE  k \in S
  <2>. DEFINE s == after[k - 1]
              t == after[k]
  <2>1. k \in 0..n /\ k - 1 \in Nat /\ (k - 1) + 1 = k /\ k - 1 \in 0..n
    BY <1>2
  <2>2. s.out \in Seq(T) /\ t = ProximityFrame(s, series[k])
    BY <1>1, <2>1
  <2>. HIDE DEF s, t
  <2>3. /\ t.in_collision = (series[k] # None /\ series[k] < CollisionDist)
        /\ t.in_comfort = (series[k] # None /\ series[k] < ComfortDist)
        /\ Count(t.out, "NEAR_COLLISION") = Count(s.out, "NEAR_COLLISION")
            + (IF series[k] # None /\ series[k] < CollisionDist /\ ~ s.in_collision THEN 1 ELSE 0)
        /\ Count(t.out, "SOCIAL_INTRUSION") = Count(s.out, "SOCIAL_INTRUSION")
            + (IF series[k] # None /\ series[k] < ComfortDist /\ ~ s.in_comfort THEN 1 ELSE 0)
    BY <2>2, FrameCounts DEF T
  <2>4. /\ s.in_collision <=> k - 1 \in near
        /\ s.in_comfort <=> k - 1 \in soc
        /\ Count(s.out, "NEAR_COLLISION") = Cardinality(Begins(near) \cap 1..(k - 1))
        /\ Count(s.out, "SOCIAL_INTRUSION") = Cardinality(Begins(soc) \cap 1..(k - 1))
    BY <1>5 DEF s
  <2>5. \A A : Cardinality(A \cap 1..k)
                    = Cardinality(A \cap 1..(k - 1)) + (IF k \in A THEN 1 ELSE 0)
    <3>1. \A A : Cardinality(A \cap 1..((k - 1) + 1))
                    = Cardinality(A \cap 1..(k - 1)) + (IF (k - 1) + 1 \in A THEN 1 ELSE 0)
      BY <2>1, OneMore
    <3>. QED
      BY <2>1, <3>1
  <2>6. /\ t.in_collision <=> k \in near
        /\ t.in_comfort <=> k \in soc
    BY <1>3, <2>3
  <2>7. Count(t.out, "NEAR_COLLISION") = Cardinality(Begins(near) \cap 1..k)
    <3>1. k \in Begins(near) <=> series[k] # None /\ series[k] < CollisionDist /\ ~ s.in_collision
      BY <1>3, <2>4
    <3>. HIDE DEF Begins
    <3>. QED
      BY <2>3, <2>4, <2>5, <3>1
  <2>8. Count(t.out, "SOCIAL_INTRUSION") = Cardinality(Begins(soc) \cap 1..k)
    <3>1. k \in Begins(soc) <=> series[k] # None /\ series[k] < ComfortDist /\ ~ s.in_comfort
      BY <1>3, <2>4
    <3>. HIDE DEF Begins
    <3>. QED
      BY <2>3, <2>4, <2>5, <3>1
  <2>. HIDE DEF Begins
  <2>. QED
    BY <2>1, <2>6, <2>7, <2>8 DEF t
<1>6. n \in S
  <2>1. \A k \in 0..n : k \in S
    <3>. HIDE DEF S
    <3>. QED
      BY <1>2, <1>4, <1>5, UpTo
  <2>2. n \in 0..n
    BY <1>2
  <2>. QED
    BY <2>1, <2>2
<1>7. Begins(near) \cap 1..n = Begins(near) /\ Begins(soc) \cap 1..n = Begins(soc)
  BY <1>2
<1>8. /\ Count(after[n].out, "NEAR_COLLISION") = Stretches(near)
      /\ Count(after[n].out, "SOCIAL_INTRUSION") = Stretches(soc)
  BY <1>6, <1>7 DEF Stretches
<1>9. after[n].out \in Seq(T)
  BY <1>1, <1>2
<1>. QED
  BY <1>8, <1>9 DEF n, T, after, near, soc

\* There is a stretch if and only if there is anything.
LEMMA SomeStretch ==
    ASSUME NEW n \in Nat, NEW A, A \subseteq 1..n
    PROVE  Stretches(A) \in Nat /\ (Stretches(A) > 0 <=> A # {})
<1>. DEFINE B == {i \in A : i - 1 \notin A}
<1>1. IsFiniteSet(B)
  <2>1. IsFiniteSet(1..n)
    BY FS_Interval
  <2>2. B \in SUBSET (1..n)
    OBVIOUS
  <2>. QED
    BY <2>1, <2>2, FS_Subset
<1>2. Cardinality(B) \in Nat /\ (Cardinality(B) = 0 <=> B = {})
  BY <1>1, FS_CardinalityType, FS_EmptySet
<1>3. ASSUME A # {}
      PROVE  B # {}
  <2>0. A \subseteq Nat
    OBVIOUS
  <2>1. Min(A) \in A /\ \A y \in A : Min(A) <= y
    BY <1>3, <2>0, LeastOf
  <2>2. Min(A) - 1 \notin A
    <3>1. \A y \in A : y \in Nat /\ ~ (y <= y - 1)
      OBVIOUS
    <3>. QED
      BY <2>1, <3>1
  <2>. QED
    BY <2>1, <2>2
<1>. QED
  BY <1>2, <1>3 DEF Stretches

\* The events of _stop_events and the variables of its loop
StopTypes == {"ROBOT_STOPPED", "ROBOT_RESUMED", "PROLONGED_STOP"}

StopStates == [stopped : BOOLEAN, since : Nat, flagged : BOOLEAN, out : Seq(StopTypes)]

\* A sample adds an event if the robot comes to a stop, drives on, or has stood for long.
LEMMA SampleCounts ==
    ASSUME NEW s \in StopStates, NEW o \in Shots
    PROVE  LET t    == StopSample(s, o)
               slow == o.v < StopSpeed
               late == slow /\ s.stopped /\ ~ s.flagged /\ o.t - s.since >= ProlongedStop
               Adds(type) == \/ type = "ROBOT_STOPPED" /\ slow /\ ~ s.stopped
                             \/ type = "ROBOT_RESUMED" /\ ~ slow /\ s.stopped
                             \/ type = "PROLONGED_STOP" /\ late
           IN  /\ t \in StopStates /\ (t.stopped <=> slow)
               /\ \A type \in StopTypes :
                    /\ Count(s.out, type) \in Nat
                    /\ Count(t.out, type) = Count(s.out, type) + (IF Adds(type) THEN 1 ELSE 0)
               /\ slow => /\ t.since = IF s.stopped THEN s.since ELSE o.t
                          /\ t.flagged <=> s.stopped /\ (s.flagged \/ late)
<1>. DEFINE t    == StopSample(s, o)
            slow == o.v < StopSpeed
            late == slow /\ s.stopped /\ ~ s.flagged /\ o.t - s.since >= ProlongedStop
            Adds(type) == \/ type = "ROBOT_STOPPED" /\ slow /\ ~ s.stopped
                          \/ type = "ROBOT_RESUMED" /\ ~ slow /\ s.stopped
                          \/ type = "PROLONGED_STOP" /\ late
<1>1. /\ StopSpeed \in Nat /\ ProlongedStop \in Nat /\ o.v \in Int /\ o.t \in Nat
      /\ s.out \in Seq(StopTypes) /\ s.stopped \in BOOLEAN /\ s.flagged \in BOOLEAN
      /\ s.since \in Nat
  BY AnalysisAssumption DEF StopStates, Shots
<1>2. ASSUME NEW e \in StopTypes, NEW type
      PROVE  /\ Append(s.out, e) \in Seq(StopTypes) /\ Count(s.out, type) \in Nat
             /\ Count(Append(s.out, e), type) = Count(s.out, type) + (IF e = type THEN 1 ELSE 0)
  BY <1>1, CountAppend
<1>3. \A type : Count(s.out, type) \in Nat
  BY <1>2 DEF StopTypes
<1>4. ASSUME NEW on \in BOOLEAN, NEW e \in StopTypes,
             t.out = IF on THEN Append(s.out, e) ELSE s.out,
             \A type \in StopTypes : Adds(type) <=> on /\ type = e
      PROVE  /\ t.out \in Seq(StopTypes)
             /\ \A type \in StopTypes :
                    Count(t.out, type) = Count(s.out, type) + (IF Adds(type) THEN 1 ELSE 0)
  <2>. HIDE DEF t, Adds
  <2>1. CASE on
    BY <1>2, <1>4, <2>1
  <2>2. CASE ~ on
    BY <1>1, <1>3, <1>4, <2>2
  <2>. QED
    BY <2>1, <2>2
<1>5. \A e \in StopTypes : e \in {"ROBOT_STOPPED", "ROBOT_RESUMED", "PROLONGED_STOP"}
  BY DEF StopTypes
<1>6. CASE ~ slow
  <2>1. t = [s EXCEPT !.out = IF s.stopped THEN Append(@, "ROBOT_RESUMED") ELSE @,
                      !.stopped = FALSE]
    BY <1>1, <1>6 DEF StopSample
  <2>2. /\ t.out = IF s.stopped THEN Append(s.out, "ROBOT_RESUMED") ELSE s.out
        /\ ~ t.stopped
    BY <2>1 DEF StopStates
  <2>3. \A type \in StopTypes : Adds(type) <=> s.stopped /\ type = "ROBOT_RESUMED"
    BY <1>5, <1>6
  <2>4. /\ t.out \in Seq(StopTypes)
        /\ \A type \in StopTypes :
                Count(t.out, type) = Count(s.out, type) + (IF Adds(type) THEN 1 ELSE 0)
    <3>. HIDE DEF t, Adds
    <3>. QED
      BY <1>1, <1>4, <2>2, <2>3 DEF StopTypes
  <2>5. t \in StopStates
    BY <1>1, <2>1, <2>2, <2>4 DEF StopStates
  <2>. QED
    BY <1>3, <1>6, <2>2, <2>4, <2>5
<1>7. CASE slow /\ ~ s.stopped
  <2>1. t = [stopped |-> TRUE, since |-> o.t, flagged |-> FALSE,
             out |-> Append(s.out, "ROBOT_STOPPED")]
    BY <1>1, <1>7 DEF StopSample
  <2>2. \A type \in StopTypes : Adds(type) <=> TRUE /\ type = "ROBOT_STOPPED"
    BY <1>5, <1>7
  <2>3. /\ t.out \in Seq(StopTypes)
        /\ \A type \in StopTypes :
                Count(t.out, type) = Count(s.out, type) + (IF Adds(type) THEN 1 ELSE 0)
    <3>1. t.out = IF TRUE THEN Append(s.out, "ROBOT_STOPPED") ELSE s.out
      BY <2>1
    <3>. HIDE DEF t, Adds
    <3>. QED
      BY <1>4, <2>2, <3>1 DEF StopTypes
  <2>4. t \in StopStates
    BY <1>1, <2>1, <2>3 DEF StopStates
  <2>. QED
    BY <1>3, <1>7, <2>1, <2>3, <2>4
<1>8. CASE late
  <2>1. t = [s EXCEPT !.flagged = TRUE, !.out = Append(@, "PROLONGED_STOP")]
    BY <1>1, <1>8 DEF StopSample
  <2>2. /\ t.out = IF TRUE THEN Append(s.out, "PROLONGED_STOP") ELSE s.out
        /\ t.stopped = s.stopped /\ t.since = s.since /\ t.flagged
    BY <2>1 DEF StopStates
  <2>3. \A type \in StopTypes : Adds(type) <=> TRUE /\ type = "PROLONGED_STOP"
    BY <1>5, <1>8
  <2>4. /\ t.out \in Seq(StopTypes)
        /\ \A type \in StopTypes :
                Count(t.out, type) = Count(s.out, type) + (IF Adds(type) THEN 1 ELSE 0)
    <3>. HIDE DEF t, Adds
    <3>. QED
      BY <1>4, <2>2, <2>3 DEF StopTypes
  <2>5. t \in StopStates
    BY <1>1, <2>1, <2>2, <2>4 DEF StopStates
  <2>. QED
    BY <1>3, <1>8, <2>2, <2>4, <2>5
<1>9. CASE slow /\ s.stopped /\ ~ late
  <2>1. t = s
    BY <1>1, <1>9 DEF StopSample
  <2>2. \A type \in StopTypes : ~ Adds(type)
    BY <1>5, <1>9
  <2>3. \A type \in StopTypes :
            Count(t.out, type) = Count(s.out, type) + (IF Adds(type) THEN 1 ELSE 0)
    <3>. HIDE DEF t, Adds
    <3>. QED
      BY <1>3, <2>1, <2>2
  <2>. QED
    BY <1>1, <1>3, <1>9, <2>1, <2>3
<1>. QED
  BY <1>6, <1>7, <1>8, <1>9

\* The loop of the stop events goes from sample to sample.
LEMMA StopIs ==
    ASSUME NEW odom \in Seq(Shots)
    PROVE  LET after == StopLoop(odom)
           IN  /\ after[0] = [stopped |-> FALSE, since |-> 0, flagged |-> FALSE, out |-> <<>>]
               /\ \A i \in 1..Len(odom) : after[i] = StopSample(after[i - 1], odom[i])
               /\ \A i \in 0..Len(odom) : after[i] \in StopStates
<1>. DEFINE n == Len(odom)
            X == StopStates
            base == [stopped |-> FALSE, since |-> 0, flagged |-> FALSE, out |-> <<>>]
            step == [i \in 1..n |-> [s \in X |-> StopSample(s, odom[i])]]
            after == StopLoop(odom)
<1>1. base \in X /\ n \in Nat /\ \A i \in 1..n : odom[i] \in Shots
  <2>1. base \in X
    BY DEF StopStates
  <2>. QED
    BY <2>1, SequenceIs
<1>2. ASSUME NEW s \in X, NEW i \in 1..n
      PROVE  StopSample(s, odom[i]) \in X
  BY <1>1, SampleCounts
<1>3. step \in [1..n -> [X -> X]]
  <2>. HIDE DEF X, n
  <2>. QED
    BY <1>2
<1>4. PICK g \in [0..n -> X] : g[0] = base /\ \A i \in 1..n : g[i] = step[i][g[i - 1]]
  <2>1. LoopsOf(X, n, base, step) # {}
    <3>. HIDE DEF X, step, base, n
    <3>. QED
      BY <1>1, <1>3, LoopExists
  <2>. QED
    BY <2>1 DEF LoopsOf
<1>5. ASSUME NEW i \in 1..n
      PROVE  g[i] = StopSample(g[i - 1], odom[i])
  <2>1. g[i - 1] \in X
    BY <1>1, <1>4
  <2>. HIDE DEF X
  <2>. QED
    BY <1>4, <2>1
<1>6. g = [i \in 0..n |-> IF i = 0 THEN base ELSE StopSample(g[i - 1], odom[i])]
  <2>1. \A i \in 0..n : g[i] = IF i = 0 THEN base ELSE StopSample(g[i - 1], odom[i])
    <3>. HIDE DEF X, base, n
    <3>. QED
      BY <1>4, <1>5
  <2>. QED
    BY <1>4, <2>1
<1>7. after = [i \in 0..n |-> IF i = 0 THEN base ELSE StopSample(after[i - 1], odom[i])]
  BY <1>6 DEF StopLoop
<1>. HIDE DEF after
<1>8. after[0] = base /\ \A i \in 1..n : after[i] = StopSample(after[i - 1], odom[i])
  <2>1. \A i \in 0..n : after[i] = IF i = 0 THEN base ELSE StopSample(after[i - 1], odom[i])
    BY <1>7, Zenon
  <2>2. 0 \in 0..n /\ \A i \in 1..n : i \in 0..n /\ i # 0
    BY <1>1
  <2>. HIDE DEF n, base
  <2>. QED
    BY <2>1, <2>2
<1>9. \A k \in 0..n : after[k] \in X
  <2>. DEFINE S == {k \in 0..n : after[k] \in X}
  <2>. HIDE DEF X, base
  <2>1. 0 \in S
    BY <1>1, <1>8
  <2>2. ASSUME NEW k \in 1..n, k - 1 \in S
        PROVE  k \in S
    BY <1>1, <1>2, <1>8, <2>2
  <2>3. \A k \in 0..n : k \in S
    <3>. HIDE DEF S, n
    <3>. QED
      BY <1>1, <2>1, <2>2, UpTo
  <2>. QED
    BY <2>3
<1>. QED
  BY <1>8, <1>9 DEF after

\* As far as the loop has come, it has an event for every stop, one for every stop that has
\* ended, and one for every stop that has lasted.
LEMMA StopCounts ==
    ASSUME NEW odom \in Seq(Shots)
    PROVE  LET n      == Len(odom)
               slow   == {i \in 1..n : odom[i].v < StopSpeed}
               events == StopLoop(odom)[n].out
           IN  /\ events \in Seq(StopTypes)
               /\ Count(events, "ROBOT_STOPPED") = Stretches(slow)
               /\ Count(events, "ROBOT_RESUMED") =
                        Count(events, "ROBOT_STOPPED") - (IF n \in slow THEN 1 ELSE 0)
               /\ Count(events, "PROLONGED_STOP") =
                        Cardinality({i \in 1..n : ProlongedFrom(odom, i)})
<1>. DEFINE n == Len(odom)
            slow == {i \in 1..n : odom[i].v < StopSpeed}
            after == StopLoop(odom)
            Begins == {i \in slow : i - 1 \notin slow}
            Lasts(i, j) == (\A m \in i..j : m \in slow) /\ odom[j].t - odom[i].t >= ProlongedStop
            Long(k) == {i \in Begins : \E j \in (i + 1)..k : Lasts(i, j)}
            InStop(k) == \E b \in Begins :
                            /\ b <= k /\ \A m \in b..k : m \in slow
                            /\ after[k].since = odom[b].t
                            /\ after[k].flagged <=> b \in Long(k)
            S == {k \in 0..n :
                    /\ after[k].stopped <=> k \in slow
                    /\ Count(after[k].out, "ROBOT_STOPPED") = Cardinality(Begins \cap 1..k)
                    /\ Count(after[k].out, "ROBOT_RESUMED") =
                            Count(after[k].out, "ROBOT_STOPPED") - (IF k \in slow THEN 1 ELSE 0)
                    /\ Count(after[k].out, "PROLONGED_STOP") = Cardinality(Long(k))
                    /\ k \in slow => InStop(k)}
<1>1. /\ after[0] = [stopped |-> FALSE, since |-> 0, flagged |-> FALSE, out |-> <<>>]
      /\ \A i \in 1..n : after[i] = StopSample(after[i - 1], odom[i])
      /\ \A i \in 0..n : after[i] \in StopStates
  BY StopIs
<1>2. n \in Nat /\ DOMAIN odom = 1..n /\ \A i \in 1..n : odom[i] \in Shots
  BY SequenceIs
<1>3. slow \subseteq 1..n /\ \A i \in 1..n : i \in slow <=> odom[i].v < StopSpeed
  OBVIOUS
<1>4. \A i \in 1..n : odom[i].t \in Nat
  BY <1>2 DEF Shots
<1>. HIDE DEF n, slow, after
<1>5. Begins \subseteq 1..n /\ \A k : Long(k) \subseteq Begins
  BY <1>3
<1>6. \A k : IsFiniteSet(Long(k))
  <2>1. IsFiniteSet(1..n)
    BY <1>2, FS_Interval
  <2>2. \A k : Long(k) \in SUBSET (1..n)
    BY <1>5
  <2>. HIDE DEF Long
  <2>. QED
    BY <2>1, <2>2, FS_Subset
<1>7. 0 \in S
  <2>1. 0 \in 0..n /\ 0 \notin slow
    BY <1>2, <1>3
  <2>2. Begins \cap 1..0 = {} /\ Long(0) = {}
    <3>1. \A i \in Begins : i \in Nat /\ i >= 1
      BY <1>2, <1>5
    <3>2. \A i \in Begins : (i + 1)..0 = {}
      BY <3>1
    <3>. QED
      BY <3>2
  <2>3. Cardinality(Begins \cap 1..0) = 0 /\ Cardinality(Long(0)) = 0
    BY <2>2, FS_EmptySet
  <2>4. after[0].out = <<>> /\ ~ after[0].stopped
    BY <1>1
  <2>. HIDE DEF Begins, Long, InStop
  <2>. QED
    BY <2>1, <2>3, <2>4, CountEmpty
<1>8. ASSUME NEW k \in 1..n, k - 1 \in S
      PROVE  k \in S
  <2>. DEFINE s == after[k - 1]
              t == after[k]
              o == odom[k]
              late == k \in slow /\ s.stopped /\ ~ s.flagged /\ o.t - s.since >= ProlongedStop
  <2>1. k \in 0..n /\ k - 1 \in Nat /\ (k - 1) + 1 = k /\ k - 1 \in 0..n /\ k \in Nat
    BY <1>2
  <2>2. s \in StopStates /\ t = StopSample(s, o) /\ o \in Shots
    BY <1>1, <1>2, <2>1
  <2>3. k \in slow <=> o.v < StopSpeed
    BY <1>3
  <2>. HIDE DEF s, t, o
  <2>4. /\ t \in StopStates /\ (t.stopped <=> k \in slow)
        /\ Count(s.out, "ROBOT_STOPPED") \in Nat /\ Count(s.out, "ROBOT_RESUMED") \in Nat
        /\ Count(s.out, "PROLONGED_STOP") \in Nat
        /\ Count(t.out, "ROBOT_STOPPED") = Count(s.out, "ROBOT_STOPPED")
                + (IF k \in slow /\ ~ s.stopped THEN 1 ELSE 0)
        /\ Count(t.out, "ROBOT_RESUMED") = Count(s.out, "ROBOT_RESUMED")
                + (IF k \notin slow /\ s.stopped THEN 1 ELSE 0)
        /\ Count(t.out, "PROLONGED_STOP") = Count(s.out, "PROLONGED_STOP")
                + (IF late THEN 1 ELSE 0)
        /\ k \in slow => /\ t.since = IF s.stopped THEN s.since ELSE o.t
                         /\ t.flagged <=> s.stopped /\ (s.flagged \/ late)
    BY <2>2, <2>3, SampleCounts DEF StopTypes
  <2>5. /\ s.stopped <=> k - 1 \in slow
        /\ Count(s.out, "ROBOT_STOPPED") = Cardinality(Begins \cap 1..(k - 1))
        /\ Count(s.out, "ROBOT_RESUMED") =
                Count(s.out, "ROBOT_STOPPED") - (IF k - 1 \in slow THEN 1 ELSE 0)
        /\ Count(s.out, "PROLONGED_STOP") = Cardinality(Long(k - 1))
        /\ k - 1 \in slow =>
                \E b \in Begins : /\ b <= k - 1 /\ \A m \in b..(k - 1) : m \in slow
                                  /\ s.since = odom[b].t
                                  /\ s.flagged <=> b \in Long(k - 1)
    <3>. HIDE DEF Begins, Long
    <3>. QED
      BY <1>8 DEF s
  <2>6. Count(t.out, "ROBOT_STOPPED") = Cardinality(Begins \cap 1..k)
    <3>1. Cardinality(Begins \cap 1..((k - 1) + 1))
            = Cardinality(Begins \cap 1..(k - 1)) + (IF (k - 1) + 1 \in Begins THEN 1 ELSE 0)
      <4>. HIDE DEF Begins
      <4>. QED
        BY <2>1, OneMore
    <3>2. k \in Begins <=> k \in slow /\ ~ s.stopped
      BY <2>5
    <3>. HIDE DEF Begins
    <3>. QED
      BY <2>1, <2>4, <2>5, <3>1, <3>2
  <2>7. Count(t.out, "ROBOT_RESUMED") =
            Count(t.out, "ROBOT_STOPPED") - (IF k \in slow THEN 1 ELSE 0)
    <3>. HIDE DEF Begins, Long
    <3>1. CASE k \in slow
      BY <2>4, <2>5, <3>1
    <3>2. CASE k \notin slow
      BY <2>4, <2>5, <3>2
    <3>. QED
      BY <3>1, <3>2
  <2>8. \A i \in Begins : i \in 1..n /\ i \in slow /\ i - 1 \notin slow
    BY <1>5
  <2>9. ASSUME NEW i \in Begins
        PROVE  i \in Long(k) <=> i \in Long(k - 1) \/ (i < k /\ Lasts(i, k))
    <3>. HIDE DEF Lasts, Begins
    <3>1. i \in Int
      BY <2>8
    <3>2. \A j : j \in (i + 1)..k <=> j \in (i + 1)..(k - 1) \/ (j = k /\ i < k)
      BY <2>1, <3>1
    <3>. QED
      BY <3>2
  <2>10. CASE ~ (k \in slow /\ k - 1 \in slow)
    <3>1. ASSUME NEW i \in Begins
          PROVE  ~ (i < k /\ Lasts(i, k))
      <4>1. i < k => k \in i..k /\ k - 1 \in i..k
        BY <2>1, <2>8
      <4>. QED
        BY <2>10, <4>1
    <3>2. Long(k) = Long(k - 1)
      <4>1. \A i \in Begins : i \in Long(k) <=> i \in Long(k - 1)
        BY <2>9, <3>1
      <4>2. Long(k) \subseteq Begins /\ Long(k - 1) \subseteq Begins
        BY <1>5
      <4>. HIDE DEF Long, Begins
      <4>. QED
        BY <4>1, <4>2
    <3>3. ~ late
      BY <2>5, <2>10
    <3>4. Count(t.out, "PROLONGED_STOP") = Cardinality(Long(k))
      <4>. HIDE DEF Long, late
      <4>. QED
        BY <2>4, <2>5, <3>2, <3>3
    <3>5. k \in slow => InStop(k)
      <4>1. ASSUME k \in slow
            PROVE  InStop(k)
        <5>1. k \in Begins /\ ~ s.stopped /\ k <= k /\ \A m \in k..k : m \in slow
          BY <2>1, <2>5, <2>10, <4>1
        <5>2. after[k].since = odom[k].t /\ ~ after[k].flagged
          BY <2>4, <4>1, <5>1 DEF t, o
        <5>3. k \notin Long(k)
          <6>1. (k + 1)..k = {}
            BY <2>1
          <6>. QED
            BY <6>1
        <5>. HIDE DEF Begins, Long
        <5>. QED
          BY <5>1, <5>2, <5>3
      <4>. QED
        BY <4>1
    <3>. HIDE DEF Begins, Long, InStop
    <3>. QED
      BY <2>1, <2>4, <2>6, <2>7, <3>4, <3>5 DEF t
  <2>11. CASE k \in slow /\ k - 1 \in slow
    <3>1. PICK b \in Begins : /\ b <= k - 1 /\ \A m \in b..(k - 1) : m \in slow
                              /\ s.since = odom[b].t
                              /\ s.flagged <=> b \in Long(k - 1)
      <4>. HIDE DEF Begins, Long
      <4>. QED
        BY <2>5, <2>11
    <3>2. \A m \in b..k : m \in slow
      <4>1. \A m \in b..k : m \in b..(k - 1) \/ m = k
        BY <2>1, <2>8
      <4>. QED
        BY <2>11, <3>1, <4>1
    <3>3. ASSUME NEW i \in Begins, i < k, Lasts(i, k)
          PROVE  i = b
      <4>1. i \in Int /\ b \in Int /\ i - 1 \notin slow /\ b - 1 \notin slow
        BY <2>8
      <4>2. \A m \in i..k : m \in slow
        BY <3>3
      <4>3. i < b => b - 1 \in i..k
        BY <2>1, <3>1, <4>1
      <4>4. b < i => i - 1 \in b..k
        BY <2>1, <3>3, <4>1
      <4>. HIDE DEF Lasts, Begins
      <4>. QED
        BY <3>2, <4>1, <4>2, <4>3, <4>4
    <3>4. b < k /\ (Lasts(b, k) <=> o.t - s.since >= ProlongedStop)
      <4>1. b < k
        BY <2>1, <2>8, <3>1
      <4>. QED
        BY <3>1, <3>2, <4>1 DEF o
    <3>5. /\ b \in Long(k) <=> s.flagged \/ late
          /\ \A i \in Begins \ {b} : i \in Long(k) <=> i \in Long(k - 1)
      <4>1. s.stopped
        BY <2>5, <2>11
      <4>2. b \in Long(k) <=> b \in Long(k - 1) \/ Lasts(b, k)
        BY <2>9, <3>4
      <4>3. \A i \in Begins \ {b} : i \in Long(k) <=> i \in Long(k - 1)
        BY <2>9, <3>3
      <4>. HIDE DEF Long, Begins, Lasts
      <4>. QED
        BY <2>11, <3>1, <3>4, <4>1, <4>2, <4>3
    <3>6. Count(t.out, "PROLONGED_STOP") = Cardinality(Long(k))
      <4>1. Long(k) \subseteq Begins /\ Long(k - 1) \subseteq Begins
        BY <1>5
      <4>2. CASE late
        <5>1. b \notin Long(k - 1) /\ b \in Long(k)
          BY <3>1, <3>5, <4>2
        <5>. HIDE DEF Begins, Long, late
        <5>2. Long(k) = Long(k - 1) \cup {b}
          BY <3>5, <4>1, <5>1
        <5>3. Cardinality(Long(k)) = Cardinality(Long(k - 1)) + 1
          BY <1>6, <5>1, <5>2, FS_AddElement
        <5>. QED
          BY <2>4, <2>5, <4>2, <5>3
      <4>3. CASE ~ late
        <5>1. b \in Long(k - 1) <=> b \in Long(k)
          BY <3>1, <3>5, <4>3
        <5>. HIDE DEF Begins, Long, late
        <5>2. Long(k) = Long(k - 1)
          <6>1. \A i \in Begins : i \in Long(k) <=> i \in Long(k - 1)
            BY <3>5, <5>1
          <6>. QED
            BY <4>1, <6>1
        <5>. QED
          BY <2>4, <2>5, <4>3, <5>2
      <4>. QED
        BY <4>2, <4>3
    <3>7. InStop(k)
      <4>1. s.stopped
        BY <2>5, <2>11
      <4>2. t.since = odom[b].t /\ (t.flagged <=> b \in Long(k))
        <5>. HIDE DEF Begins, Long, late
        <5>. QED
          BY <2>4, <2>11, <3>1, <3>5, <4>1
      <4>3. b <= k
        BY <2>1, <2>8, <3>1
      <4>. HIDE DEF Begins, Long
      <4>. QED
        BY <3>2, <4>2, <4>3 DEF t
    <3>. HIDE DEF Begins, Long, InStop
    <3>. QED
      BY <2>1, <2>4, <2>6, <2>7, <3>6, <3>7 DEF t
  <2>. QED
    BY <2>10, <2>11
<1>9. n \in S
  <2>1. \A k \in 0..n : k \in S
    <3>. HIDE DEF S
    <3>. QED
      BY <1>2, <1>7, <1>8, UpTo
  <2>2. n \in 0..n
    BY <1>2
  <2>. QED
    BY <2>1, <2>2
<1>10. Begins \cap 1..n = Begins
  BY <1>5
<1>11. Long(n) = {i \in 1..n : ProlongedFrom(odom, i)}
  <2>1. StopSpeed \in Int /\ \A i \in 1..n : odom[i].v \in Int
    BY <1>2, AnalysisAssumption DEF Shots
  <2>2. ASSUME NEW i \in 1..n
        PROVE  i \in Begins <=>
                    odom[i].v < StopSpeed /\ (i > 1 => odom[i - 1].v >= StopSpeed)
    <3>1. CASE i = 1
      <4>1. 0 \notin slow
        BY <1>2, <1>3
      <4>. QED
        BY <1>3, <3>1, <4>1
    <3>2. CASE i # 1
      <4>1. i - 1 \in 1..n /\ i > 1
        BY <1>2, <3>2
      <4>. QED
        BY <1>3, <2>1, <4>1
    <3>. QED
      BY <3>1, <3>2
  <2>3. ASSUME NEW i \in 1..n, NEW j \in (i + 1)..n
        PROVE  (\A m \in i..j : m \in slow) <=> \A m \in i..j : odom[m].v < StopSpeed
    <3>1. \A m \in i..j : m \in 1..n
      BY <1>2
    <3>. QED
      BY <1>3, <3>1
  <2>4. ASSUME NEW i \in 1..n
        PROVE  i \in Long(n) <=> ProlongedFrom(odom, i)
    <3>1. (\E j \in (i + 1)..n : Lasts(i, j)) <=>
            \E j \in (i + 1)..n : /\ \A m \in i..j : odom[m].v < StopSpeed
                                  /\ odom[j].t - odom[i].t >= ProlongedStop
      BY <2>3
    <3>. HIDE DEF Begins, Lasts
    <3>. QED
      BY <2>2, <3>1 DEF ProlongedFrom, n
  <2>5. Long(n) \subseteq 1..n
    BY <1>5
  <2>. HIDE DEF Long
  <2>. QED
    BY <2>4, <2>5
<1>12. after[n].out \in Seq(StopTypes)
  BY <1>1, <1>2 DEF StopStates
<1>13. Cardinality(Begins) = Stretches(slow)
  BY DEF Stretches
<1>14. /\ Count(after[n].out, "ROBOT_STOPPED") = Stretches(slow)
       /\ Count(after[n].out, "ROBOT_RESUMED") =
                Count(after[n].out, "ROBOT_STOPPED") - (IF n \in slow THEN 1 ELSE 0)
       /\ Count(after[n].out, "PROLONGED_STOP") = Cardinality({i \in 1..n : ProlongedFrom(odom, i)})
  <2>. HIDE DEF Begins, Long, InStop
  <2>. QED
    BY <1>9, <1>10, <1>11, <1>13
<1>. QED
  BY <1>12, <1>14 DEF n, slow, after

\* Of what is no event of a list there is none in it.
LEMMA CountOthers ==
    ASSUME NEW S, NEW s \in Seq(S), NEW type, type \notin S
    PROVE  Count(s, type) = 0
<1>1. {i \in DOMAIN s : s[i] = type} = {}
  BY SequenceIs
<1>. QED
  BY <1>1, FS_EmptySet DEF Count

ProximityTypes == {"NEAR_COLLISION", "SOCIAL_INTRUSION"}

EventTypes == {"RUN_STARTED", "GOAL_REACHED", "RUN_FAILED"} \union ProximityTypes \union StopTypes

\* Whoever counts an event of one of the loops finds what that loop added.
LEMMA EventCounts ==
    ASSUME NEW rec, rec.odom \in Seq(Shots), rec.odom # <<>>, Len(ClearanceSeries(rec)) \in Nat
    PROVE  LET series == ClearanceSeries(rec)
               near   == ProximityLoop(series)[Len(series)].out
               stop   == StopLoop(rec.odom)[Len(rec.odom)].out
               events == DetectEvents(rec)
           IN  /\ \A type \in ProximityTypes : Count(events, type) = Count(near, type)
               /\ \A type \in StopTypes : Count(events, type) = Count(stop, type)
<1>. DEFINE series == ClearanceSeries(rec)
            near   == ProximityLoop(series)[Len(series)].out
            stop   == StopLoop(rec.odom)[Len(rec.odom)].out
            last   == IF rec.status = "SUCCEEDED" THEN "GOAL_REACHED" ELSE "RUN_FAILED"
            events == DetectEvents(rec)
<1>1. near \in Seq(ProximityTypes)
  BY ProximityCounts DEF ProximityTypes
<1>2. stop \in Seq(StopTypes)
  BY StopCounts
<1>3. events = <<"RUN_STARTED">> \o near \o stop \o <<last>>
  BY DEF DetectEvents, ProximityEvents, StopEvents
<1>. HIDE DEF near, stop, events
<1>4. near \in Seq(EventTypes) /\ stop \in Seq(EventTypes)
  <2>1. ASSUME NEW S, S \subseteq EventTypes, NEW s \in Seq(S)
        PROVE  s \in Seq(EventTypes)
    <3>1. /\ Len(s) \in Nat /\ s = [i \in 1..Len(s) |-> s[i]]
          /\ \A i \in 1..Len(s) : s[i] \in EventTypes
      BY <2>1
    <3>. QED
      BY <3>1, IsSequence
  <2>2. ProximityTypes \subseteq EventTypes /\ StopTypes \subseteq EventTypes
    BY DEF EventTypes
  <2>. QED
    BY <1>1, <1>2, <2>1, <2>2
<1>5. \A e \in EventTypes : <<e>> \in Seq(EventTypes)
  OBVIOUS
<1>6. "RUN_STARTED" \in EventTypes /\ last \in EventTypes
  BY DEF EventTypes
<1>7. ASSUME NEW e \in EventTypes, NEW type, type # e
      PROVE  Count(<<e>>, type) = 0
  <2>1. <<e>> \in Seq({e}) /\ type \notin {e}
    BY <1>7
  <2>. QED
    BY <2>1, CountOthers
<1>8. ASSUME NEW type, type \notin {"RUN_STARTED", last}
      PROVE  Count(events, type) = Count(near, type) + Count(stop, type)
  <2>. DEFINE s1 == <<"RUN_STARTED">> \o near
              s2 == s1 \o stop
  <2>1. Count(<<"RUN_STARTED">>, type) = 0 /\ Count(<<last>>, type) = 0
    BY <1>6, <1>7, <1>8
  <2>. HIDE DEF last
  <2>2. s1 \in Seq(EventTypes) /\ Count(s1, type) = Count(<<"RUN_STARTED">>, type) + Count(near, type)
    <3>. DEFINE first == <<"RUN_STARTED">>
    <3>1. first \in Seq(EventTypes)
      BY <1>5, <1>6
    <3>. HIDE DEF first
    <3>2. first \o near \in Seq(EventTypes) /\ Count(first \o near, type) = Count(first, type) + Count(near, type)
      BY <1>4, <3>1, CountConcat
    <3>. QED
      BY <3>2 DEF first
  <2>. HIDE DEF s1
  <2>3. s2 \in Seq(EventTypes) /\ Count(s2, type) = Count(s1, type) + Count(stop, type)
    BY <1>4, <2>2, CountConcat
  <2>. HIDE DEF s2
  <2>4. Count(s2 \o <<last>>, type) = Count(s2, type) + Count(<<last>>, type)
    <3>. DEFINE end == <<last>>
    <3>1. end \in Seq(EventTypes)
      BY <1>5, <1>6
    <3>. HIDE DEF end
    <3>2. Count(s2 \o end, type) = Count(s2, type) + Count(end, type)
      BY <2>3, <3>1, CountConcat
    <3>. QED
      BY <3>2 DEF end
  <2>5. events = s2 \o <<last>>
    BY <1>3 DEF s1, s2
  <2>6. Count(near, type) \in Nat /\ Count(stop, type) \in Nat
    BY <1>4, <1>6, CountAppend
  <2>. QED
    BY <2>1, <2>2, <2>3, <2>4, <2>5, <2>6
<1>9. \A type \in ProximityTypes \union StopTypes : type \notin {"RUN_STARTED", last}
  BY DEF ProximityTypes, StopTypes
<1>10. \A type \in ProximityTypes : Count(stop, type) = 0
  <2>1. \A type \in ProximityTypes : type \notin StopTypes
    BY DEF ProximityTypes, StopTypes
  <2>. QED
    BY <1>2, <2>1, CountOthers
<1>11. \A type \in StopTypes : Count(near, type) = 0
  <2>1. \A type \in StopTypes : type \notin ProximityTypes
    BY DEF ProximityTypes, StopTypes
  <2>. QED
    BY <1>1, <2>1, CountOthers
<1>12. \A type : Count(near, type) \in Nat /\ Count(stop, type) \in Nat
  BY <1>4, <1>6, CountAppend
<1>13. \A type \in ProximityTypes : Count(events, type) = Count(near, type)
  BY <1>8, <1>9, <1>10, <1>12
<1>14. \A type \in StopTypes : Count(events, type) = Count(stop, type)
  BY <1>8, <1>9, <1>11, <1>12
<1>. QED
  BY <1>13, <1>14 DEF near, stop, events

\* Row, events and label of a record tell the same story.
LEMMA RecordAgrees ==
    ASSUME NEW rec, rec.odom \in Seq(Shots), NEW People, rec.humans \in Seq(People), NEW goal
    PROVE  Agreement(rec, Compute(rec, goal), DetectEvents(rec))
<1>. DEFINE series == ClearanceSeries(rec)
            n      == Len(series)
            Below(dist) == {i \in 1..n : series[i] # None /\ series[i] < dist}
            row    == Compute(rec, goal)
            events == DetectEvents(rec)
            stops  == Count(events, "ROBOT_STOPPED")
            odom   == rec.odom
            slow   == {i \in 1..Len(odom) : odom[i].v < StopSpeed}
<1>1. n \in Nat /\ DOMAIN series = 1..n
  <2>1. CASE rec.odom = <<>>
    <3>1. series = <<>>
      BY <2>1 DEF ClearanceSeries
    <3>. QED
      BY <3>1
  <2>2. CASE rec.odom # <<>>
    <3>. DEFINE c(i) == MinClearance(NearestPose(rec.odom, rec.humans[i].t).x, rec.humans[i].people)
    <3>1. DOMAIN rec.humans = 1..Len(rec.humans) /\ Len(rec.humans) \in Nat
      BY SequenceIs
    <3>2. series = [i \in 1..Len(rec.humans) |-> c(i)]
      BY <2>2, <3>1 DEF ClearanceSeries
    <3>. HIDE DEF c, series
    <3>. QED
      BY <3>1, <3>2
  <2>. QED
    BY <2>1, <2>2
<1>2. Len(odom) \in Nat /\ DOMAIN odom = 1..Len(odom) /\ \A i \in 1..Len(odom) : odom[i] \in Shots
  BY SequenceIs
<1>3. /\ Stretches(Below(CollisionDist)) \in Nat /\ Stretches(Below(ComfortDist)) \in Nat
      /\ Stretches(Below(CollisionDist)) > 0 <=> Below(CollisionDist) # {}
      /\ Stretches(Below(ComfortDist)) > 0 <=> Below(ComfortDist) # {}
  <2>1. \A dist : Below(dist) \subseteq 1..n
    OBVIOUS
  <2>. HIDE DEF Below
  <2>. QED
    BY <1>1, <2>1, SomeStretch
<1>4. CASE odom = <<>>
  <2>1. series = <<>> /\ n = 0 /\ \A dist : Below(dist) = {}
    BY <1>4 DEF ClearanceSeries
  <2>2. events \in Seq({"RUN_STARTED", "NO_ODOM"})
    BY <1>4 DEF DetectEvents
  <2>3. \A type \in ProximityTypes \union StopTypes : Count(events, type) = 0
    <3>1. \A type \in ProximityTypes \union StopTypes : type \notin {"RUN_STARTED", "NO_ODOM"}
      BY DEF ProximityTypes, StopTypes
    <3>. HIDE DEF events
    <3>. QED
      BY <2>2, <3>1, CountOthers
  <2>4. ~ row.collision /\ row.intruded = 0
    BY <1>4 DEF Compute
  <2>5. Cardinality({i \in DOMAIN odom : ProlongedFrom(odom, i)}) = 0
    <3>1. {i \in DOMAIN odom : ProlongedFrom(odom, i)} = {}
      BY <1>4
    <3>. QED
      BY <3>1, FS_EmptySet
  <2>6. Stretches({}) = 0
    <3>1. {i \in {} : i - 1 \notin {}} = {}
      OBVIOUS
    <3>. QED
      BY <3>1, FS_EmptySet DEF Stretches
  <2>7. \A dist : Stretches({i \in DOMAIN series : series[i] # None /\ series[i] < dist}) = 0
    <3>1. \A dist : {i \in DOMAIN series : series[i] # None /\ series[i] < dist} = {}
      BY <2>1
    <3>. QED
      BY <2>6, <3>1
  <2>8. /\ Count(events, "NEAR_COLLISION") = 0 /\ Count(events, "SOCIAL_INTRUSION") = 0
        /\ Count(events, "ROBOT_STOPPED") = 0 /\ Count(events, "ROBOT_RESUMED") = 0
        /\ Count(events, "PROLONGED_STOP") = 0
    BY <2>3 DEF ProximityTypes, StopTypes
  <2>. HIDE DEF row, events, series
  <2>9. ZonesAgree(series, row, events)
    <3>1. /\ Stretches({i \in DOMAIN series : series[i] # None /\ series[i] < CollisionDist}) = 0
          /\ Stretches({i \in DOMAIN series : series[i] # None /\ series[i] < ComfortDist}) = 0
      BY <2>7
    <3>. QED
      BY <2>4, <2>8, <3>1 DEF ZonesAgree
  <2>10. StopsAgree(odom, row, events)
    BY <1>4, <2>5, <2>8 DEF StopsAgree
  <2>. QED
    BY <2>8, <2>9, <2>10 DEF Agreement, series, row, events
<1>5. CASE odom # <<>>
  <2>1. /\ Count(events, "NEAR_COLLISION") = Stretches(Below(CollisionDist))
        /\ Count(events, "SOCIAL_INTRUSION") = Stretches(Below(ComfortDist))
    BY <1>1, <1>5, EventCounts, ProximityCounts DEF ProximityTypes
  <2>2. /\ stops = Stretches(slow)
        /\ Count(events, "ROBOT_RESUMED") = stops - (IF Len(odom) \in slow THEN 1 ELSE 0)
        /\ Count(events, "PROLONGED_STOP") =
                Cardinality({i \in 1..Len(odom) : ProlongedFrom(odom, i)})
    BY <1>1, <1>5, EventCounts, StopCounts DEF StopTypes
  <2>3. stops \in Nat
    BY <1>2, <2>2, SomeStretch
  <2>4. row.collision <=> Below(CollisionDist) # {}
    <3>. DEFINE seen == {i \in DOMAIN series : series[i] # None}
    <3>1. row.collision = Collision([i \in seen |-> series[i]])
      BY <1>5 DEF Compute
    <3>. HIDE DEF series
    <3>. QED
      BY <1>1, <3>1 DEF Collision
  <2>5. row.intruded = Cardinality(Below(ComfortDist))
    <3>. DEFINE seen == {i \in DOMAIN series : series[i] # None}
                clearances == [i \in seen |-> series[i]]
    <3>1. row.intruded = Cardinality({i \in seen : clearances[i] < ComfortDist})
      BY <1>5 DEF Compute
    <3>2. {i \in seen : clearances[i] < ComfortDist} = Below(ComfortDist)
      BY <1>1
    <3>. QED
      BY <3>1, <3>2
  <2>6. row.intruded > 0 <=> Below(ComfortDist) # {}
    <3>1. IsFiniteSet(1..n) /\ Below(ComfortDist) \in SUBSET (1..n)
      BY <1>1, FS_Interval
    <3>2. IsFiniteSet(Below(ComfortDist))
      BY <3>1, FS_Subset
    <3>3. /\ Cardinality(Below(ComfortDist)) \in Nat
          /\ Cardinality(Below(ComfortDist)) = 0 <=> Below(ComfortDist) = {}
      BY <3>2, FS_CardinalityType, FS_EmptySet
    <3>. HIDE DEF Below, row
    <3>. QED
      BY <2>5, <3>3
  <2>7. stops = row.num_stops + (IF Head(odom).v < StopSpeed THEN 1 ELSE 0)
    <3>. DEFINE B == {i \in slow : i - 1 \notin slow}
                N == {i \in 2..Len(odom) : odom[i].v < StopSpeed /\ odom[i - 1].v >= StopSpeed}
    <3>1. row.num_stops = Cardinality(N)
      BY <1>5 DEF Compute, NumStops
    <3>2. 1 \in 1..Len(odom) /\ Head(odom) = odom[1]
      BY <1>2, <1>5
    <3>3. StopSpeed \in Int /\ \A i \in 1..Len(odom) : odom[i].v \in Int
      BY <1>2, AnalysisAssumption DEF Shots
    <3>4. \A i \in 2..Len(odom) : i \in B <=> i \in N
      <4>1. ASSUME NEW i \in 2..Len(odom)
            PROVE  i \in B <=> i \in N
        <5>1. i \in 1..Len(odom) /\ i - 1 \in 1..Len(odom)
          BY <1>2
        <5>. HIDE DEF odom
        <5>. QED
          BY <3>3, <5>1
      <4>. QED
        BY <4>1
    <3>5. 1 \in B <=> Head(odom).v < StopSpeed
      <4>1. 0 \notin slow
        BY <1>2
      <4>. QED
        BY <3>2, <4>1
    <3>6. B \subseteq 1..Len(odom) /\ N \subseteq 2..Len(odom) /\ 1 \notin N
      BY <1>2
    <3>7. IsFiniteSet(N)
      <4>1. IsFiniteSet(2..Len(odom)) /\ N \in SUBSET (2..Len(odom))
        BY <1>2, <3>6, FS_Interval
      <4>. HIDE DEF N
      <4>. QED
        BY <4>1, FS_Subset
    <3>8. B = IF Head(odom).v < StopSpeed THEN N \cup {1} ELSE N
      <4>. HIDE DEF B, N, odom
      <4>1. /\ \A i \in 1..Len(odom) : i = 1 \/ i \in 2..Len(odom)
            /\ 2..Len(odom) \subseteq 1..Len(odom)
        BY <1>2
      <4>2. CASE Head(odom).v < StopSpeed
        <5>1. \A i \in 1..Len(odom) : i \in B <=> i \in N \cup {1}
          BY <3>4, <3>5, <3>6, <4>1, <4>2
        <5>2. N \cup {1} \subseteq 1..Len(odom)
          BY <3>2, <3>6, <4>1
        <5>3. B = N \cup {1}
          BY <3>6, <5>1, <5>2
        <5>. QED
          BY <4>2, <5>3
      <4>3. CASE ~ (Head(odom).v < StopSpeed)
        <5>1. \A i \in 1..Len(odom) : i \in B <=> i \in N
          BY <3>4, <3>5, <3>6, <4>1, <4>3
        <5>2. B = N
          BY <3>6, <4>1, <5>1
        <5>. QED
          BY <4>3, <5>2
      <4>. QED
        BY <4>2, <4>3
    <3>9. stops = Cardinality(B)
      BY <2>2 DEF Stretches
    <3>10. Cardinality(N) \in Nat /\ Cardinality(N \cup {1}) = Cardinality(N) + 1
      <4>. HIDE DEF N
      <4>. QED
        BY <3>6, <3>7, FS_CardinalityType, FS_AddElement
    <3>. HIDE DEF B, N, row, stops
    <3>. QED
      BY <3>1, <3>8, <3>9, <3>10
  <2>8. Label(row) = "NONE" => ~ row.collision
    BY DEF Label
  <2>9. \A dist : {i \in DOMAIN series : series[i] # None /\ series[i] < dist} = Below(dist)
    BY <1>1
  <2>10. Count(events, "ROBOT_RESUMED") \in {stops, stops - 1}
    BY <2>2, <2>3
  <2>. HIDE DEF Below, row, events, series, slow
  <2>11. /\ row.collision <=> Count(events, "NEAR_COLLISION") > 0
         /\ row.intruded > 0 <=> Count(events, "SOCIAL_INTRUSION") > 0
         /\ Label(row) = "NONE" => Count(events, "NEAR_COLLISION") = 0
    BY <1>3, <2>1, <2>4, <2>6, <2>8
  <2>12. ZonesAgree(series, row, events)
    BY <2>1, <2>9, <2>11 DEF ZonesAgree
  <2>13. StopsAgree(odom, row, events)
    BY <1>2, <2>2, <2>7, <2>10 DEF StopsAgree
  <2>. QED
    BY <2>11, <2>12, <2>13 DEF Agreement, series, row, events
<1>. QED
  BY <1>4, <1>5

\* What is written of a record, whatever streams came at whatever rates: the row finds a
\* collision exactly if there is an event of one, an intrusion likewise; each stretch of
\* frames too near is one event, each stop one, each prolonged stop one; the count of stops
\* of the row differs by the stop the record begins in; and no run labelled NONE collides.
THEOREM RecordsAgree == Spec => []AnalysesAgree
<1>1. RecordOK => Agreement(record, Compute(record, Goal), DetectEvents(record))
  BY RecordAgrees DEF RecordOK
<1>2. IInv => AnalysesAgree
  BY <1>1 DEF IInv, AnalysesAgree, Row
<1>. QED
  BY <1>2, Invariance, PTL

-----------------------------------------------------------------------------
(***************************************************************************)
(* The control panel: its types, for any number of request threads, and    *)
(* for one thread, that at most one activity runs which nobody asked to    *)
(* stop, and that Stop reaches it.                                         *)
(***************************************************************************)

Phases == {"none", "dead"} \cup DemoPhases \cup BenchmarkPhases

\* A script that moves to a place leaves the scripts of the others where they are.
LEMMA GotoType ==
    ASSUME script \in [Activities -> Phases],
           NEW a \in Activities, NEW place \in Phases, Goto(a, place)
    PROVE  /\ script' \in [Activities -> Phases]
           /\ script'[a] = place
           /\ \A b \in Activities \ {a} : script'[b] = script[b]
BY DEF Goto

\* A launch that is set leaves the others as they are.
LEMMA SetLaunchType ==
    ASSUME launch \in [Activities -> {"off", "starting", "started"}],
           NEW a \in Activities, NEW state \in {"off", "starting", "started"},
           SetLaunch(a, state)
    PROVE  launch' \in [Activities -> {"off", "starting", "started"}]
BY DEF SetLaunch

\* Killing every launch is a state of all launches.
LEMMA NoLaunchType == NoLaunch \in [Activities -> {"off", "starting", "started"}]
BY DEF NoLaunch

\* The trap leads back into the script or to its end.
LEMMA AfterTrapType ==
    ASSUME NEW place \in {"clear", "launch", "waiting", "goal", "wait"}
    PROVE  AfterTrap(place) \subseteq DemoPhases
BY DEF AfterTrap, DemoPhases

\* The steps of a request thread keep the types.
LEMMA ServeType ==
    ASSUME PanelTypeOK, NEW c \in Clients, Request(c) \/ Serve(c)
    PROVE  PanelTypeOK'
<1>. USE DEF serverVars, processVars
<1>1. CASE Request(c)
  BY <1>1 DEF Request, PanelTypeOK
<1>2. CASE Poll(c)
  BY <1>2 DEF Poll, PanelTypeOK
<1>3. CASE Pgrep(c)
  BY <1>3 DEF Pgrep, PanelTypeOK
<1>4. CASE Spawn(c)
  <2>1. PICK a \in Activities :
            /\ script' = [script EXCEPT ![a] = IF asked[c] = "demo" THEN "clear" ELSE "kill"]
            /\ spawned' = [spawned EXCEPT ![c] = a]
    BY <1>4 DEF Spawn
  <2>2. script' \in [Activities -> Phases]
    BY <2>1 DEF PanelTypeOK, Phases, DemoPhases, BenchmarkPhases
  <2>3. spawned' \in [Clients -> Activities \cup {Nobody}]
    BY <2>1 DEF PanelTypeOK
  <2>4. pc' = [pc EXCEPT ![c] = "record"]
        /\ UNCHANGED <<proc, asked, then, sigint, launch, gzserver, stopped>>
    BY <1>4 DEF Spawn
  <2>. QED
    BY <2>2, <2>3, <2>4 DEF PanelTypeOK, Phases
<1>5. CASE Record(c)
  BY <1>5 DEF Record, PanelTypeOK
<1>6. CASE Signal(c)
  BY <1>6 DEF Signal, PanelTypeOK
<1>7. CASE StopGazebo(c)
  BY <1>7 DEF StopGazebo, PanelTypeOK
<1>8. CASE StopLaunches(c)
  BY <1>8, NoLaunchType DEF StopLaunches, PanelTypeOK
<1>9. CASE Forget(c)
  BY <1>9 DEF Forget, PanelTypeOK
<1>. QED
  BY <1>1, <1>2, <1>3, <1>4, <1>5, <1>6, <1>7, <1>8, <1>9 DEF Serve

\* What a step of a process may do to the scripts: one of them moves on from a place in
\* which it was alive, or none does.
ScriptMoves ==
    \/ script' = script
    \/ \E a \in Activities, place \in Phases : Alive(a) /\ Goto(a, place)

\* The steps of a process leave the panel alone, keep the types, and move the script of
\* a process that is alive.
LEMMA ProcessType ==
    ASSUME PanelTypeOK, NEW a \in Activities, Process(a)
    PROVE  PanelTypeOK' /\ ScriptMoves /\ UNCHANGED <<serverVars, stopped>>
<1>. USE DEF Phases, DemoPhases, BenchmarkPhases, Alive
<1>. script \in [Activities -> Phases] /\ launch \in [Activities -> {"off", "starting", "started"}]
  BY DEF PanelTypeOK
<1>1. CASE GazeboUp(a)
  BY <1>1, SetLaunchType DEF GazeboUp, PanelTypeOK, ScriptMoves, serverVars
<1>2. CASE DemoStep(a)
  <2>1. UNCHANGED <<serverVars, then, sigint, stopped>>
    BY <1>2 DEF DemoStep
  <2>2. launch' \in [Activities -> {"off", "starting", "started"}]
        /\ gzserver' \in {gzserver, Nobody}
    BY <1>2, SetLaunchType DEF DemoStep
  <2>3. \E place \in DemoPhases : Alive(a) /\ Goto(a, place)
    BY <1>2 DEF DemoStep
  <2>4. script' \in [Activities -> Phases]
    BY <2>3, GotoType
  <2>. QED
    BY <2>1, <2>2, <2>3, <2>4 DEF PanelTypeOK, ScriptMoves, serverVars
<1>3. CASE DemoInterrupt(a)
  <2>1. sigint' = sigint \ {a} /\ UNCHANGED <<serverVars, launch, gzserver, stopped>>
    BY <1>3 DEF DemoInterrupt
  <2>2. \E place \in Phases : Alive(a) /\ Goto(a, place)
    BY <1>3 DEF DemoInterrupt
  <2>3. script' \in [Activities -> Phases]
    BY <2>2, GotoType
  <2>4. then' \in [Activities -> {"none"} \cup DemoPhases]
    <3>1. CASE UNCHANGED then
      BY <3>1 DEF PanelTypeOK
    <3>2. CASE /\ script[a] \in {"clear", "launch", "waiting", "goal", "wait"}
               /\ \E next \in AfterTrap(script[a]) : then' = [then EXCEPT ![a] = next]
      <4>. AfterTrap(script[a]) \subseteq DemoPhases
        BY <3>2, AfterTrapType
      <4>. HIDE DEF DemoPhases
      <4>. QED
        BY <3>2 DEF PanelTypeOK
    <3>. QED
      BY <1>3, <3>1, <3>2 DEF DemoInterrupt
  <2>. QED
    BY <2>1, <2>2, <2>3, <2>4 DEF PanelTypeOK, ScriptMoves, serverVars
<1>4. CASE Cleanup(a)
  <2>1. UNCHANGED <<serverVars, then, sigint, stopped>>
    BY <1>4 DEF Cleanup
  <2>2. launch' \in [Activities -> {"off", "starting", "started"}]
        /\ gzserver' \in {gzserver, Nobody}
    BY <1>4, NoLaunchType DEF Cleanup
  <2>3. then[a] \in Phases
    BY DEF PanelTypeOK
  <2>4. \E place \in Phases : Alive(a) /\ Goto(a, place)
    BY <1>4, <2>3 DEF Cleanup
  <2>5. script' \in [Activities -> Phases]
    BY <2>4, GotoType
  <2>. QED
    BY <2>1, <2>2, <2>4, <2>5 DEF PanelTypeOK, ScriptMoves, serverVars
<1>5. CASE BenchmarkStep(a)
  <2>1. UNCHANGED <<serverVars, then, sigint, stopped>>
    BY <1>5 DEF BenchmarkStep
  <2>2. launch' \in [Activities -> {"off", "starting", "started"}]
        /\ gzserver' \in {gzserver, Nobody}
    BY <1>5, SetLaunchType DEF BenchmarkStep
  <2>3. \E place \in Phases : Alive(a) /\ Goto(a, place)
    BY <1>5 DEF BenchmarkStep
  <2>4. script' \in [Activities -> Phases]
    BY <2>3, GotoType
  <2>. QED
    BY <2>1, <2>2, <2>3, <2>4 DEF PanelTypeOK, ScriptMoves, serverVars
<1>6. CASE BenchmarkInterrupt(a)
  <2>1. sigint' = sigint \ {a} /\ UNCHANGED <<serverVars, then, launch, gzserver, stopped>>
    BY <1>6 DEF BenchmarkInterrupt
  <2>2. \E place \in Phases : Alive(a) /\ Goto(a, place)
    BY <1>6 DEF BenchmarkInterrupt
  <2>3. script' \in [Activities -> Phases]
    BY <2>2, GotoType
  <2>. QED
    BY <2>1, <2>2, <2>3 DEF PanelTypeOK, ScriptMoves, serverVars
<1>. QED
  BY <1>1, <1>2, <1>3, <1>4, <1>5, <1>6 DEF Process

\* However many requests are served at once, every state of the panel and its processes is
\* of the types that PanelTypeOK says.
THEOREM PanelTypeCorrect == PanelSpec => []PanelTypeOK
<1>1. PanelInit => PanelTypeOK
  BY DEF PanelInit, PanelTypeOK, DemoPhases, BenchmarkPhases
<1>2. PanelTypeOK /\ [PanelNext]_panelVars => PanelTypeOK'
  <2>. SUFFICES ASSUME PanelTypeOK, [PanelNext]_panelVars PROVE PanelTypeOK'
    OBVIOUS
  <2>1. CASE UNCHANGED panelVars
    BY <2>1 DEF panelVars, serverVars, processVars, PanelTypeOK
  <2>. QED
    BY <2>1, ServeType, ProcessType DEF PanelNext
<1>. QED
  BY <1>1, <1>2, PTL DEF PanelSpec

-----------------------------------------------------------------------------
(***************************************************************************)
(* One request at a time                                                   *)
(***************************************************************************)

Wanted == Running \ stopped

\* Where the only thread is tells which activity may run that nobody asked to stop: the
\* recorded one; none, from the look at it to the start of another and from the signal
\* to the end of a Stop; and the one just started, which is not recorded yet.
WantedIsKnown(c) ==
    /\ pc[c] \in {"ready", "poll", "signal"} => Wanted \subseteq {proc}
    /\ pc[c] \in {"pgrep", "spawn", "stop1", "stop2", "forget"} => Wanted = {}
    /\ pc[c] = "record" => Wanted \subseteq {spawned[c]}

\* Processes start by the panel alone: no step of theirs makes one alive that was not.
LEMMA ProcessesOnlyEnd ==
    ASSUME PanelTypeOK, ScriptMoves, stopped' = stopped
    PROVE  Wanted' \subseteq Wanted
<1>1. CASE script' = script
  BY <1>1 DEF Wanted, Running, Alive
<1>2. ASSUME NEW a \in Activities, NEW place \in Phases, Alive(a), Goto(a, place)
      PROVE  Wanted' \subseteq Wanted
  <2>1. \A b \in Activities \ {a} : script'[b] = script[b]
    BY <1>2, GotoType DEF PanelTypeOK, Phases
  <2>. QED
    BY <1>2, <2>1 DEF Wanted, Running, Alive
<1>. QED
  BY <1>1, <1>2 DEF ScriptMoves

\* Each step of the only request thread keeps what is known of the running activities.
LEMMA ServeKnown ==
    ASSUME NEW c, Clients = {c}, PanelTypeOK, WantedIsKnown(c), Request(c) \/ Serve(c)
    PROVE  WantedIsKnown(c)'
<1>. c \in Clients
  OBVIOUS
<1>. USE DEF PanelTypeOK, processVars
<1>1. ASSUME script' = script, stopped' = stopped
      PROVE  Wanted' = Wanted
  BY <1>1 DEF Wanted, Running, Alive
<1>2. CASE Request(c)
  <2>1. Wanted' = Wanted /\ proc' = proc /\ spawned' = spawned
    BY <1>1, <1>2 DEF Request
  <2>2. pc[c] = "ready" /\ pc'[c] \in {"signal", "poll"}
    BY <1>2 DEF Request
  <2>. QED
    BY <2>1, <2>2 DEF WantedIsKnown
<1>3. CASE Poll(c)
  <2>1. Wanted' = Wanted /\ proc' = proc /\ spawned' = spawned
    BY <1>1, <1>3 DEF Poll
  <2>2. /\ pc[c] = "poll" /\ pc'[c] \in {"ready", "pgrep"}
        /\ pc'[c] = "pgrep" => proc \notin Running
    BY <1>3, PanelAssumption DEF Poll, Running
  <2>. QED
    BY <2>1, <2>2 DEF WantedIsKnown, Wanted
<1>4. CASE Pgrep(c)
  <2>1. Wanted' = Wanted /\ proc' = proc /\ spawned' = spawned
    BY <1>1, <1>4 DEF Pgrep
  <2>2. pc[c] = "pgrep" /\ pc'[c] \in {"ready", "spawn"}
    BY <1>4 DEF Pgrep
  <2>. QED
    BY <2>1, <2>2 DEF WantedIsKnown
<1>5. CASE Spawn(c)
  <2>1. PICK a \in Activities :
            /\ script' = [script EXCEPT ![a] = IF asked[c] = "demo" THEN "clear" ELSE "kill"]
            /\ spawned' = [spawned EXCEPT ![c] = a]
    BY <1>5 DEF Spawn
  <2>2. Wanted' \subseteq Wanted \cup {a}
    BY <1>5, <2>1 DEF Spawn, Wanted, Running, Alive
  <2>3. Wanted = {} /\ pc'[c] = "record" /\ spawned'[c] = a
    BY <1>5, <2>1 DEF Spawn, WantedIsKnown
  <2>. QED
    BY <2>2, <2>3 DEF WantedIsKnown
<1>6. CASE Record(c)
  <2>1. Wanted' = Wanted
    BY <1>1, <1>6 DEF Record
  <2>2. pc[c] = "record" /\ pc'[c] = "ready" /\ proc' = spawned[c]
    BY <1>6 DEF Record
  <2>. QED
    BY <2>1, <2>2 DEF WantedIsKnown
<1>7. CASE Signal(c)
  <2>1. Wanted \subseteq {proc} /\ pc'[c] = "stop1"
    BY <1>7 DEF Signal, WantedIsKnown
  <2>2. /\ script' = script
        /\ stopped' = stopped \cup {a \in Activities : a = proc /\ Alive(a)}
    BY <1>7 DEF Signal
  <2>3. Wanted' = {}
    BY <2>1, <2>2 DEF Wanted, Running, Alive
  <2>. QED
    BY <2>1, <2>3 DEF WantedIsKnown
<1>8. CASE StopGazebo(c)
  <2>1. Wanted' = Wanted /\ pc[c] = "stop1" /\ pc'[c] = "stop2"
    BY <1>1, <1>8 DEF StopGazebo
  <2>. QED
    BY <2>1 DEF WantedIsKnown
<1>9. CASE StopLaunches(c)
  <2>1. Wanted' = Wanted /\ pc[c] = "stop2" /\ pc'[c] = "forget"
    BY <1>1, <1>9 DEF StopLaunches
  <2>. QED
    BY <2>1 DEF WantedIsKnown
<1>10. CASE Forget(c)
  <2>1. Wanted' = Wanted /\ pc[c] = "forget" /\ pc'[c] = "ready"
    BY <1>1, <1>10 DEF Forget
  <2>. QED
    BY <2>1 DEF WantedIsKnown
<1>. QED
  BY <1>2, <1>3, <1>4, <1>5, <1>6, <1>7, <1>8, <1>9, <1>10 DEF Serve

\* With one request thread, WantedIsKnown is an invariant.
THEOREM WantedKnown ==
    ASSUME NEW CONSTANT c, Clients = {c}
    PROVE  PanelSpec => [](PanelTypeOK /\ WantedIsKnown(c))
<1>1. PanelInit => WantedIsKnown(c)
  BY DEF PanelInit, WantedIsKnown, Wanted, Running, Alive, DemoPhases, BenchmarkPhases
<1>2. PanelTypeOK /\ WantedIsKnown(c) /\ [PanelNext]_panelVars => WantedIsKnown(c)'
  <2>. SUFFICES ASSUME PanelTypeOK, WantedIsKnown(c), [PanelNext]_panelVars PROVE WantedIsKnown(c)'
    OBVIOUS
  <2>1. CASE UNCHANGED panelVars
    BY <2>1 DEF panelVars, serverVars, processVars, WantedIsKnown, Wanted, Running, Alive
  <2>2. ASSUME NEW a \in Activities, Process(a)
        PROVE  WantedIsKnown(c)'
    <3>1. Wanted' \subseteq Wanted /\ UNCHANGED serverVars
      BY <2>2, ProcessType, ProcessesOnlyEnd
    <3>. QED
      BY <3>1 DEF WantedIsKnown, serverVars
  <2>. QED
    BY <2>1, <2>2, ServeKnown DEF PanelNext
<1>. QED
  BY <1>1, <1>2, PanelTypeCorrect, PTL DEF PanelSpec

\* One request at a time, for any number of activities: at most one runs that nobody
\* asked to stop, also while no Gazebo is there to be found.
THEOREM OneIsWanted ==
    ASSUME NEW CONSTANT c, Clients = {c}
    PROVE  PanelSpec => []OneWantedActivity
<1>1. PanelTypeOK /\ WantedIsKnown(c) => OneWantedActivity
  <2>. SUFFICES ASSUME PanelTypeOK, WantedIsKnown(c)
                PROVE  Cardinality(Wanted) <= 1
    BY DEF OneWantedActivity, Wanted
  <2>1. PICK a : Wanted \subseteq {a}
    BY DEF WantedIsKnown, PanelTypeOK
  <2>2. IsFiniteSet({a}) /\ Cardinality({a}) = 1
    BY FS_Singleton
  <2>. QED
    BY <2>1, <2>2, FS_Subset
<1>. QED
  BY <1>1, WantedKnown, PTL

\* One request at a time: between requests, what runs and nobody asked to stop is the
\* recorded process, so Stop reaches it.
THEOREM NothingIsOrphaned ==
    ASSUME NEW CONSTANT c, Clients = {c}
    PROVE  PanelSpec => []NothingOrphaned
<1>1. WantedIsKnown(c) => NothingOrphaned
  BY DEF WantedIsKnown, NothingOrphaned, Wanted
<1>. QED
  BY <1>1, WantedKnown, PTL
=============================================================================
