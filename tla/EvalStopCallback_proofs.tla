---------------------- MODULE EvalStopCallback_proofs -----------------------
(***************************************************************************)
(* Proofs about EvalStopCallback, for every schedule of evaluations, every *)
(* set of scores and every number of runs: type correctness, the order of  *)
(* the two files of a checkpoint across kills, that the best policy is on  *)
(* disk, and that a run stops when, and only when, it should.              *)
(***************************************************************************)
EXTENDS EvalStopCallback, TLAPS

-----------------------------------------------------------------------------
(***************************************************************************)
(* Type correctness                                                        *)
(***************************************************************************)

\* There are two files to save, in an order.
LEMMA SaveOrderType ==
    /\ Len(SaveOrder) = 2
    /\ SaveOrder[1] = "zip" /\ SaveOrder[2] = "meta"
BY DEF SaveOrder

\* Stamps are what files hold.
LEMMA StampType ==
    ASSUME TypeOK
    PROVE  Missing \in Stamps /\ Stamp \in Stamps
BY DEF TypeOK, Missing, Stamp, Stamps

\* Putting a stamp into a file changes that file alone.
LEMMA PutType ==
    ASSUME TypeOK, NEW content \in Stamps, Put(content)
    PROVE  /\ disk' \in [Checkpoints -> [Files -> Stamps]]
           /\ disk'[saving][SaveOrder[part]] = content
           /\ \A c \in Checkpoints, f \in Files :
                 c # saving \/ f # SaveOrder[part] => disk'[c][f] = disk[c][f]
<1>1. saving \in Checkpoints /\ SaveOrder[part] \in Files
  <2>1. part = 1 \/ part = 2
    BY DEF TypeOK
  <2>. QED
    BY <2>1, SaveOrderType DEF TypeOK, Files
<1>2. disk \in [Checkpoints -> [Files -> Stamps]]
  BY DEF TypeOK
<1>3. disk' = [disk EXCEPT ![saving] =
                  [disk[saving] EXCEPT ![SaveOrder[part]] = content]]
  BY DEF Put
<1>. QED
  BY <1>1, <1>2, <1>3

\* Where the callback's True leads
LEMMA ContinueType ==
    ASSUME TypeOK, Continue, num_timesteps < next_eval, next_eval' = next_eval,
           num_timesteps' = num_timesteps
    PROVE  /\ phase' \in {"collect", "open"}
           /\ collected' \in 0..RolloutSteps
           /\ phase' = "collect" =>
                 collected' < RolloutSteps /\ num_timesteps' < next_eval'
           /\ saving' \in Checkpoints /\ part' \in 1..2
           /\ disk' = disk
BY TrainingAssumption DEF Continue, StartSave, TypeOK, saveVars, Checkpoints

\* No evaluation is due once one has taken place: what TypeOK says of the phase
\* "collect" holds from there on.
NotOverdue == phase \in {"open", "write", "decide"} => num_timesteps < next_eval

\* Every step keeps the types.
LEMMA TypeStep ==
    TypeOK /\ NotOverdue /\ [Next]_vars => TypeOK' /\ NotOverdue'
<1>. SUFFICES ASSUME TypeOK, NotOverdue, [Next]_vars
              PROVE  TypeOK' /\ NotOverdue'
  OBVIOUS
<1>. USE TrainingAssumption
<1>1. CASE Collect
  BY <1>1 DEF Collect, TypeOK, NotOverdue, callbackVars, saveVars
<1>2. CASE NotDue
  <2>1. /\ phase' \in {"collect", "open"}
        /\ collected' \in 0..RolloutSteps
        /\ phase' = "collect" =>
              collected' < RolloutSteps /\ num_timesteps' < next_eval'
        /\ saving' \in Checkpoints /\ part' \in 1..2
        /\ disk' = disk
    BY <1>2, ContinueType DEF NotDue, callbackVars
  <2>2. /\ UNCHANGED <<num_timesteps, callbackVars, run, evals>>
        /\ num_timesteps < next_eval
    BY <1>2 DEF NotDue
  <2>. QED
    BY <2>1, <2>2 DEF TypeOK, NotOverdue, callbackVars
<1>3. ASSUME NEW score \in Scores, Evaluate(score)
      PROVE  TypeOK' /\ NotOverdue'
  <2>1. evals' \in Seq([score : Scores, steps : Nat])
    BY <1>3 DEF Evaluate, TypeOK
  <2>2. /\ no_improve' \in Nat /\ next_eval' \in Nat
        /\ num_timesteps' < next_eval'
    BY <1>3 DEF Evaluate, Count, NextEval, TypeOK, learnerVars
  <2>3. /\ phase' \in {"open", "decide"}
        /\ saving' \in Checkpoints /\ part' \in 1..2
        /\ best' \in Scores \cup {Unscored}
    BY <1>3 DEF Evaluate, StartSave, TypeOK, Checkpoints
  <2>. QED
    BY <1>3, <2>1, <2>2, <2>3 DEF Evaluate, TypeOK, NotOverdue, learnerVars
<1>4. CASE OpenFile
  <2>1. disk' \in [Checkpoints -> [Files -> Stamps]]
    BY <1>4, PutType, StampType DEF OpenFile
  <2>. QED
    BY <1>4, <2>1 DEF OpenFile, TypeOK, NotOverdue, learnerVars, callbackVars
<1>5. CASE WriteFile
  <2>1. disk' \in [Checkpoints -> [Files -> Stamps]]
    BY <1>5, PutType, StampType DEF WriteFile
  <2>2. part' \in 1..2 /\ phase' \in {"open", "decide", "ended"}
    BY <1>5, SaveOrderType DEF WriteFile, TypeOK
  <2>. QED
    BY <1>5, <2>1, <2>2 DEF WriteFile, TypeOK, NotOverdue, learnerVars, callbackVars
<1>6. CASE Decide
  <2>1. phase = "decide" /\ UNCHANGED <<num_timesteps, callbackVars, run, evals>>
    BY <1>6 DEF Decide
  <2>2. num_timesteps < next_eval
    BY <2>1 DEF NotOverdue
  <2>3. CASE StartSave("final") /\ UNCHANGED <<collected, disk>>
    BY <2>1, <2>2, <2>3
       DEF StartSave, TypeOK, NotOverdue, callbackVars, Checkpoints
  <2>4. CASE Continue
    <3>1. /\ phase' \in {"collect", "open"}
          /\ collected' \in 0..RolloutSteps
          /\ phase' = "collect" =>
                collected' < RolloutSteps /\ num_timesteps' < next_eval'
          /\ saving' \in Checkpoints /\ part' \in 1..2
          /\ disk' = disk
      BY <2>1, <2>2, <2>4, ContinueType DEF callbackVars
    <3>. QED
      BY <2>1, <2>2, <3>1 DEF TypeOK, NotOverdue, callbackVars
  <2>. QED
    BY <1>6, <2>3, <2>4 DEF Decide
<1>7. CASE Rerun
  <2>1. <<>> \in Seq([score : Scores, steps : Nat])
    OBVIOUS
  <2>. QED
    BY <1>7, <2>1 DEF Rerun, TypeOK, NotOverdue, Checkpoints
<1>8. CASE UNCHANGED vars
  BY <1>8 DEF vars, TypeOK, NotOverdue, learnerVars, callbackVars, saveVars
<1>. QED
  BY <1>1, <1>2, <1>3, <1>4, <1>5, <1>6, <1>7, <1>8 DEF Next

\* Initially, too
LEMMA TypeInit == Init => TypeOK /\ NotOverdue
<1>. SUFFICES ASSUME Init
              PROVE  TypeOK /\ NotOverdue
  OBVIOUS
<1>1. disk \in [Checkpoints -> [Files -> Stamps]]
  BY DEF Init, Missing, Stamps
<1>2. evals \in Seq([score : Scores, steps : Nat])
  BY DEF Init
<1>. QED
  BY <1>1, <1>2, TrainingAssumption DEF Init, TypeOK, NotOverdue, Checkpoints

\* Every state of a training run is well typed, no environment is stepped while
\* an evaluation is due, and no rollout is too long.
THEOREM TypeCorrect == Spec => []TypeOK
BY TypeInit, TypeStep, PTL DEF Spec

-----------------------------------------------------------------------------
(***************************************************************************)
(* The two files of a checkpoint                                           *)
(***************************************************************************)

\* No file was saved later than now, and inside a save the model is cut short
\* until it is written, and the one of now from then on.
FilesInOrder ==
    /\ \A c \in Checkpoints, f \in Files : NoLaterThan(disk[c][f], Stamp)
    /\ phase = "write" /\ part = 1 => disk[saving]["zip"] = Missing
    /\ phase \in {"open", "write"} /\ part = 2 => disk[saving]["zip"] = Stamp
    /\ MetaNeverAhead

\* What a step leaves as it is, as far as the files are concerned, while time may
\* pass
LEMMA FilesUntouched ==
    ASSUME TypeOK, TypeOK', FilesInOrder, disk' = disk,
           NoLaterThan(Stamp, Stamp'),
           phase' \in {"open", "write"} => phase' = "open" /\ part' = 1
    PROVE  FilesInOrder'
<1>1. \A c \in Checkpoints, f \in Files : disk[c][f] \in Stamps
  BY DEF TypeOK
<1>2. Stamp \in Stamps /\ Stamp' \in Stamps
  BY DEF TypeOK, Stamp, Stamps
<1>3. \A a, b, c \in Stamps :
         NoLaterThan(a, b) /\ NoLaterThan(b, c) => NoLaterThan(a, c)
  BY DEF NoLaterThan, Stamps
<1>4. \A c \in Checkpoints, f \in Files : NoLaterThan(disk'[c][f], Stamp')
  BY <1>1, <1>2, <1>3 DEF FilesInOrder
<1>5. MetaNeverAhead'
  BY DEF FilesInOrder, MetaNeverAhead
<1>. QED
  BY <1>4, <1>5 DEF FilesInOrder

\* Opening and writing a file keep the order.
LEMMA FilesPut ==
    ASSUME TypeOK, TypeOK', FilesInOrder, OpenFile \/ WriteFile
    PROVE  FilesInOrder'
<1>. DEFINE content == IF phase = "open" THEN Missing ELSE Stamp
<1>1. /\ phase \in {"open", "write"} /\ part \in 1..2 /\ saving \in Checkpoints
      /\ saving' = saving /\ Stamp' = Stamp /\ Put(content)
  BY DEF OpenFile, WriteFile, TypeOK, Stamp, learnerVars
<1>2. Missing \in Stamps /\ Stamp \in Stamps /\ content \in Stamps
  BY StampType
<1>3. /\ \A n \in Stamps : NoLaterThan(Missing, n) /\ NoLaterThan(n, n)
      /\ "zip" \in Files /\ "meta" \in Files
  BY DEF NoLaterThan, Missing, Stamps, Files
<1>. HIDE DEF content
<1>4. /\ disk'[saving][SaveOrder[part]] = content
      /\ \A c \in Checkpoints, f \in Files :
            c # saving \/ f # SaveOrder[part] => disk'[c][f] = disk[c][f]
  BY <1>1, <1>2, PutType
<1>5. \A c \in Checkpoints, f \in Files : NoLaterThan(disk'[c][f], Stamp')
  BY <1>1, <1>2, <1>3, <1>4 DEF FilesInOrder, content
<1>6. CASE part = 1
  <2>1. /\ disk'[saving]["zip"] = content
        /\ disk'[saving]["meta"] = disk[saving]["meta"]
        /\ \A c \in Checkpoints :
              c # saving => \A f \in Files : disk'[c][f] = disk[c][f]
    BY <1>1, <1>3, <1>4, <1>6, SaveOrderType
  <2>2. NoLaterThan(disk[saving]["meta"], Stamp)
    BY <1>1, <1>3 DEF FilesInOrder
  <2>3. MetaNeverAhead'
    <3>. SUFFICES ASSUME NEW c \in Checkpoints, disk'[c]["zip"] # Missing
                  PROVE  NoLaterThan(disk'[c]["meta"], disk'[c]["zip"])
      BY DEF MetaNeverAhead
    <3>1. CASE c = saving
      BY <2>1, <2>2, <3>1 DEF content
    <3>2. CASE c # saving
      <4>1. disk'[c]["zip"] = disk[c]["zip"] /\ disk'[c]["meta"] = disk[c]["meta"]
        BY <1>3, <2>1, <3>2
      <4>. QED
        BY <4>1 DEF FilesInOrder, MetaNeverAhead
    <3>. QED
      BY <3>1, <3>2
  <2>4. CASE OpenFile
    <3>1. phase' = "write" /\ part' = 1 /\ content = Missing
      BY <1>6, <2>4 DEF OpenFile, content
    <3>. QED
      BY <1>1, <1>5, <2>1, <2>3, <3>1 DEF FilesInOrder
  <2>5. CASE WriteFile
    <3>1. phase' = "open" /\ part' = 2 /\ content = Stamp
      BY <1>6, <2>5, SaveOrderType DEF WriteFile, content
    <3>. QED
      BY <1>1, <1>5, <2>1, <2>3, <3>1 DEF FilesInOrder
  <2>. QED
    BY <2>4, <2>5
<1>7. CASE part = 2
  <2>1. /\ disk'[saving]["meta"] = content
        /\ disk'[saving]["zip"] = disk[saving]["zip"]
        /\ \A c \in Checkpoints :
              c # saving => \A f \in Files : disk'[c][f] = disk[c][f]
    BY <1>1, <1>3, <1>4, <1>7, SaveOrderType
  <2>2. disk[saving]["zip"] = Stamp
    BY <1>1, <1>7 DEF FilesInOrder
  <2>3. MetaNeverAhead'
    <3>. SUFFICES ASSUME NEW c \in Checkpoints, disk'[c]["zip"] # Missing
                  PROVE  NoLaterThan(disk'[c]["meta"], disk'[c]["zip"])
      BY DEF MetaNeverAhead
    <3>1. CASE c = saving
      BY <1>2, <1>3, <2>1, <2>2, <3>1 DEF content
    <3>2. CASE c # saving
      <4>1. disk'[c]["zip"] = disk[c]["zip"] /\ disk'[c]["meta"] = disk[c]["meta"]
        BY <1>3, <2>1, <3>2
      <4>. QED
        BY <4>1 DEF FilesInOrder, MetaNeverAhead
    <3>. QED
      BY <3>1, <3>2
  <2>4. CASE OpenFile
    <3>1. phase' = "write" /\ part' = 2
      BY <1>7, <2>4 DEF OpenFile
    <3>. QED
      BY <1>1, <1>5, <2>1, <2>2, <2>3, <3>1 DEF FilesInOrder
  <2>5. CASE WriteFile
    <3>1. phase' \in {"decide", "ended"}
      BY <1>7, <2>5, SaveOrderType DEF WriteFile
    <3>. QED
      BY <1>5, <2>3, <3>1 DEF FilesInOrder
  <2>. QED
    BY <2>4, <2>5
<1>. QED
  BY <1>1, <1>6, <1>7

\* Every step keeps the order.
LEMMA FilesStep ==
    TypeOK /\ TypeOK' /\ FilesInOrder /\ [Next]_vars => FilesInOrder'
<1>. SUFFICES ASSUME TypeOK, TypeOK', FilesInOrder, [Next]_vars
              PROVE  FilesInOrder'
  OBVIOUS
<1>1. CASE OpenFile \/ WriteFile
  BY <1>1, FilesPut
<1>2. CASE Collect \/ NotDue \/ Decide \/ Rerun \/ (\E score \in Scores : Evaluate(score))
  <2>1. disk' = disk
    BY <1>2 DEF Collect, NotDue, Decide, Rerun, Evaluate, Continue, saveVars
  <2>2. NoLaterThan(Stamp, Stamp')
    <3>1. \/ run' = run + 1
          \/ run' = run /\ num_timesteps' \in {num_timesteps, num_timesteps + n_envs}
      BY <1>2 DEF Collect, NotDue, Decide, Rerun, Evaluate, learnerVars
    <3>2. run \in Nat /\ num_timesteps \in Nat /\ n_envs \in Nat
      BY TrainingAssumption DEF TypeOK
    <3>3. /\ Stamp.run = run /\ Stamp.steps = num_timesteps
          /\ Stamp'.run = run' /\ Stamp'.steps = num_timesteps'
      BY DEF Stamp
    <3>. QED
      BY <3>1, <3>2, <3>3 DEF NoLaterThan
  <2>3. phase' \in {"open", "write"} => phase' = "open" /\ part' = 1
    BY <1>2
       DEF Collect, NotDue, Decide, Rerun, Evaluate, Continue, StartSave
  <2>. QED
    BY <2>1, <2>2, <2>3, FilesUntouched
<1>3. CASE UNCHANGED vars
  BY <1>3 DEF vars, learnerVars, saveVars, FilesInOrder, MetaNeverAhead, Stamp
<1>. QED
  BY <1>1, <1>2, <1>3 DEF Next

\* Initially there is no file.
LEMMA FilesInit == Init => FilesInOrder
<1>. SUFFICES ASSUME Init
              PROVE  FilesInOrder
  OBVIOUS
<1>1. \A c \in Checkpoints, f \in Files : disk[c][f] = Missing
  BY DEF Init
<1>2. NoLaterThan(Missing, Stamp) /\ NoLaterThan(Missing, Missing)
  BY DEF Init, NoLaterThan, Missing, Stamp
<1>. QED
  BY <1>1, <1>2 DEF Init, FilesInOrder, MetaNeverAhead, Checkpoints, Files

\* Whenever a run is killed, the metadata beside a complete model is of that
\* model or of an earlier one.
THEOREM MetadataNeverAhead == Spec => []MetaNeverAhead
<1>1. FilesInOrder => MetaNeverAhead
  BY DEF FilesInOrder
<1>. QED
  BY <1>1, FilesInit, TypeCorrect, FilesStep, PTL DEF Spec

-----------------------------------------------------------------------------
(***************************************************************************)
(* The best evaluation                                                     *)
(***************************************************************************)

Pairs == Int \X Int

\* The order of scores: better than one that is not worse is better.
LEMMA BetterOrder ==
    /\ \A s \in Pairs : ~Better(s, s)
    /\ \A r, s, t \in Pairs :
          /\ Better(r, s) /\ Better(s, t) => Better(r, t)
          /\ Better(r, s) /\ ~Better(t, s) => Better(r, t)
<1>1. \A s \in Pairs : s[1] \in Int /\ s[2] \in Int
  BY DEF Pairs
<1>. QED
  BY <1>1 DEF Better

\* There is at most one first best evaluation.
LEMMA BestIsUnique ==
    ASSUME TypeOK, NEW i \in DOMAIN evals, NEW j \in DOMAIN evals,
           IsBest(i), IsBest(j)
    PROVE  i = j
<1>1. i \in 1..Len(evals) /\ j \in 1..Len(evals) /\ Len(evals) \in Nat
  BY DEF TypeOK
<1>2. CASE i < j
  <2>1. i \in 1..(j - 1) /\ j \in (i + 1)..Len(evals)
    BY <1>1, <1>2
  <2>. QED
    BY <2>1 DEF IsBest
<1>3. CASE j < i
  <2>1. j \in 1..(i - 1) /\ i \in (j + 1)..Len(evals)
    BY <1>1, <1>3
  <2>. QED
    BY <2>1 DEF IsBest
<1>. QED
  BY <1>1, <1>2, <1>3

(***************************************************************************)
(* The inductive invariant: best and no_improve describe the first best    *)
(* evaluation, that policy is on disk unless it is being saved now, and    *)
(* the learner goes on or stops as the evaluations demand.                 *)
(***************************************************************************)

Kept(i) ==
    /\ IsBest(i)
    /\ best = evals[i].score
    /\ no_improve = Len(evals) - i
    /\ Saving("best") => evals[i].steps = num_timesteps
    /\ ~Saving("best") =>
          \A f \in Files : disk["best"][f] = [run |-> run, steps |-> evals[i].steps]

Judged ==
    /\ evals = <<>> => best = Unscored /\ no_improve = 0 /\ ~Saving("best")
    /\ evals # <<>> => \E i \in DOMAIN evals : Kept(i)
    /\ phase = "decide" => evals # <<>>
    /\ phase \in {"collect", "callback"} => ~TargetReached /\ ~Plateaued
    /\ phase = "ended" \/ Saving("final") =>
          TargetReached \/ Plateaued \/ num_timesteps >= total_timesteps

\* What the callback tests is whether the evaluations have reached a plateau.
LEMMA PlateauIsReal ==
    ASSUME TypeOK, NEW i \in DOMAIN evals, Kept(i)
    PROVE  Plateau <=> Plateaued
<1>1. \A j \in DOMAIN evals : IsBest(j) => j = i
  BY BestIsUnique DEF Kept
<1>. QED
  BY <1>1 DEF Kept, Plateau, Plateaued

\* A step that leaves the evaluations, their result and the files alone keeps
\* what is said of them.
LEMMA JudgementStays ==
    ASSUME TypeOK, Judged, ~Saving("best"), ~Saving("best")',
           evals' = evals, best' = best, no_improve' = no_improve,
           run' = run, disk' = disk
    PROVE  /\ evals' = <<>> => best' = Unscored /\ no_improve' = 0 /\ ~Saving("best")'
           /\ evals' # <<>> => \E i \in DOMAIN evals' : Kept(i)'
           /\ TargetReached' <=> TargetReached
           /\ Plateaued' <=> Plateaued
<1>1. \A i \in DOMAIN evals : IsBest(i)' <=> IsBest(i)
  BY DEF IsBest
<1>2. \A i \in DOMAIN evals : Kept(i) => Kept(i)'
  BY <1>1 DEF Kept
<1>3. Plateaued' <=> Plateaued
  BY <1>1 DEF Plateaued
<1>. QED
  BY <1>2, <1>3 DEF Judged, TargetReached

\* So do the steps of a save, and when a save of the best policy is over, it is
\* on disk.
LEMMA JudgedSave ==
    ASSUME TypeOK, TypeOK', FilesInOrder, Judged, OpenFile \/ WriteFile
    PROVE  Judged'
<1>1. /\ phase \in {"open", "write"} /\ part \in 1..2 /\ saving \in Checkpoints
      /\ saving' = saving
      /\ UNCHANGED <<num_timesteps, best, no_improve, run, evals>>
  BY DEF OpenFile, WriteFile, TypeOK, learnerVars, callbackVars
<1>2. \A i \in DOMAIN evals : IsBest(i)' <=> IsBest(i)
  BY <1>1 DEF IsBest
<1>3. /\ TargetReached' <=> TargetReached
      /\ Plateaued' <=> Plateaued
  BY <1>1, <1>2 DEF TargetReached, Plateaued
<1>4. CASE saving = "final"
  <2>1. Saving("final") /\ ~Saving("best") /\ ~Saving("best")'
    BY <1>1, <1>4 DEF Saving
  <2>2. \A f \in Files : disk'["best"][f] = disk["best"][f]
    <3>1. \E content \in Stamps : Put(content)
      BY StampType DEF OpenFile, WriteFile
    <3>. QED
      BY <1>4, <3>1, PutType DEF Checkpoints
  <2>3. \A i \in DOMAIN evals : Kept(i) => Kept(i)'
    BY <1>1, <1>2, <2>1, <2>2 DEF Kept
  <2>4. phase' \in {"open", "write", "ended"}
    BY <1>4 DEF OpenFile, WriteFile
  <2>. QED
    BY <1>1, <1>3, <2>1, <2>3, <2>4 DEF Judged
<1>5. CASE saving = "best"
  <2>1. Saving("best") /\ ~Saving("final") /\ ~Saving("final")' /\ evals # <<>>
    BY <1>1, <1>5 DEF Saving, Judged
  <2>2. PICK i \in DOMAIN evals : Kept(i)
    BY <2>1 DEF Judged
  <2>3. CASE phase' \in {"open", "write"}
    <3>1. Saving("best")'
      BY <1>1, <1>5, <2>3 DEF Saving
    <3>2. Kept(i)'
      BY <1>1, <1>2, <2>1, <2>2, <3>1 DEF Kept
    <3>. QED
      BY <1>1, <2>1, <2>3, <3>2 DEF Judged
  <2>4. CASE phase' \notin {"open", "write"}
    <3>1. WriteFile /\ part = 2 /\ phase' = "decide"
      BY <1>1, <1>5, <2>4, SaveOrderType DEF OpenFile, WriteFile
    <3>2. disk["best"]["zip"] = Stamp
      BY <1>1, <1>5, <3>1 DEF FilesInOrder
    <3>3. /\ disk'["best"]["meta"] = Stamp
          /\ disk'["best"]["zip"] = disk["best"]["zip"]
      <4>1. Put(Stamp) /\ SaveOrder[part] = "meta" /\ "zip" \in Files
        BY <3>1, SaveOrderType DEF WriteFile, Files
      <4>. QED
        BY <1>5, <4>1, PutType, StampType DEF Checkpoints
    <3>4. Stamp = [run |-> run, steps |-> evals[i].steps]
      BY <2>1, <2>2 DEF Stamp, Kept
    <3>5. \A f \in Files :
             disk'["best"][f] = [run |-> run', steps |-> evals'[i].steps]
      BY <1>1, <3>2, <3>3, <3>4 DEF Files
    <3>6. ~Saving("best")'
      BY <2>4 DEF Saving
    <3>7. Kept(i)'
      BY <1>1, <1>2, <2>2, <3>5, <3>6 DEF Kept
    <3>. QED
      BY <1>1, <2>1, <3>1, <3>7 DEF Judged
  <2>. QED
    BY <2>3, <2>4
<1>. QED
  BY <1>1, <1>4, <1>5 DEF Checkpoints

\* An element of a sequence is one of the set that the sequence is over.
LEMMA ElementType ==
    ASSUME NEW S, NEW s \in Seq(S), NEW j \in 1..Len(s)
    PROVE  s[j] \in S
OBVIOUS

\* An evaluation that improves on the best one becomes the best one; any other
\* leaves it and is counted.
LEMMA JudgedEvaluate ==
    ASSUME TypeOK, TypeOK', Judged, NEW score \in Scores, Evaluate(score)
    PROVE  Judged'
<1>0. PICK n \in Nat : n = Len(evals)
  BY DEF TypeOK
<1>. DEFINE entry == [score |-> score, steps |-> num_timesteps]
<1>1. /\ phase = "callback" /\ evals' = Append(evals, entry)
      /\ num_timesteps' = num_timesteps /\ disk' = disk /\ run' = run
      /\ no_improve' = Count(score)
      /\ ~Saving("best")
  BY DEF Evaluate, learnerVars, Saving
<1>2. /\ n \in Nat /\ Len(evals') = n + 1 /\ evals'[n + 1] = entry
      /\ \A j \in 1..n : evals'[j] = evals[j]
      /\ evals' # <<>> /\ DOMAIN evals' = 1..(n + 1) /\ DOMAIN evals = 1..n
  <2>1. entry \in [score : Scores, steps : Nat]
    BY DEF TypeOK
  <2>. HIDE DEF entry
  <2>2. evals \in Seq([score : Scores, steps : Nat])
    BY DEF TypeOK
  <2>. QED
    BY <1>0, <1>1, <2>1, <2>2
<1>3. /\ score \in Pairs /\ score[1] \in 0..100
      /\ \A j \in 1..n : evals[j].score \in Pairs
  <2>1. Scores \subseteq Pairs /\ \A t \in Scores : t[1] \in 0..100
    BY TrainingAssumption DEF Pairs
  <2>2. \A j \in 1..n : evals[j].score \in Scores
    <3>1. evals \in Seq([score : Scores, steps : Nat])
      BY DEF TypeOK
    <3>2. \A j \in 1..Len(evals) : evals[j] \in [score : Scores, steps : Nat]
      BY <3>1, ElementType
    <3>. QED
      BY <1>0, <3>2
  <2>. QED
    BY <2>1, <2>2
<1>4. Improved(score) <=> Better(score, best)
  BY DEF Improved, Better
<1>. HIDE DEF entry
<1>5. CASE Improved(score)
  <2>1. /\ phase' = "open" /\ saving' = "best" /\ best' = score /\ no_improve' = 0
    BY <1>1, <1>5 DEF Evaluate, StartSave, Count
  <2>2. Saving("best")' /\ ~Saving("final")'
    BY <2>1 DEF Saving
  <2>3. \A j \in 1..n : Better(score, evals[j].score)
    <3>. TAKE j \in 1..n
    <3>1. evals # <<>>
      BY <1>2
    <3>2. PICK i \in 1..n : Kept(i)
      BY <1>2, <3>1 DEF Judged
    <3>3. Better(score, evals[i].score)
      BY <1>4, <1>5, <3>2 DEF Kept
    <3>4. /\ score \in Pairs /\ evals[i].score \in Pairs /\ evals[j].score \in Pairs
      BY <1>3
    <3>5. CASE j = i
      BY <3>3, <3>5
    <3>6. CASE j \in 1..(i - 1)
      <4>1. Better(evals[i].score, evals[j].score)
        BY <3>2, <3>6 DEF Kept, IsBest
      <4>. QED
        BY <3>3, <3>4, <4>1, BetterOrder
    <3>7. CASE j \in (i + 1)..Len(evals)
      <4>1. ~Better(evals[j].score, evals[i].score)
        BY <3>2, <3>7 DEF Kept, IsBest
      <4>. QED
        BY <3>3, <3>4, <4>1, BetterOrder
    <3>8. j = i \/ j \in 1..(i - 1) \/ j \in (i + 1)..Len(evals)
      BY <1>0, <1>2
    <3>. QED
      BY <3>5, <3>6, <3>7, <3>8
  <2>4. IsBest(n + 1)'
    <3>1. \A j \in 1..n : Better(evals'[n + 1].score, evals'[j].score)
      BY <1>2, <2>3 DEF entry
    <3>2. 1..((n + 1) - 1) = 1..n /\ ((n + 1) + 1)..Len(evals') = {}
      BY <1>2
    <3>. QED
      BY <3>1, <3>2, Zenon DEF IsBest
  <2>5. Kept(n + 1)'
    <3>1. evals'[n + 1].score = score /\ evals'[n + 1].steps = num_timesteps'
      BY <1>1, <1>2 DEF entry
    <3>2. no_improve' = Len(evals') - (n + 1)
      BY <1>2, <2>1
    <3>. QED
      BY <2>1, <2>2, <2>4, <3>1, <3>2 DEF Kept
  <2>6. n + 1 \in DOMAIN evals'
    BY <1>2
  <2>. QED
    BY <1>2, <2>1, <2>2, <2>5, <2>6 DEF Judged
<1>6. CASE ~Improved(score)
  <2>1. /\ phase' = "decide" /\ best' = best /\ no_improve' = no_improve + 1
    BY <1>1, <1>6 DEF Evaluate, Count
  <2>2. ~Saving("best")' /\ ~Saving("final")'
    BY <2>1 DEF Saving
  <2>3. evals # <<>>
    <3>. SUFFICES ASSUME evals = <<>>
                  PROVE  FALSE
      OBVIOUS
    <3>1. best = Unscored
      BY DEF Judged
    <3>2. best[1] = -1
      BY <3>1 DEF Unscored
    <3>3. score[1] > -1
      <4>1. \A x \in 0..100 : x > -1
        OBVIOUS
      <4>. QED
        BY <1>3, <4>1
    <3>. QED
      BY <1>6, <3>2, <3>3 DEF Improved
  <2>4. PICK i \in 1..n : Kept(i)
    BY <1>2, <2>3 DEF Judged
  <2>5. IsBest(i)'
    <3>1. i \in 1..(n + 1) /\ evals'[i] = evals[i]
      BY <1>2
    <3>2. \A j \in 1..(i - 1) : Better(evals'[i].score, evals'[j].score)
      <4>1. \A j \in 1..(i - 1) : evals'[j] = evals[j]
        BY <1>2
      <4>. QED
        BY <2>4, <3>1, <4>1 DEF Kept, IsBest
    <3>3. \A j \in (i + 1)..(n + 1) : ~Better(evals'[j].score, evals'[i].score)
      <4>. TAKE j \in (i + 1)..(n + 1)
      <4>1. CASE j = n + 1
        BY <1>2, <1>4, <1>6, <2>4, <3>1, <4>1 DEF Kept, entry
      <4>2. CASE j # n + 1
        <5>1. j \in (i + 1)..Len(evals) /\ evals'[j] = evals[j]
          BY <1>0, <1>2, <4>2
        <5>. QED
          BY <2>4, <3>1, <5>1 DEF Kept, IsBest
      <4>. QED
        BY <4>1, <4>2
    <3>. QED
      BY <1>2, <3>2, <3>3 DEF IsBest
  <2>6. Kept(i)'
    <3>1. evals'[i] = evals[i]
      BY <1>2
    <3>2. no_improve' = Len(evals') - i
      BY <1>0, <1>2, <2>1, <2>4 DEF Kept
    <3>. QED
      BY <1>1, <2>1, <2>2, <2>4, <2>5, <3>1, <3>2 DEF Kept
  <2>7. i \in DOMAIN evals'
    BY <1>2
  <2>. QED
    BY <1>2, <2>1, <2>2, <2>6, <2>7 DEF Judged
<1>. QED
  BY <1>5, <1>6

\* Every step keeps the invariant.
LEMMA JudgedStep ==
    TypeOK /\ TypeOK' /\ FilesInOrder /\ Judged /\ [Next]_vars => Judged'
<1>. SUFFICES ASSUME TypeOK, TypeOK', FilesInOrder, Judged, [Next]_vars
              PROVE  Judged'
  OBVIOUS
<1>1. CASE OpenFile \/ WriteFile
  BY <1>1, JudgedSave
<1>2. ASSUME NEW score \in Scores, Evaluate(score)
      PROVE  Judged'
  BY <1>2, JudgedEvaluate
<1>3. CASE Collect
  <2>1. /\ UNCHANGED <<evals, best, no_improve, run, disk>>
        /\ phase = "collect" /\ phase' = "callback"
    BY <1>3 DEF Collect, callbackVars, saveVars
  <2>2. /\ ~Saving("best") /\ ~Saving("best")' /\ ~Saving("final")'
    BY <2>1 DEF Saving
  <2>3. /\ evals' = <<>> => best' = Unscored /\ no_improve' = 0 /\ ~Saving("best")'
        /\ evals' # <<>> => \E i \in DOMAIN evals' : Kept(i)'
        /\ TargetReached' <=> TargetReached
        /\ Plateaued' <=> Plateaued
    BY <2>1, <2>2, JudgementStays
  <2>4. ~TargetReached /\ ~Plateaued
    BY <2>1 DEF Judged
  <2>. QED
    BY <2>1, <2>2, <2>3, <2>4 DEF Judged
<1>4. CASE NotDue \/ Decide
  <2>1. /\ UNCHANGED <<evals, best, no_improve, run, disk, num_timesteps>>
        /\ phase \in {"callback", "decide"}
    BY <1>4 DEF NotDue, Decide, Continue, callbackVars, saveVars
  <2>2. \/ phase' = "collect"
        \/ phase' = "open" /\ saving' = "final"
    BY <1>4 DEF NotDue, Decide, Continue, StartSave
  <2>3. ~Saving("best") /\ ~Saving("best")'
    BY <2>1, <2>2 DEF Saving
  <2>4. /\ evals' = <<>> => best' = Unscored /\ no_improve' = 0 /\ ~Saving("best")'
        /\ evals' # <<>> => \E i \in DOMAIN evals' : Kept(i)'
        /\ TargetReached' <=> TargetReached
        /\ Plateaued' <=> Plateaued
    BY <2>1, <2>3, JudgementStays
  <2>5. CASE NotDue
    <3>1. ~TargetReached /\ ~Plateaued
      BY <2>5 DEF NotDue, Judged
    <3>2. phase' = "open" => num_timesteps >= total_timesteps
      BY <2>5, TrainingAssumption DEF NotDue, Continue, TypeOK
    <3>. QED
      BY <2>1, <2>2, <2>4, <3>1, <3>2 DEF Judged, Saving
  <2>6. CASE Decide
    <3>1. phase = "decide" /\ evals # <<>>
      BY <2>6 DEF Decide, Judged
    <3>2. PICK i \in DOMAIN evals : Kept(i)
      BY <3>1 DEF Judged
    <3>3. (evals[Len(evals)].score[1] >= target_success \/ Plateau)
            <=> (TargetReached \/ Plateaued)
      BY <3>1, <3>2, PlateauIsReal DEF TargetReached
    <3>4. CASE TargetReached \/ Plateaued
      <4>1. phase' = "open"
        BY <2>6, <3>3, <3>4 DEF Decide, StartSave
      <4>. QED
        BY <2>2, <2>4, <3>4, <4>1 DEF Judged, Saving
    <3>5. CASE ~(TargetReached \/ Plateaued)
      <4>1. phase' = "open" => num_timesteps >= total_timesteps
        BY <2>6, <3>3, <3>5, TrainingAssumption DEF Decide, Continue, TypeOK
      <4>. QED
        BY <2>1, <2>2, <2>4, <3>5, <4>1 DEF Judged, Saving
    <3>. QED
      BY <3>4, <3>5
  <2>. QED
    BY <1>4, <2>5, <2>6
<1>5. CASE Rerun
  <2>1. /\ phase' = "collect" /\ evals' = <<>> /\ best' = Unscored
        /\ no_improve' = 0
    BY <1>5 DEF Rerun
  <2>2. ~TargetReached' /\ ~Plateaued' /\ ~Saving("best")' /\ ~Saving("final")'
    BY <2>1 DEF TargetReached, Plateaued, Saving
  <2>. QED
    BY <2>1, <2>2 DEF Judged
<1>6. CASE UNCHANGED vars
  <2>1. UNCHANGED <<evals, best, no_improve, run, disk, num_timesteps, phase, saving>>
    BY <1>6 DEF vars, learnerVars, callbackVars, saveVars
  <2>2. \A c \in Checkpoints : Saving(c)' <=> Saving(c)
    BY <2>1 DEF Saving
  <2>3. \A i \in DOMAIN evals : (IsBest(i)' <=> IsBest(i)) /\ (Kept(i)' <=> Kept(i))
    BY <2>1, <2>2 DEF IsBest, Kept, Checkpoints
  <2>4. (TargetReached' <=> TargetReached) /\ (Plateaued' <=> Plateaued)
    BY <2>1, <2>3 DEF TargetReached, Plateaued
  <2>. QED
    BY <2>1, <2>2, <2>3, <2>4 DEF Judged, Checkpoints
<1>. QED
  BY <1>1, <1>2, <1>3, <1>4, <1>5, <1>6 DEF Next

\* Before the first evaluation there is nothing to judge.
LEMMA JudgedInit == Init => Judged
<1>. SUFFICES ASSUME Init
              PROVE  Judged
  OBVIOUS
<1>1. phase = "collect" /\ evals = <<>> /\ best = Unscored /\ no_improve = 0
  BY DEF Init
<1>2. ~TargetReached /\ ~Plateaued /\ ~Saving("best") /\ ~Saving("final")
  BY <1>1 DEF TargetReached, Plateaued, Saving
<1>. QED
  BY <1>1, <1>2 DEF Judged

\* Whatever the learner makes of the policy later, the best one that this run has
\* evaluated is on disk, complete and with its own metadata, except while a better
\* one replaces it.
THEOREM BestIsOnDisk == Spec => []BestOnDisk
<1>1. TypeOK /\ Judged => BestOnDisk
  <2>. SUFFICES ASSUME TypeOK, Judged, NEW i \in DOMAIN evals, IsBest(i),
                       ~Saving("best"), NEW f \in Files
                PROVE  disk["best"][f] = [run |-> run, steps |-> evals[i].steps]
    BY DEF BestOnDisk
  <2>1. evals # <<>>
    OBVIOUS
  <2>2. PICK j \in DOMAIN evals : Kept(j)
    BY <2>1 DEF Judged
  <2>3. j = i
    BY <2>2, BestIsUnique DEF Kept
  <2>. QED
    BY <2>2, <2>3 DEF Kept
<1>. QED
  BY <1>1, TypeCorrect, FilesInit, FilesStep, JudgedInit, JudgedStep, PTL DEF Spec

\* A run goes on until its timesteps are used up, the target is reached or the
\* evaluations have reached a plateau, and no longer.
THEOREM RunStopsWhenDone == Spec => []StopsWhenDone
<1>1. Judged => StopsWhenDone
  BY DEF Judged, StopsWhenDone
<1>. QED
  BY <1>1, TypeCorrect, FilesInit, FilesStep, JudgedInit, JudgedStep, PTL DEF Spec
=============================================================================
