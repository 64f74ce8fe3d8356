-------------------------- MODULE EvalStopCallback --------------------------
(***************************************************************************)
(* A training run of train.py: the learning loop, the callback that        *)
(* evaluates the policy, keeps the best one and stops the run, and the two *)
(* files (model and metadata) of each of its two checkpoints.              *)
(*                                                                         *)
(* A run may be killed at any moment, inside a save included, and a run    *)
(* that was killed or has ended may be started again with the same         *)
(* command: the memory of the callback is new then, the files are not.     *)
(*                                                                         *)
(* The learner is not part of this repository: it steps n_envs             *)
(* environments at once, calls the callback after each step, and asks      *)
(* whether total_timesteps are reached only after a whole rollout.  What   *)
(* the policy scores is a choice of Evaluate.                              *)
(***************************************************************************)
EXTENDS Integers, Sequences

CONSTANTS
    total_timesteps,    \* --timesteps
    n_envs,             \* timesteps of one step of the learner
    RolloutSteps,       \* steps of a rollout
    eval_freq_ts,       \* timesteps between evaluations
    target_success,     \* success rate that ends the run, in percent
    patience,           \* evaluations without improvement that end it ...
    stop_floor,         \* ... once the best success rate has reached this
    Scores,             \* <<success rate in percent, mean reward>>
    MaxRuns             \* bound on the runs of the same command

ASSUME TrainingAssumption ==
    /\ total_timesteps \in Nat \ {0}
    /\ n_envs \in Nat \ {0}
    /\ RolloutSteps \in Nat \ {0}
    /\ eval_freq_ts \in Nat \ {0}
    /\ target_success \in Int
    /\ patience \in Nat
    /\ stop_floor \in Int
    /\ Scores \subseteq (0..100) \X Int
    /\ MaxRuns \in Nat \ {0}

VARIABLES
    phase,          \* "collect", "callback", "open", "write", "decide", "ended"
    num_timesteps,
    collected,      \* steps of the current rollout
    next_eval,      \* _next_eval
    best,           \* <<_best_success, _best_reward>>
    no_improve,     \* _no_improve
    saving,         \* the checkpoint that is being saved
    part,           \* which of its files
    disk,           \* the files: the run and the timesteps they were saved at
    (***********************************************************************)
    (* History: the number of this run, and its evaluations.               *)
    (***********************************************************************)
    run,
    evals

learnerVars == <<num_timesteps, collected>>
callbackVars == <<next_eval, best, no_improve>>
saveVars == <<saving, part, disk>>
vars == <<phase, learnerVars, callbackVars, saveVars, run, evals>>

Checkpoints == {"best", "final"}
Files == {"zip", "meta"}

\* Mutant: the metadata is written first.
SaveOrderMetaFirst == <<"meta", "zip">>

\* model.save, then save_meta
SaveOrder == <<"zip", "meta">>

\* A file that is not there, or cut short
Missing == [run |-> 0, steps |-> 0]

\* What a save writes into both files
Stamp == [run |-> run, steps |-> num_timesteps]

\* _best_success and _best_reward before the first evaluation: below any score
Unscored == <<-1, 0>>

Init ==
    /\ phase = "collect"
    /\ num_timesteps = 0
    /\ collected = 0
    /\ next_eval = eval_freq_ts
    /\ best = Unscored
    /\ no_improve = 0
    /\ saving = "best"
    /\ part = 1
    /\ disk = [c \in Checkpoints |-> [f \in Files |-> Missing]]
    /\ run = 1
    /\ evals = <<>>

-----------------------------------------------------------------------------
(***************************************************************************)
(* Saving.  Both the model and the metadata are opened for writing, which  *)
(* cuts the file short, and then written.                                  *)
(***************************************************************************)

StartSave(checkpoint) ==
    /\ phase'  = "open"
    /\ saving' = checkpoint
    /\ part'   = 1

Put(content) ==
    disk' = [disk EXCEPT ![saving][SaveOrder[part]] = content]

OpenFile ==
    /\ phase = "open"
    /\ Put(Missing)
    /\ phase' = "write"
    /\ UNCHANGED <<learnerVars, callbackVars, saving, part, run, evals>>

WriteFile ==
    /\ phase = "write"
    /\ Put(Stamp)
    /\ IF part < Len(SaveOrder)
       THEN phase' = "open" /\ part' = part + 1
       ELSE /\ phase' = IF saving = "best" THEN "decide" ELSE "ended"
            /\ part'  = part
    /\ UNCHANGED <<learnerVars, callbackVars, saving, run, evals>>

(***************************************************************************)
(* The learning loop                                                       *)
(***************************************************************************)

\* One step of the environments
Collect ==
    /\ phase = "collect"
    /\ num_timesteps' = num_timesteps + n_envs
    /\ collected' = collected + 1
    /\ phase' = "callback"
    /\ UNCHANGED <<callbackVars, saveVars, run, evals>>

\* The callback has returned True: the rollout goes on, or a new one starts, or
\* the timesteps are used up and main saves the final model.
Continue ==
    IF collected < RolloutSteps
    THEN /\ phase' = "collect"
         /\ UNCHANGED <<collected, saveVars>>
    ELSE /\ collected' = 0
         /\ IF num_timesteps < total_timesteps
            THEN phase' = "collect" /\ UNCHANGED saveVars
            ELSE StartSave("final") /\ UNCHANGED disk

(***************************************************************************)
(* EvalStopCallback._on_step                                               *)
(***************************************************************************)

NotDue ==
    /\ phase = "callback"
    /\ num_timesteps < next_eval
    /\ Continue
    /\ UNCHANGED <<num_timesteps, callbackVars, run, evals>>

\* Mutant: a higher reward is an improvement at any success rate.
ImprovedByEither(score) ==
    \/ score[1] > best[1]
    \/ score[2] > best[2]

Improved(score) ==
    \/ score[1] > best[1]
    \/ score[1] = best[1] /\ score[2] > best[2]

\* Mutant: an improvement does not end a series of evaluations without one.
CountKeeping(score) ==
    IF Improved(score) THEN no_improve ELSE no_improve + 1

\* _no_improve after an evaluation
Count(score) ==
    IF Improved(score) THEN 0 ELSE no_improve + 1

\* Mutant: the next evaluation is not put off.
NextEvalNow == next_eval

\* _next_eval after an evaluation, counted from when it really took place
NextEval == num_timesteps + eval_freq_ts

\* _run_eval and what follows up to the saving of a new best policy
Evaluate(score) ==
    /\ phase = "callback"
    /\ num_timesteps >= next_eval
    /\ next_eval'  = NextEval
    /\ no_improve' = Count(score)
    /\ evals' = Append(evals, [score |-> score, steps |-> num_timesteps])
    /\ IF Improved(score)
       THEN best' = score /\ StartSave("best")
       ELSE best' = best /\ phase' = "decide" /\ UNCHANGED <<saving, part>>
    /\ UNCHANGED <<learnerVars, disk, run>>

Plateau ==
    /\ best[1] >= stop_floor
    /\ no_improve >= patience

\* The rest of _on_step.  Returning False ends the learning: main saves.
Decide ==
    /\ phase = "decide"
    /\ IF evals[Len(evals)].score[1] >= target_success \/ Plateau
       THEN StartSave("final") /\ UNCHANGED <<collected, disk>>
       ELSE Continue
    /\ UNCHANGED <<num_timesteps, callbackVars, run, evals>>

(***************************************************************************)
(* The same command again, after the run was killed or has ended           *)
(***************************************************************************)

Rerun ==
    /\ run < MaxRuns
    /\ run' = run + 1
    /\ phase' = "collect"
    /\ num_timesteps' = 0
    /\ collected' = 0
    /\ next_eval' = eval_freq_ts
    /\ best' = Unscored
    /\ no_improve' = 0
    /\ saving' = "best"
    /\ part' = 1
    /\ evals' = <<>>
    /\ UNCHANGED disk

Next ==
    \/ Collect
    \/ NotDue
    \/ \E score \in Scores : Evaluate(score)
    \/ OpenFile
    \/ WriteFile
    \/ Decide
    \/ Rerun

Spec == Init /\ [][Next]_vars

-----------------------------------------------------------------------------
(***************************************************************************)
(* Properties                                                              *)
(***************************************************************************)

Stamps == [run : Nat, steps : Nat]

\* Every variable has its type; environments are stepped only while no evaluation
\* is due and the rollout is not complete.
TypeOK ==
    /\ phase \in {"collect", "callback", "open", "write", "decide", "ended"}
    /\ num_timesteps \in Nat
    /\ collected \in 0..RolloutSteps
    /\ phase = "collect" => collected < RolloutSteps /\ num_timesteps < next_eval
    /\ next_eval \in Nat
    /\ best \in Scores \cup {Unscored}
    /\ no_improve \in Nat
    /\ saving \in Checkpoints
    /\ part \in 1..2
    /\ disk \in [Checkpoints -> [Files -> Stamps]]
    /\ run \in 1..MaxRuns
    /\ evals \in Seq([score : Scores, steps : Nat])

\* Score s is better than score t: more successes, or as many and more reward.
Better(s, t) == s[1] > t[1] \/ (s[1] = t[1] /\ s[2] > t[2])

\* Evaluation i of this run is the first of its best ones.
IsBest(i) ==
    /\ \A j \in 1..(i - 1) : Better(evals[i].score, evals[j].score)
    /\ \A j \in (i + 1)..Len(evals) : ~Better(evals[j].score, evals[i].score)

Saving(checkpoint) == phase \in {"open", "write"} /\ saving = checkpoint

\* After each evaluation the best policy of the run is on disk, with metadata of
\* its own, whatever comes later ("a late collapse can never destroy your result
\* - the best checkpoint is already on disk", train.py).
BestOnDisk ==
    \A i \in DOMAIN evals :
        IsBest(i) /\ ~Saving("best") =>
            \A f \in Files :
                disk["best"][f] = [run |-> run, steps |-> evals[i].steps]

\* The last evaluation has reached the target.
TargetReached ==
    evals # <<>> /\ evals[Len(evals)].score[1] >= target_success

\* The best evaluation is good enough, and patience evaluations have followed it,
\* none of them better.
Plateaued ==
    \E i \in DOMAIN evals :
        /\ IsBest(i)
        /\ evals[i].score[1] >= stop_floor
        /\ Len(evals) - i >= patience

\* A run goes on while it has timesteps left and neither the target nor a plateau
\* is reached, and it ends only then.
StopsWhenDone ==
    /\ phase = "collect" => ~TargetReached /\ ~Plateaued
    /\ phase = "ended" \/ Saving("final") =>
        TargetReached \/ Plateaued \/ num_timesteps >= total_timesteps

\* Whether a was saved no later than b
NoLaterThan(a, b) == a.run < b.run \/ (a.run = b.run /\ a.steps <= b.steps)

\* The metadata beside a complete model never describes a later model: a run
\* that is killed inside a save leaves metadata that is too old at worst, and
\* never vouches for timesteps that the model has not had.
MetaNeverAhead ==
    \A c \in Checkpoints :
        disk[c]["zip"] # Missing =>
            NoLaterThan(disk[c]["meta"], disk[c]["zip"])
=============================================================================
