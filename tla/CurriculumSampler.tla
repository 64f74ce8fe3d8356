------------------------- MODULE CurriculumSampler -------------------------
(***************************************************************************)
(* The training curriculum (curriculum.py) inside the episode loop of one  *)
(* training environment: SocialNavEnv.reset hands the result of the last   *)
(* episode to the sampler, which records it, may advance the level, and    *)
(* draws the next episode; SocialNavEnv.step ends the episode and keeps    *)
(* its result.  With --require-feasible, train.py wraps the sampler and    *)
(* draws again until the feasibility oracle accepts the episode.           *)
(*                                                                         *)
(* Each environment process has a curriculum of its own, so one            *)
(* environment is the whole system.  What an episode is (map, scenario,    *)
(* seed) is left out; what the policy makes of it is a choice of Step.     *)
(***************************************************************************)
EXTENDS Integers, Sequences, FiniteSets

CONSTANTS
    NumLevels,          \* len(levels)
    window,             \* episodes averaged for advancement
    advance_threshold,  \* success rate to move up, in percent
    max_steps,          \* steps after which an episode is truncated
    MaxDraws,           \* redraws of the feasibility wrapper (40 in the code)
    MaxEpisodes,        \* bound on the episodes of a training run
    None                \* _prev_success before the first episode has ended

ASSUME CurriculumAssumption ==
    /\ NumLevels \in Nat \ {0}
    /\ window \in Nat \ {0}
    /\ advance_threshold \in Nat
    /\ max_steps \in Nat \ {0}
    /\ MaxDraws \in Nat
    /\ MaxEpisodes \in Nat
    /\ None \notin BOOLEAN

VARIABLES
    require_feasible,   \* the command-line option, fixed for a run
    phase,              \* "reset", "check" (the wrapper's loop) or "play"
    level,
    results,            \* _results, the episodes recorded at this level
    prev_success,       \* _prev_success of the environment
    steps,              \* _steps of the running episode
    draws,              \* redraws of the wrapper for this episode
    (***********************************************************************)
    (* History, for the properties: the level each episode was played at,  *)
    (* and whether each finished one succeeded.                            *)
    (***********************************************************************)
    levels,
    outcomes

curriculumVars == <<level, results>>
historyVars == <<levels, outcomes>>
vars == <<require_feasible, phase, level, results, prev_success, steps, draws,
          levels, outcomes>>

Levels == 0..(NumLevels - 1)

Init ==
    /\ require_feasible \in BOOLEAN
    /\ phase = "reset"
    /\ level = 0
    /\ results = <<>>
    /\ prev_success = None
    /\ steps = 0
    /\ draws = 0
    /\ levels = <<>>
    /\ outcomes = <<>>

-----------------------------------------------------------------------------
(***************************************************************************)
(* Curriculum.record                                                       *)
(***************************************************************************)

\* The number of successes among the last window entries of s up to n
Successes(s, n) == Cardinality({i \in (n - window + 1)..n : s[i]})

\* The rolling success rate at n clears the threshold.
Clears(s, n) ==
    /\ n >= window
    /\ Successes(s, n) * 100 >= advance_threshold * window

\* Mutant: the results of a level are kept when it is left.
RecordKeeping(success) ==
    LET recorded == Append(results, success)
        advance  == Clears(recorded, Len(recorded)) /\ level < NumLevels - 1
    IN  /\ level'   = IF advance THEN level + 1 ELSE level
        /\ results' = recorded

\* Mutant: the rate is taken over blocks of window episodes, not rolling.
RecordInBlocks(success) ==
    LET recorded == Append(results, success)
        full     == Len(recorded) = window
        advance  == Clears(recorded, Len(recorded)) /\ level < NumLevels - 1
    IN  /\ level'   = IF full /\ advance THEN level + 1 ELSE level
        /\ results' = IF full THEN <<>> ELSE recorded

\* Curriculum.record: the level advances and the window is cleared, or the result
\* is only appended.
Record(success) ==
    LET recorded == Append(results, success)
        advance  == Clears(recorded, Len(recorded)) /\ level < NumLevels - 1
    IN  /\ level'   = IF advance THEN level + 1 ELSE level
        /\ results' = IF advance THEN <<>> ELSE recorded

\* sample(prev_success) of curriculum_sampler: record what there is to record;
\* the episode is then drawn at the level that results.
CallSampler ==
    IF prev_success = None
    THEN UNCHANGED curriculumVars
    ELSE Record(prev_success)

(***************************************************************************)
(* SocialNavEnv.reset                                                      *)
(***************************************************************************)

Reset ==
    /\ phase = "reset"
    /\ Len(levels) < MaxEpisodes
    /\ CallSampler
    /\ steps' = 0
    /\ draws' = 0
    /\ phase'  = IF require_feasible THEN "check" ELSE "play"
    /\ levels' = IF require_feasible THEN levels ELSE Append(levels, level')
    /\ UNCHANGED <<require_feasible, prev_success, outcomes>>

\* The wrapper's oracle rejects the episode: the sampler is called again.
Redraw ==
    /\ phase = "check"
    /\ draws < MaxDraws
    /\ CallSampler
    /\ draws' = draws + 1
    /\ UNCHANGED <<require_feasible, phase, prev_success, steps, levels, outcomes>>

\* It accepts the episode, or the wrapper has drawn often enough.
Accept ==
    /\ phase = "check"
    /\ phase'  = "play"
    /\ levels' = Append(levels, level)
    /\ UNCHANGED <<require_feasible, level, results, prev_success, steps, draws,
                   outcomes>>

(***************************************************************************)
(* SocialNavEnv.step, with the robot at the goal or not, and in collision  *)
(* (with the world or with a person) or not.  A vectorised environment     *)
(* resets by itself when an episode is over.                               *)
(***************************************************************************)

\* Mutant: an episode is truncated one step late.
OverLate(reached, collision, taken) ==
    reached \/ collision \/ taken > max_steps

\* terminated or truncated
Over(reached, collision, taken) ==
    reached \/ collision \/ taken >= max_steps

Step(reached, collision) ==
    LET success == reached /\ ~collision
    IN  /\ phase = "play"
        /\ steps' = steps + 1
        /\ IF Over(reached, collision, steps + 1)
           THEN /\ prev_success' = success
                /\ outcomes' = Append(outcomes, success)
                /\ phase' = "reset"
           ELSE UNCHANGED <<prev_success, outcomes, phase>>
        /\ UNCHANGED <<require_feasible, level, results, draws, levels>>

Next ==
    \/ Reset
    \/ Redraw
    \/ Accept
    \/ \E reached, collision \in BOOLEAN : Step(reached, collision)

Spec == Init /\ [][Next]_vars

-----------------------------------------------------------------------------
(***************************************************************************)
(* Properties                                                              *)
(***************************************************************************)

\* Every variable has its type; an episode has a length within its limit, and
\* the history has an outcome for every episode but the running one.
TypeOK ==
    /\ require_feasible \in BOOLEAN
    /\ phase \in {"reset", "check", "play"}
    /\ level \in Levels
    /\ results \in Seq(BOOLEAN)
    /\ prev_success \in BOOLEAN \cup {None}
    /\ steps \in 0..max_steps
    /\ phase # "reset" => steps < max_steps
    /\ draws \in 0..MaxDraws
    /\ levels \in Seq(Levels)
    /\ outcomes \in Seq(BOOLEAN)
    /\ Len(levels) = Len(outcomes) + (IF phase = "play" THEN 1 ELSE 0)

\* A level is entered only on the strength of window successive episodes, all
\* of them played at the level below, whose success rate clears the threshold
\* (curriculum.py: "Levels advance when a rolling success rate clears a
\* threshold", "episodes averaged for advancement"): no result counts twice, and
\* none of an easier level counts for a harder one.
LevelEarned ==
    \A l \in 1..level :
        \E k \in window..Len(outcomes) :
            /\ Clears(outcomes, k)
            /\ \A i \in (k - window + 1)..k : levels[i] = l - 1

\* So it is whenever the sampler is called once for each episode, that is
\* without --require-feasible.
LevelEarnedUnfiltered == ~require_feasible => LevelEarned

\* Without --require-feasible, a level that is won is left at once: after window
\* successive episodes of one level that clear the threshold, every later episode
\* is of a harder level.
NoLevelHeldBack ==
    ~require_feasible =>
        \A k \in window..Len(outcomes) :
            (/\ Clears(outcomes, k)
             /\ \A i \in (k - window + 1)..k : levels[i] = levels[k]
             /\ levels[k] < NumLevels - 1)
            => \A i \in (k + 1)..Len(levels) : levels[i] > levels[k]
=============================================================================
