---------------------- MODULE CurriculumSampler_proofs ----------------------
(***************************************************************************)
(* Proofs about CurriculumSampler, for every number of levels, window,     *)
(* threshold and episode length: type correctness, and that without the    *)
(* feasibility wrapper a level is left when, and only when, window         *)
(* successive episodes of it have cleared the threshold.                   *)
(***************************************************************************)
EXTENDS CurriculumSampler, FiniteSetTheorems, TLAPS

-----------------------------------------------------------------------------
(***************************************************************************)
(* Type correctness                                                        *)
(***************************************************************************)

\* Recording a result keeps the level within range and the results Boolean.
LEMMA RecordType ==
    ASSUME level \in Levels, results \in Seq(BOOLEAN),
           NEW success \in BOOLEAN, Record(success)
    PROVE  level' \in Levels /\ results' \in Seq(BOOLEAN)
<1>1. Append(results, success) \in Seq(BOOLEAN)
  OBVIOUS
<1>2. /\ level' \in {level, level + 1}
      /\ level' = level + 1 => level < NumLevels - 1
      /\ results' \in {<<>>, Append(results, success)}
  BY DEF Record
<1>3. level' \in Levels
  BY <1>2, CurriculumAssumption DEF Levels
<1>4. <<>> \in Seq(BOOLEAN)
  OBVIOUS
<1>. QED
  BY <1>1, <1>2, <1>3, <1>4, Zenon

\* So does a call of the sampler.
LEMMA CallSamplerType ==
    ASSUME TypeOK, CallSampler
    PROVE  level' \in Levels /\ results' \in Seq(BOOLEAN)
<1>1. CASE prev_success = None
  BY <1>1 DEF CallSampler, curriculumVars, TypeOK
<1>2. CASE prev_success # None
  BY <1>2, RecordType DEF CallSampler, TypeOK
<1>. QED
  BY <1>1, <1>2

\* Every step keeps the types.
LEMMA TypeStep == TypeOK /\ [Next]_vars => TypeOK'
<1>. SUFFICES ASSUME TypeOK, [Next]_vars
              PROVE  TypeOK'
  OBVIOUS
<1>. USE CurriculumAssumption
<1>1. CASE Reset
  <2>1. level' \in Levels /\ results' \in Seq(BOOLEAN)
    BY <1>1, CallSamplerType DEF Reset
  <2>2. /\ levels' \in Seq(Levels)
        /\ Len(levels') = Len(levels) + (IF phase' = "play" THEN 1 ELSE 0)
    BY <1>1, <2>1 DEF Reset, TypeOK
  <2>3. /\ phase = "reset" /\ phase' \in {"check", "play"}
        /\ steps' = 0 /\ draws' = 0
        /\ UNCHANGED <<require_feasible, prev_success, outcomes>>
    BY <1>1 DEF Reset
  <2>. QED
    BY <2>1, <2>2, <2>3 DEF TypeOK
<1>2. CASE Redraw
  <2>1. level' \in Levels /\ results' \in Seq(BOOLEAN)
    BY <1>2, CallSamplerType DEF Redraw
  <2>. QED
    BY <1>2, <2>1 DEF Redraw, TypeOK
<1>3. CASE Accept
  <2>1. levels' \in Seq(Levels) /\ Len(levels') = Len(levels) + 1
    BY <1>3 DEF Accept, TypeOK
  <2>. QED
    BY <1>3, <2>1 DEF Accept, TypeOK
<1>4. ASSUME NEW reached \in BOOLEAN, NEW collision \in BOOLEAN,
             Step(reached, collision)
      PROVE  TypeOK'
  <2>. DEFINE success == reached /\ ~collision
  <2>1. success \in BOOLEAN
    OBVIOUS
  <2>2. Append(outcomes, success) \in Seq(BOOLEAN)
        /\ Len(Append(outcomes, success)) = Len(outcomes) + 1
    BY <2>1 DEF TypeOK
  <2>. HIDE DEF success
  <2>3. CASE Over(reached, collision, steps + 1)
    <3>1. /\ prev_success' = success
          /\ outcomes' = Append(outcomes, success)
          /\ phase = "play" /\ phase' = "reset"
          /\ steps' = steps + 1
          /\ UNCHANGED <<require_feasible, level, results, draws, levels>>
      BY <1>4, <2>3 DEF Step, success
    <3>. QED
      BY <2>1, <2>2, <3>1 DEF TypeOK
  <2>4. CASE ~Over(reached, collision, steps + 1)
    <3>1. steps + 1 < max_steps
      BY <2>4 DEF Over, TypeOK
    <3>. QED
      BY <1>4, <2>4, <3>1 DEF Step, TypeOK
  <2>. QED
    BY <2>3, <2>4
<1>5. CASE UNCHANGED vars
  BY <1>5 DEF vars, TypeOK
<1>. QED
  BY <1>1, <1>2, <1>3, <1>4, <1>5 DEF Next

\* Every state of a training run is well typed: episodes stay within max_steps,
\* the level within the levels, the redraws within their number.
THEOREM TypeCorrect == Spec => []TypeOK
<1>1. Init => TypeOK
  BY CurriculumAssumption DEF Init, TypeOK, Levels
<1>. QED
  BY <1>1, TypeStep, PTL DEF Spec

-----------------------------------------------------------------------------
(***************************************************************************)
(* Counting successes                                                      *)
(***************************************************************************)

\* A window of results holds as many successes as the window of outcomes it was
\* recorded from.
LEMMA ShiftedSuccesses ==
    ASSUME NEW r \in Seq(BOOLEAN), NEW o \in Seq(BOOLEAN),
           NEW d \in Nat, NEW m \in Nat, window <= m,
           \A j \in 1..m : r[j] = o[d + j]
    PROVE  Successes(r, m) = Successes(o, d + m)
<1>. DEFINE S == {i \in (m - window + 1)..m : r[i]}
            T == {i \in ((d + m) - window + 1)..(d + m) : o[i]}
            f == [i \in S |-> i + d]
<1>0. window \in Nat \ {0}
  BY CurriculumAssumption
<1>1. \A i \in S : i \in 1..m /\ i + d \in T
  BY <1>0
<1>2. \A i \in T : i - d \in S /\ i \in Int
  <2>. SUFFICES ASSUME NEW i \in T
                PROVE  i - d \in S /\ i \in Int
    OBVIOUS
  <2>1. i \in ((d + m) - window + 1)..(d + m) /\ o[i]
    OBVIOUS
  <2>2. i \in Int /\ i - d \in (m - window + 1)..m /\ i - d \in 1..m
    BY <1>0, <2>1
  <2>3. d + (i - d) = i
    BY <2>2
  <2>4. r[i - d] = o[i]
    BY <2>2, <2>3
  <2>. QED
    BY <2>1, <2>2, <2>4
<1>3. f \in [S -> T]
  BY <1>1
<1>4. \A i, j \in S : f[i] = f[j] => i = j
  BY <1>1
<1>5. \A t \in T : \E i \in S : f[i] = t
  <2>. TAKE t \in T
  <2>1. t - d \in S /\ f[t - d] = t
    BY <1>2
  <2>. QED
    BY <2>1
<1>6. IsFiniteSet(S)
  <2>1. IsFiniteSet((m - window + 1)..m)
    BY <1>0, FS_Interval
  <2>2. S \subseteq (m - window + 1)..m
    OBVIOUS
  <2>. QED
    BY <2>1, <2>2, FS_Subset
<1>. HIDE DEF S, T, f
<1>7. f \in Bijection(S, T)
  BY <1>3, <1>4, <1>5 DEF Bijection, Injection, Surjection, IsInjective
<1>8. ExistsBijection(S, T)
  BY <1>7 DEF ExistsBijection
<1>9. Cardinality(T) = Cardinality(S)
  BY <1>6, <1>8, FS_Bijection
<1>10. Successes(r, m) = Cardinality(S)
  BY Zenon DEF Successes, S
<1>11. Successes(o, d + m) = Cardinality(T)
  BY Zenon DEF Successes, T
<1>. QED
  BY <1>9, <1>10, <1>11

\* So it clears the threshold exactly when that window does.
LEMMA ShiftedClears ==
    ASSUME NEW r \in Seq(BOOLEAN), NEW o \in Seq(BOOLEAN),
           NEW d \in Nat, NEW m \in Nat, window <= m,
           \A j \in 1..m : r[j] = o[d + j]
    PROVE  Clears(r, m) <=> Clears(o, d + m)
<1>1. Successes(r, m) = Successes(o, d + m)
  BY ShiftedSuccesses
<1>2. m >= window /\ d + m >= window
  BY CurriculumAssumption
<1>. QED
  BY <1>1, <1>2 DEF Clears

\* An outcome appended later changes no earlier window.
LEMMA AppendedClears ==
    ASSUME NEW o \in Seq(BOOLEAN), NEW x \in BOOLEAN,
           NEW k \in window..Len(o)
    PROVE  Clears(Append(o, x), k) <=> Clears(o, k)
<1>1. \A i \in (k - window + 1)..k : Append(o, x)[i] = o[i]
  BY CurriculumAssumption
<1>2. {i \in (k - window + 1)..k : Append(o, x)[i]}
        = {i \in (k - window + 1)..k : o[i]}
  BY <1>1
<1>. QED
  BY <1>2 DEF Clears, Successes

-----------------------------------------------------------------------------
(***************************************************************************)
(* The inductive invariant.  The results of the curriculum are the         *)
(* outcomes of the last episodes recorded, every one of them played at the *)
(* current level, and every earlier episode was played at a lower level:   *)
(* this is what clearing the results with each advance achieves.           *)
(***************************************************************************)

\* The number of episodes recorded: the last one is not until the next reset.
Recorded ==
    IF phase = "reset" /\ outcomes # <<>> THEN Len(outcomes) - 1 ELSE Len(outcomes)

\* Those among them that were recorded at a lower level
Base == Recorded - Len(results)

Bookkeeping ==
    /\ phase # "check"
    /\ Len(results) <= Recorded
    /\ \A j \in 1..Len(results) : results[j] = outcomes[Base + j]
    /\ \A i \in 1..Base : levels[i] < level
    /\ \A i \in (Base + 1)..Len(levels) : levels[i] = level
    /\ outcomes = <<>> => prev_success = None
    /\ outcomes # <<>> => prev_success = outcomes[Len(outcomes)]

\* Episode k completes a window that wins its level.
Won(k) ==
    /\ Clears(outcomes, k)
    /\ \A i \in (k - window + 1)..k : levels[i] = levels[k]
    /\ levels[k] < NumLevels - 1

\* A level won by a recorded episode has been left.
WonLeft ==
    \A k \in window..Recorded :
        Won(k) => /\ levels[k] < level
                  /\ \A i \in (k + 1)..Len(levels) : levels[i] > levels[k]

IInv == ~require_feasible => Bookkeeping /\ LevelEarned /\ WonLeft

\* The invariant holds initially: nothing has been recorded.
LEMMA IInvInit == Init => IInv
<1>. SUFFICES ASSUME Init
              PROVE  Bookkeeping /\ LevelEarned /\ WonLeft
  BY DEF IInv
<1>1. Recorded = 0 /\ Base = 0
  BY DEF Init, Recorded, Base
<1>. QED
  BY <1>1, CurriculumAssumption DEF Init, Bookkeeping, LevelEarned, WonLeft

\* A level once earned stays earned while the history only grows.
LEMMA EarnedStays ==
    ASSUME TypeOK, TypeOK', LevelEarned,
           Len(outcomes) <= Len(outcomes'),
           \A k \in window..Len(outcomes) :
               Clears(outcomes', k) <=> Clears(outcomes, k),
           \A i \in 1..Len(outcomes) : levels'[i] = levels[i],
           NEW l \in 1..level
    PROVE  \E k \in window..Len(outcomes') :
               /\ Clears(outcomes', k)
               /\ \A i \in (k - window + 1)..k : levels'[i] = l - 1
<1>1. PICK k \in window..Len(outcomes) :
             /\ Clears(outcomes, k)
             /\ \A i \in (k - window + 1)..k : levels[i] = l - 1
  BY DEF LevelEarned
<1>2. k \in window..Len(outcomes') /\ (k - window + 1)..k \subseteq 1..Len(outcomes)
  BY CurriculumAssumption DEF TypeOK
<1>. QED
  BY <1>1, <1>2

\* An episode wins its level then if it did before.
LEMMA WonStays ==
    ASSUME TypeOK,
           \A k \in window..Len(outcomes) :
               Clears(outcomes', k) <=> Clears(outcomes, k),
           \A i \in 1..Len(outcomes) : levels'[i] = levels[i],
           NEW k \in window..Len(outcomes)
    PROVE  Won(k)' <=> Won(k)
<1>1. k \in 1..Len(outcomes) /\ (k - window + 1)..k \subseteq 1..Len(outcomes)
  BY CurriculumAssumption DEF TypeOK
<1>2. levels'[k] = levels[k]
  BY <1>1
<1>3. (\A i \in (k - window + 1)..k : levels'[i] = levels'[k])
        <=> (\A i \in (k - window + 1)..k : levels[i] = levels[k])
  BY <1>1, <1>2
<1>. QED
  BY <1>2, <1>3 DEF Won

\* A reset that has nothing to record starts the first episode.
LEMMA FirstReset ==
    ASSUME TypeOK, TypeOK', ~require_feasible, Bookkeeping, LevelEarned, WonLeft,
           Reset, prev_success = None
    PROVE  Bookkeeping' /\ LevelEarned' /\ WonLeft'
<1>1. outcomes = <<>> /\ Len(outcomes) = 0 /\ Len(levels) = 0
  BY CurriculumAssumption DEF TypeOK, Bookkeeping, Reset
<1>2. /\ level' = level /\ results' = results
      /\ outcomes' = outcomes /\ prev_success' = prev_success
      /\ phase' = "play" /\ levels' = Append(levels, level)
  BY DEF Reset, CallSampler, curriculumVars
<1>3. Recorded = 0 /\ Recorded' = 0 /\ Len(results) = 0
  BY <1>1, <1>2 DEF Recorded, Bookkeeping, TypeOK
<1>4. Base = 0 /\ Base' = 0
  BY <1>2, <1>3 DEF Base
<1>5. Len(levels') = 1 /\ levels'[1] = level
  BY <1>1, <1>2 DEF TypeOK
<1>6. Bookkeeping'
  BY <1>1, <1>2, <1>3, <1>4, <1>5 DEF Bookkeeping
<1>7. level = 0
  <2>1. window \in Nat /\ window > 0 /\ level \in Nat
    BY CurriculumAssumption DEF TypeOK, Levels
  <2>2. level > 0 => level \in 1..level
    BY <2>1
  <2>3. window..0 = {}
    BY <2>1
  <2>. QED
    BY <1>1, <2>1, <2>2, <2>3 DEF LevelEarned
<1>9. LevelEarned'
  BY <1>2, <1>7 DEF LevelEarned
<1>8. WonLeft'
  BY <1>3, CurriculumAssumption DEF WonLeft
<1>. QED
  BY <1>6, <1>8, <1>9

\* What a later reset records is the outcome of the last episode: with it, the
\* results are the outcomes since the last advance, all of the current level.
LEMMA RecordedResults ==
    ASSUME TypeOK, ~require_feasible, Bookkeeping, Reset, prev_success # None
    PROVE  LET n == Len(outcomes)
               recorded == Append(results, prev_success)
           IN  /\ n \in Nat \ {0} /\ Recorded = n - 1 /\ Len(levels) = n
               /\ recorded \in Seq(BOOLEAN)
               /\ Base \in Nat /\ Base + Len(recorded) = n
               /\ \A j \in 1..Len(recorded) : recorded[j] = outcomes[Base + j]
               /\ \A i \in (Base + 1)..n : levels[i] = level
               /\ Recorded' = n
               /\ outcomes' = outcomes /\ prev_success' = prev_success
               /\ phase' = "play" /\ levels' = Append(levels, level')
               /\ Record(prev_success)
<1>. DEFINE n == Len(outcomes)
            recorded == Append(results, prev_success)
<1>1. /\ outcomes # <<>> /\ n \in Nat \ {0} /\ phase = "reset"
      /\ prev_success = outcomes[n] /\ prev_success \in BOOLEAN
  BY DEF Bookkeeping, Reset, TypeOK
<1>2. Recorded = n - 1 /\ Len(levels) = n
  BY <1>1 DEF Recorded, TypeOK
<1>3. /\ recorded \in Seq(BOOLEAN) /\ Len(recorded) = Len(results) + 1
      /\ recorded[Len(results) + 1] = prev_success
      /\ \A j \in 1..Len(results) : recorded[j] = results[j]
  BY <1>1 DEF TypeOK
<1>4. Len(results) \in Nat /\ Base \in Nat /\ Base + Len(recorded) = n
  BY <1>1, <1>2, <1>3 DEF Base, Bookkeeping, TypeOK
<1>5. \A j \in 1..Len(recorded) : recorded[j] = outcomes[Base + j]
  <2>. TAKE j \in 1..Len(recorded)
  <2>1. CASE j \in 1..Len(results)
    BY <1>3, <2>1 DEF Bookkeeping
  <2>2. CASE j = Len(results) + 1
    BY <1>1, <1>3, <1>4, <2>2
  <2>. QED
    BY <1>3, <1>4, <2>1, <2>2
<1>6. \A i \in (Base + 1)..n : levels[i] = level
  BY <1>2 DEF Bookkeeping
<1>7. /\ outcomes' = outcomes /\ prev_success' = prev_success
      /\ phase' = "play" /\ levels' = Append(levels, level')
      /\ Record(prev_success)
  BY DEF Reset, CallSampler
<1>8. Recorded' = n
  BY <1>7 DEF Recorded
<1>. QED
  BY <1>1, <1>2, <1>3, <1>4, <1>5, <1>6, <1>7, <1>8

\* If the last episode wins its level, its whole window is among the results.
LEMMA WinningWindow ==
    ASSUME TypeOK, ~require_feasible, Bookkeeping, Reset, prev_success # None,
           Len(outcomes) >= window, Won(Len(outcomes))
    PROVE  LET recorded == Append(results, prev_success)
           IN  Clears(recorded, Len(recorded)) /\ level < NumLevels - 1
<1>. DEFINE n == Len(outcomes)
            recorded == Append(results, prev_success)
<1>0. window \in Nat \ {0}
  BY CurriculumAssumption
<1>1. /\ n \in Nat \ {0} /\ Recorded = n - 1
      /\ recorded \in Seq(BOOLEAN) /\ Len(recorded) \in Nat
      /\ Base \in Nat /\ Base + Len(recorded) = n
      /\ \A j \in 1..Len(recorded) : recorded[j] = outcomes[Base + j]
      /\ \A i \in (Base + 1)..n : levels[i] = level
  BY RecordedResults
<1>2. Len(recorded) >= 1
  BY <1>1 DEF TypeOK
<1>3. levels[n] = level
  BY <1>1, <1>2
<1>4. \A i \in (n - window + 1)..n : levels[i] = level
  BY <1>3 DEF Won
<1>5. \A i \in 1..Base : levels[i] < level
  BY DEF Bookkeeping
<1>6. level \in Nat /\ ~ (level < level)
  BY CurriculumAssumption DEF TypeOK, Levels
<1>7. Len(recorded) >= window
  <2>. SUFFICES ASSUME Len(recorded) < window
                PROVE  FALSE
    BY <1>0, <1>1
  <2>1. n - window + 1 \in 1..Base
    BY <1>0, <1>1
  <2>2. n - window + 1 \in (n - window + 1)..n
    BY <1>0, <1>1
  <2>. QED
    BY <1>4, <1>5, <1>6, <2>1, <2>2
<1>8. Clears(recorded, Len(recorded)) <=> Clears(outcomes, n)
  <2>1. outcomes \in Seq(BOOLEAN)
    BY DEF TypeOK
  <2>. HIDE DEF recorded, n
  <2>2. Clears(recorded, Len(recorded)) <=> Clears(outcomes, Base + Len(recorded))
    BY <1>1, <1>7, <2>1, ShiftedClears
  <2>. QED
    BY <1>1, <2>2
<1>. QED
  BY <1>3, <1>8 DEF Won

\* A reset that advances the level has a whole window of it to show.
LEMMA AdvancingReset ==
    ASSUME TypeOK, TypeOK', ~require_feasible, Bookkeeping, LevelEarned, WonLeft,
           Reset, prev_success # None,
           LET recorded == Append(results, prev_success)
           IN  Clears(recorded, Len(recorded)) /\ level < NumLevels - 1
    PROVE  Bookkeeping' /\ LevelEarned' /\ WonLeft'
<1>. DEFINE n == Len(outcomes)
            recorded == Append(results, prev_success)
<1>0. window \in Nat \ {0} /\ level \in Nat
  BY CurriculumAssumption DEF TypeOK, Levels
<1>1. /\ n \in Nat \ {0} /\ Recorded = n - 1 /\ Len(levels) = n
      /\ recorded \in Seq(BOOLEAN) /\ Len(recorded) \in Nat
      /\ Base \in Nat /\ Base + Len(recorded) = n
      /\ \A j \in 1..Len(recorded) : recorded[j] = outcomes[Base + j]
      /\ \A i \in (Base + 1)..n : levels[i] = level
      /\ Recorded' = n
      /\ outcomes' = outcomes /\ prev_success' = prev_success
      /\ phase' = "play" /\ levels' = Append(levels, level')
      /\ Record(prev_success)
  BY RecordedResults
<1>2. level' = level + 1 /\ results' = <<>> /\ Len(results') = 0
  BY <1>1 DEF Record
<1>3. Base' = n
  BY <1>1, <1>2 DEF Base
<1>4. /\ Len(levels') = n + 1 /\ levels'[n + 1] = level'
      /\ \A i \in 1..n : levels'[i] = levels[i] /\ levels[i] \in Nat
  <2>1. levels \in Seq(Levels) /\ Levels \subseteq Nat
    BY CurriculumAssumption DEF TypeOK, Levels
  <2>2. \A i \in 1..n : levels[i] \in Nat
    <3>1. \A i \in 1..Len(levels) : levels[i] \in Levels
      BY <2>1
    <3>2. Len(levels) = n
      BY <1>1
    <3>. QED
      BY <2>1, <3>1, <3>2, Zenon
  <2>3. level' \in Levels
    BY DEF TypeOK
  <2>. QED
    BY <1>1, <2>1, <2>2, <2>3
<1>5. \A i \in 1..n : levels[i] <= level
  <2>. TAKE i \in 1..n
  <2>1. i \in 1..Base \/ i \in (Base + 1)..n
    BY <1>1
  <2>. QED
    BY <1>0, <1>1, <1>4, <2>1 DEF Bookkeeping
<1>6. Bookkeeping'
  <2>1. \A i \in 1..Base' : levels'[i] < level'
    BY <1>0, <1>2, <1>3, <1>4, <1>5
  <2>2. \A i \in (Base' + 1)..Len(levels') : levels'[i] = level'
    BY <1>1, <1>3, <1>4
  <2>3. /\ outcomes' = <<>> => prev_success' = None
        /\ outcomes' # <<>> => prev_success' = outcomes'[Len(outcomes')]
    BY <1>1 DEF Bookkeeping
  <2>4. Len(results') <= Recorded' /\ 1..Len(results') = {} /\ phase' # "check"
    BY <1>1, <1>2
  <2>. QED
    BY <2>1, <2>2, <2>3, <2>4 DEF Bookkeeping
<1>7. Clears(outcomes, n) /\ n >= window /\ Len(recorded) >= window
  <2>1. Len(recorded) >= window /\ Clears(recorded, Len(recorded))
    BY DEF Clears
  <2>2. outcomes \in Seq(BOOLEAN) /\ n >= window
    BY <1>0, <1>1, <2>1 DEF TypeOK
  <2>. HIDE DEF recorded, n
  <2>3. Clears(recorded, Len(recorded)) <=> Clears(outcomes, Base + Len(recorded))
    BY <1>1, <2>1, <2>2, ShiftedClears
  <2>. QED
    BY <1>1, <2>1, <2>2, <2>3
<1>8. LevelEarned'
  <2>. SUFFICES ASSUME NEW l \in 1..(level + 1)
                PROVE  \E k \in window..Len(outcomes') :
                          /\ Clears(outcomes', k)
                          /\ \A i \in (k - window + 1)..k : levels'[i] = l - 1
    BY <1>2 DEF LevelEarned
  <2>1. CASE l \in 1..level
    <3>1. /\ Len(outcomes) <= Len(outcomes')
          /\ \A k \in window..Len(outcomes) :
                 Clears(outcomes', k) <=> Clears(outcomes, k)
          /\ \A i \in 1..Len(outcomes) : levels'[i] = levels[i]
      BY <1>1, <1>4
    <3>. QED
      BY <2>1, <3>1, EarnedStays
  <2>2. CASE l = level + 1
    <3>1. n \in window..Len(outcomes') /\ Clears(outcomes', n)
      BY <1>0, <1>1, <1>7
    <3>2. \A i \in (n - window + 1)..n : levels'[i] = l - 1
      <4>. TAKE i \in (n - window + 1)..n
      <4>1. i \in (Base + 1)..n /\ i \in 1..n
        BY <1>0, <1>1, <1>7
      <4>. QED
        BY <1>0, <1>1, <1>4, <2>2, <4>1
    <3>. QED
      BY <3>1, <3>2
  <2>. QED
    BY <1>0, <2>1, <2>2
<1>9. WonLeft'
  <2>. SUFFICES ASSUME NEW k \in window..n, Won(k)'
                PROVE  /\ levels'[k] < level'
                       /\ \A i \in (k + 1)..(n + 1) : levels'[i] > levels'[k]
    BY <1>1, <1>4 DEF WonLeft
  <2>1. k \in 1..n /\ levels'[k] = levels[k] /\ levels[k] < level'
    BY <1>0, <1>2, <1>4, <1>5
  <2>2. Won(k)
    BY <1>1, <1>4, WonStays
  <2>3. \A i \in (k + 1)..n : levels[i] > levels[k]
    <3>1. CASE k = n
      BY <1>1, <3>1
    <3>2. CASE k # n
      <4>1. k \in window..Recorded
        BY <1>0, <1>1, <2>1, <3>2
      <4>. QED
        BY <1>1, <2>2, <4>1 DEF WonLeft
    <3>. QED
      BY <3>1, <3>2
  <2>4. \A i \in (k + 1)..(n + 1) : levels'[i] > levels'[k]
    <3>. TAKE i \in (k + 1)..(n + 1)
    <3>1. CASE i = n + 1
      BY <1>0, <1>2, <1>4, <2>1, <3>1
    <3>2. CASE i # n + 1
      <4>0. n \in Nat /\ k \in 1..n
        BY <1>1, <2>1
      <4>1. i \in (k + 1)..n /\ i \in 1..n
        <5>. HIDE DEF n
        <5>. QED
          BY <3>2, <4>0
      <4>. QED
        BY <1>4, <2>1, <2>3, <4>1
    <3>. QED
      BY <3>1, <3>2
  <2>. QED
    BY <2>1, <2>4
<1>. QED
  BY <1>6, <1>8, <1>9

\* A reset that only records a result leaves no level that is won.
LEMMA KeepingReset ==
    ASSUME TypeOK, TypeOK', ~require_feasible, Bookkeeping, LevelEarned, WonLeft,
           Reset, prev_success # None,
           LET recorded == Append(results, prev_success)
           IN  ~ (Clears(recorded, Len(recorded)) /\ level < NumLevels - 1)
    PROVE  Bookkeeping' /\ LevelEarned' /\ WonLeft'
<1>. DEFINE n == Len(outcomes)
            recorded == Append(results, prev_success)
<1>0. window \in Nat \ {0} /\ level \in Nat
  BY CurriculumAssumption DEF TypeOK, Levels
<1>1. /\ n \in Nat \ {0} /\ Recorded = n - 1 /\ Len(levels) = n
      /\ recorded \in Seq(BOOLEAN) /\ Len(recorded) \in Nat
      /\ Base \in Nat /\ Base + Len(recorded) = n
      /\ \A j \in 1..Len(recorded) : recorded[j] = outcomes[Base + j]
      /\ \A i \in (Base + 1)..n : levels[i] = level
      /\ Recorded' = n
      /\ outcomes' = outcomes /\ prev_success' = prev_success
      /\ phase' = "play" /\ levels' = Append(levels, level')
      /\ Record(prev_success)
  BY RecordedResults
<1>2. level' = level /\ results' = recorded
  BY <1>1 DEF Record
<1>. HIDE DEF recorded
<1>3. Base' = Base
  BY <1>1, <1>2 DEF Base
<1>4. /\ Len(levels') = n + 1 /\ levels'[n + 1] = level
      /\ \A i \in 1..n : levels'[i] = levels[i]
  <2>1. levels \in Seq(Levels) /\ level' \in Levels
    BY DEF TypeOK
  <2>. QED
    BY <1>1, <1>2, <2>1
<1>5. \A i \in 1..Base : levels[i] < level
  BY DEF Bookkeeping
<1>6. Bookkeeping'
  <2>1. \A i \in 1..Base' : levels'[i] < level'
    BY <1>1, <1>2, <1>3, <1>4, <1>5
  <2>2. \A i \in (Base' + 1)..Len(levels') : levels'[i] = level'
    <3>. TAKE i \in (Base' + 1)..Len(levels')
    <3>1. i \in (Base + 1)..n \/ i = n + 1
      BY <1>1, <1>3, <1>4
    <3>2. i \in (Base + 1)..n => i \in 1..n
      BY <1>1
    <3>. QED
      BY <1>1, <1>2, <1>4, <3>1, <3>2
  <2>3. /\ outcomes' = <<>> => prev_success' = None
        /\ outcomes' # <<>> => prev_success' = outcomes'[Len(outcomes')]
    BY <1>1 DEF Bookkeeping
  <2>4. /\ Len(results') <= Recorded' /\ phase' # "check"
        /\ \A j \in 1..Len(results') : results'[j] = outcomes'[Base' + j]
    BY <1>1, <1>2, <1>3
  <2>. QED
    BY <2>1, <2>2, <2>3, <2>4 DEF Bookkeeping
<1>7. LevelEarned'
  <2>1. /\ Len(outcomes) <= Len(outcomes')
        /\ \A k \in window..Len(outcomes) :
               Clears(outcomes', k) <=> Clears(outcomes, k)
        /\ \A i \in 1..Len(outcomes) : levels'[i] = levels[i]
    BY <1>1, <1>4
  <2>. QED
    BY <1>2, <2>1, EarnedStays DEF LevelEarned
<1>8. WonLeft'
  <2>. SUFFICES ASSUME NEW k \in window..n, Won(k)'
                PROVE  /\ levels'[k] < level'
                       /\ \A i \in (k + 1)..(n + 1) : levels'[i] > levels'[k]
    BY <1>1, <1>4 DEF WonLeft
  <2>1. k \in 1..n /\ levels'[k] = levels[k]
    BY <1>0, <1>1, <1>4
  <2>2. Won(k)
    BY <1>1, <1>4, WonStays
  <2>3. k # n
    <3>. SUFFICES ASSUME k = n
                  PROVE  FALSE
      OBVIOUS
    <3>1. n >= window
      BY <1>0, <1>1
    <3>. QED
      BY <2>2, <3>1, WinningWindow DEF recorded
  <2>4. k \in window..Recorded
    BY <1>0, <1>1, <2>1, <2>3
  <2>5. levels[k] < level /\ \A i \in (k + 1)..n : levels[i] > levels[k]
    BY <1>1, <2>2, <2>4 DEF WonLeft
  <2>6. \A i \in (k + 1)..(n + 1) : levels'[i] > levels'[k]
    <3>. TAKE i \in (k + 1)..(n + 1)
    <3>0. levels[k] \in Int
      <4>1. levels \in Seq(Levels) /\ k \in 1..Len(levels)
        BY <1>1, <2>1 DEF TypeOK
      <4>2. levels[k] \in Levels /\ Levels \subseteq Int
        BY <4>1, CurriculumAssumption DEF Levels
      <4>. QED
        BY <4>2
    <3>1. CASE i = n + 1
      BY <1>0, <1>4, <2>1, <2>5, <3>0, <3>1
    <3>2. CASE i # n + 1
      <4>0. n \in Nat /\ k \in 1..n
        BY <1>1, <2>1
      <4>1. i \in (k + 1)..n /\ i \in 1..n
        <5>. HIDE DEF n
        <5>. QED
          BY <3>2, <4>0
      <4>. QED
        BY <1>4, <2>1, <2>5, <4>1
    <3>. QED
      BY <3>1, <3>2
  <2>. QED
    BY <1>2, <2>1, <2>5, <2>6
<1>. QED
  BY <1>6, <1>7, <1>8

\* A step of an episode records nothing: its outcome, if it is the last one, is
\* kept for the next reset.
LEMMA EpisodeStep ==
    ASSUME TypeOK, TypeOK', Bookkeeping, LevelEarned, WonLeft,
           NEW reached \in BOOLEAN, NEW collision \in BOOLEAN,
           Step(reached, collision)
    PROVE  Bookkeeping' /\ LevelEarned' /\ WonLeft'
<1>. DEFINE n == Len(outcomes)
<1>0. window \in Nat \ {0}
  BY CurriculumAssumption
<1>1. CASE ~ Over(reached, collision, steps + 1)
  <2>1. /\ UNCHANGED <<level, results, levels, prev_success, outcomes, phase>>
    BY <1>1 DEF Step
  <2>2. Recorded' = Recorded /\ Base' = Base
    BY <2>1 DEF Recorded, Base
  <2>3. Bookkeeping'
    BY <2>1, <2>2 DEF Bookkeeping
  <2>4. LevelEarned'
    BY <2>1 DEF LevelEarned
  <2>5. WonLeft'
    BY <2>1, <2>2 DEF WonLeft, Won
  <2>. QED
    BY <2>3, <2>4, <2>5
<1>2. CASE Over(reached, collision, steps + 1)
  <2>1. PICK success \in BOOLEAN :
               /\ prev_success' = success
               /\ outcomes' = Append(outcomes, success)
               /\ phase = "play" /\ phase' = "reset"
               /\ UNCHANGED <<level, results, levels>>
    BY <1>2 DEF Step
  <2>2. /\ n \in Nat /\ Len(outcomes') = n + 1 /\ outcomes'[n + 1] = success
        /\ \A i \in 1..n : outcomes'[i] = outcomes[i]
        /\ outcomes' # <<>>
    BY <2>1 DEF TypeOK
  <2>3. Recorded = n /\ Recorded' = n /\ Base' = Base
    BY <2>1, <2>2 DEF Recorded, Base
  <2>4. Base \in Nat /\ Base + Len(results) = n
    BY <2>2, <2>3 DEF Base, Bookkeeping, TypeOK
  <2>5. Bookkeeping'
    <3>1. \A j \in 1..Len(results) : results[j] = outcomes'[Base + j]
      <4>. TAKE j \in 1..Len(results)
      <4>1. Base + j \in 1..n
        BY <2>4 DEF TypeOK
      <4>. QED
        BY <2>2, <4>1 DEF Bookkeeping
    <3>2. Len(results') <= Recorded' /\ phase' # "check"
      BY <2>1, <2>3 DEF Bookkeeping
    <3>3. outcomes' # <<>> => prev_success' = outcomes'[Len(outcomes')]
      BY <2>1, <2>2
    <3>. QED
      BY <2>1, <2>2, <2>3, <3>1, <3>2, <3>3 DEF Bookkeeping
  <2>6. \A k \in window..n : Clears(outcomes', k) <=> Clears(outcomes, k)
    BY <2>1, AppendedClears DEF TypeOK
  <2>7. LevelEarned'
    <3>1. Len(outcomes) <= Len(outcomes')
      BY <2>2
    <3>. QED
      BY <2>1, <2>6, <3>1, EarnedStays DEF LevelEarned
  <2>8. WonLeft'
    <3>1. \A k \in window..n : Won(k)' <=> Won(k)
      BY <2>1, <2>6, WonStays
    <3>. QED
      BY <2>1, <2>3, <3>1 DEF WonLeft
  <2>. QED
    BY <2>5, <2>7, <2>8
<1>. QED
  BY <1>1, <1>2

\* Every step keeps the invariant.
LEMMA IInvStep == TypeOK /\ TypeOK' /\ IInv /\ [Next]_vars => IInv'
<1>. SUFFICES ASSUME TypeOK, TypeOK', IInv, [Next]_vars, ~require_feasible'
              PROVE  Bookkeeping' /\ LevelEarned' /\ WonLeft'
  BY DEF IInv
<1>1. require_feasible' = require_feasible
  BY DEF Next, Reset, Redraw, Accept, Step, vars
<1>2. Bookkeeping /\ LevelEarned /\ WonLeft /\ ~require_feasible
  BY <1>1 DEF IInv
<1>3. CASE Reset
  <2>. DEFINE recorded == Append(results, prev_success)
              advance  == Clears(recorded, Len(recorded)) /\ level < NumLevels - 1
  <2>1. CASE prev_success = None
    BY <1>2, <1>3, <2>1, FirstReset
  <2>2. CASE prev_success # None /\ advance
    BY <1>2, <1>3, <2>2, AdvancingReset
  <2>3. CASE prev_success # None /\ ~advance
    BY <1>2, <1>3, <2>3, KeepingReset
  <2>. QED
    BY <2>1, <2>2, <2>3
<1>4. CASE Redraw \/ Accept
  BY <1>2, <1>4 DEF Redraw, Accept, Bookkeeping
<1>5. ASSUME NEW reached \in BOOLEAN, NEW collision \in BOOLEAN,
             Step(reached, collision)
      PROVE  Bookkeeping' /\ LevelEarned' /\ WonLeft'
  BY <1>2, <1>5, EpisodeStep
<1>6. CASE UNCHANGED vars
  <2>1. Recorded' = Recorded /\ Base' = Base
    BY <1>6 DEF vars, Recorded, Base
  <2>2. Bookkeeping' /\ LevelEarned'
    BY <1>2, <1>6, <2>1 DEF vars, Bookkeeping, LevelEarned
  <2>3. WonLeft'
    BY <1>2, <1>6, <2>1 DEF vars, WonLeft, Won
  <2>. QED
    BY <2>2, <2>3
<1>. QED
  BY <1>3, <1>4, <1>5, <1>6 DEF Next

\* Without the feasibility wrapper, a level is entered only after window
\* successive episodes of the level below have cleared the threshold.
THEOREM LevelsAreEarned == Spec => []LevelEarnedUnfiltered
<1>1. IInv => LevelEarnedUnfiltered
  BY DEF IInv, LevelEarnedUnfiltered
<1>. QED
  BY <1>1, TypeCorrect, IInvInit, IInvStep, PTL DEF Spec

\* The invariant leaves out only the last episode before it is recorded, and no
\* episode follows that one yet.
LEMMA WonIsLeft == TypeOK /\ IInv => NoLevelHeldBack
<1>. SUFFICES ASSUME TypeOK, IInv, ~require_feasible,
                     NEW k \in window..Len(outcomes), Won(k),
                     NEW i \in (k + 1)..Len(levels)
              PROVE  levels[i] > levels[k]
  BY DEF NoLevelHeldBack, Won
<1>1. Bookkeeping /\ WonLeft
  BY DEF IInv
<1>2. k \in window..Recorded
  <2>1. CASE phase = "reset" /\ outcomes # <<>>
    <3>1. Len(levels) = Len(outcomes)
      BY <2>1 DEF TypeOK
    <3>2. k < Len(outcomes)
      BY <3>1, CurriculumAssumption DEF TypeOK
    <3>. QED
      BY <2>1, <3>2, CurriculumAssumption DEF Recorded, TypeOK
  <2>2. CASE ~ (phase = "reset" /\ outcomes # <<>>)
    BY <2>2 DEF Recorded
  <2>. QED
    BY <2>1, <2>2
<1>. QED
  BY <1>1, <1>2 DEF WonLeft

\* Without it, too, a level that is won is left at once: no later episode is
\* played at it.
THEOREM WonLevelsAreLeft == Spec => []NoLevelHeldBack
BY TypeCorrect, IInvInit, IInvStep, WonIsLeft, PTL DEF Spec
=============================================================================
