\* Two environments, rollouts of three steps, an evaluation after every second step
\* (three timesteps, rounded up to the two environments): up to six evaluations in
\* a run, and the same command twice.  A second run that has ended has no next
\* state.
CONSTANTS
    total_timesteps = 21
    n_envs = 2
    RolloutSteps = 3
    eval_freq_ts = 3
    target_success = 90
    patience = 2
    stop_floor = 50
    Scores <- ScorePairs
    MaxRuns = 2
SPECIFICATION Spec
INVARIANTS
    TypeOK
    BestOnDisk
    StopsWhenDone
    MetaNeverAhead
CHECK_DEADLOCK FALSE
