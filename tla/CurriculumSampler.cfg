\* Every sequence of episodes over three levels: a window of three results, two of
\* which must be successes, and up to two redraws by the feasibility wrapper.  The run
\* ends with its last episode: there is no next state then.
CONSTANTS
    NumLevels = 3
    window = 3
    advance_threshold = 60
    max_steps = 2
    MaxDraws = 2
    MaxEpisodes = 9
    None = None
SPECIFICATION Spec
INVARIANTS
    TypeOK
    LevelEarnedUnfiltered
    NoLevelHeldBack
CHECK_DEADLOCK FALSE
