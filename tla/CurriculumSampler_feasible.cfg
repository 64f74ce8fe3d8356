\* The same with a window of two: one successful episode, recorded again
\* with a redraw, is enough to leave a level.
CONSTANTS
    NumLevels = 3
    window = 2
    advance_threshold = 60
    max_steps = 2
    MaxDraws = 1
    MaxEpisodes = 6
    None = None
SPECIFICATION Spec
INVARIANTS
    LevelEarned
CHECK_DEADLOCK FALSE
