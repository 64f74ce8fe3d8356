\* People come, move, leave and go stale while the window rolls; then the feed dies.
CONSTANTS
    WorldSize = 5
    Width = 3
    default_value = 0
    max_cost = 200
    cutoff_distance = 1
    human_timeout = 1
    Share <- OneCell
    cost = 254
    zones <- ZoneInside
    Crowds <- MCCrowds
    ObstacleCosts = {0, 120, 254}
    Reach = 1
    MaxTime = 2
SPECIFICATION FairSpec
INVARIANTS
    TypeOK
    NoGhostCost
    HardCellsAreSensed
PROPERTIES
    DeadFeedClearsCost
