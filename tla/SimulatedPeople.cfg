\* Scenes of the launch files: planning, spawning, ticking, moves lost and delayed.
CONSTANTS
    SpawnPoints  <- MCSpawnPoints
    StationDraws <- MCStationDraws
    Managers     <- MCManagers
    MaxBodies  = 2
    Instants     <- MCInstants
    MaxLost    = 1
    NoBody     = NoBody
SPECIFICATION FairSpec
INVARIANTS
    TypeOK
    CrowdAsAsked
    StartsApart
PROPERTIES
    NoTeleport
    BodyNeverGoesBack
    ConfirmedBodiesFollow
CHECK_DEADLOCK FALSE
