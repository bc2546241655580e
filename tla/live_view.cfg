CONSTANTS
    MaxPhase = 2
    MaxRetries = 1
    Backlog = 1
SPECIFICATION FairSpec
INVARIANT TypeOK
PROPERTY EveryPhaseShown
PROPERTY CacheSettles
PROPERTY NotStranded
CHECK_DEADLOCK FALSE
