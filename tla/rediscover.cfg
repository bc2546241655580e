CONSTANTS
    MaxPhase = 2
    MaxRetries = 1
    Backlog = 1
SPECIFICATION FairSpec
PROPERTY Rediscovers
CHECK_DEADLOCK FALSE
