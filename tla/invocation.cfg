CONSTANTS
    File = {story}
    NoFile = none
    Budget = 3
    FileCap = 2
    Rate = 2
    MaxRetries = 2
    RetryTimeouts = TRUE
    TimeoutRetries = 1
    Restricts = TRUE
    MaxRounds = 2
    MaxPending = 2
SPECIFICATION Spec
INVARIANT TypeOK
INVARIANT OneProcess
INVARIANT WithinBudget
INVARIANT StartsBounded
PROPERTY FinishedIsFinal
CHECK_DEADLOCK FALSE
