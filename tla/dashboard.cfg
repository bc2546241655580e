CONSTANTS
    MaxLoops = 2
    MaxChildren = 3
    MaxRequests = 2
    StartEarly = FALSE
SPECIFICATION Spec
INVARIANT TypeOK
INVARIANT OneWorkflow
INVARIANT NoOrphan
PROPERTY StaleFlagsIgnored
PROPERTY StopReachesProcess
PROPERTY PauseEnds
CHECK_DEADLOCK FALSE
