CONSTANTS
    Pid = {p1, p2, p3}
    NoLock = NoLock
    NoPid = NoPid
    MaxStarts = 4
    OneAtATime = TRUE
SYMMETRY Pids
SPECIFICATION Spec
INVARIANT TypeOK
INVARIANT StatusTruthful
INVARIANT DeadRunsFinalized
PROPERTY FinalStatusKept
PROPERTY RunsExclusive
