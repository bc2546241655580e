CONSTANTS
    Pid = {p1, p2, p3}
    NoLock = NoLock
    NoPid = NoPid
    MaxStarts = 4
    OneAtATime = FALSE
SYMMETRY Pids
SPECIFICATION Spec
INVARIANT MutualExclusion
