CONSTANTS
    p0 = p0
    p1 = p1
    p2 = p2
    NoPid = NoPid
    Settled = p0
    Proc <- Three
    MayEvict <- Upgrade
    MaxReclaimAttempts = 3
    MaxCrashes = 1
SPECIFICATION LockSpec
INVARIANTS
    ReclaimersExclude
CHECK_DEADLOCK FALSE
