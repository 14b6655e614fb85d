CONSTANTS
    Caller = {a, b}
    Link = {l1, l2}
    MaxCalls = 4
SPECIFICATION FairSpec
CHECK_DEADLOCK FALSE
INVARIANT StopsClean
PROPERTY LockReleased
