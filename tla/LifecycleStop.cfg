CONSTANTS
    Caller = {a}
    Link = {l1}
    MaxCalls = 2
SPECIFICATION FairSpec
CHECK_DEADLOCK FALSE
PROPERTY StopReturns
