CONSTANTS
    a = a
    b = b
    Host = {a, b}
    Dial <- MCDial
    Stale = {old}
    Slow <- MCSlow
    MaxFaults = 1

SPECIFICATION FairSpec

INVARIANTS EveryWaitIsTimed RemoteIsTheHost
PROPERTY HandshakesEnd
CHECK_DEADLOCK FALSE
