CONSTANTS
    Caller = {t1, t2, t3}
    Network = network
    MaxDatagrams = 4
    Bits = 5
    Me = 0
    Id = {4, 5, 8, 16, 24}
    Denied = {24}
    Target = {1, 6, 20}
    BucketSize = 2
    Alpha = 1
    MaxSteps = 2
SPECIFICATION MCSpec
INVARIANTS SendsFirst LookupsSound
PROPERTIES DisconnectEnds DroppedEnds LookupsGoOn TimersCollected
CHECK_DEADLOCK FALSE
