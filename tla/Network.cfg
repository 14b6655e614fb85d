CONSTANTS
    Machine <- Hosts
    Interface <- Interfaces
    External <- RouterAddress
    ListenPort = {0, 2}
    RandomPort = {2}
    DefaultPort = 3
    Picks = FALSE
    Host <- Hosts
    Caps <- AllCaps
    Offer <- Offers
    MaxPackets = 2
    Node <- Tables
    Version <- Versions
    Current = 4
    Seen <- SeenAt
    Local <- StartedAt
    Public <- PublicAddresses
    Told <- ToldOf
    Valid = 1
    ReqTimeout = 1
    MaxDatagramSize = 200
    MaxTime = 2
    MaxSent = 8
    MaxDamaged = 1
    Lists <- Headers
    Sizes = {17}
    Field = 64
    MaxFrames = 2
    MaxCoderFaults = 2
    Thread = {"t", "u"}
    Session = {"s"}
    Sub = {"eth"}
SPECIFICATION MCSpec
INVARIANTS PublicReaches EndpointsAreTrue AcceptsWhatIsWritten ReachesItsCapability RudeIsRemembered
CHECK_DEADLOCK FALSE
