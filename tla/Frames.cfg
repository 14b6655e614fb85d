CONSTANTS
    PacketSizes = {10, 240}
    MuxSizes = {128, 256}
    MaxPackets = 3
    SequenceIds = 3
    SizeT = 65536

SPECIFICATION FairSpec

INVARIANT PacketsInOrder
PROPERTY PacketsArrive
CHECK_DEADLOCK FALSE
