CONSTANTS
    Caller = {c1, c2}
    MaxMsgs = 2
SPECIFICATION Spec
CHECK_DEADLOCK FALSE
INVARIANTS OneWriter DroppedMeansClosed
PROPERTY OrderedWire
