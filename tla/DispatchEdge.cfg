SPECIFICATION Spec
CONSTANTS
    MaxPacketID = 3
    Word = 2
    Ids = {0, 1, 2, 3}
    Implemented <- MCImplemented
    Filters = {f1, f2}
    MaxRegistered = 1
    NoPacket = NoPacket
INVARIANTS
    OwnHalf
CHECK_DEADLOCK FALSE
