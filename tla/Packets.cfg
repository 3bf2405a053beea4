SPECIFICATION MCSpec
CONSTANTS
    MaxPacketID = 3
    Word = 2
    Ids = {0, 1, 2}
    Implemented <- MCImplemented
    Filters = {f1, f2}
    MaxRegistered = 4
    NoPacket = NoPacket
    Base = 4
    Digits = 3
    Modulus = 32
    MaxLen = 4
    MaxCount = 2
    Senders <- MCSenders
INVARIANTS
    Filtered
    RoundTrip
    CutNoticed
CHECK_DEADLOCK FALSE
