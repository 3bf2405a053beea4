SPECIFICATION Spec
CONSTANTS
    Cap = 1
    MaxGen = 2
    MaxPackets <- MCOne
    MaxCommands = 2
INVARIANTS
    UpstreamConsistent
    OneUpstream
    DeadHasError
    PacketOrder
CHECK_DEADLOCK FALSE
