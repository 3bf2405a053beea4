SPECIFICATION MCFairSpec
CONSTANTS
    Cap = 2
    MaxGen = 2
    MaxPackets <- MCOne
    MaxCommands = 2
PROPERTIES
    ReadersEnd
    LeavingEnds
    IdleEnds
CHECK_DEADLOCK FALSE
