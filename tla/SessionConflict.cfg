SPECIFICATION FairSpec
CONSTANTS
    Cap = 1
    MaxGen = 1
    MaxPackets <- MCOne
    MaxCommands = 1
PROPERTIES
    AllReadersEnd
CHECK_DEADLOCK FALSE
