SPECIFICATION MCSpec
CONSTANTS
    s1 = s1
    s2 = s2
    lobby = lobby
    game = game
    Bad = Bad
    Sessions = {s1, s2}
    Files <- MCFiles
    Cap = 2
    MaxWork = 3
    Chars <- MCChars
    MaxText = 4
    MaxSize = 9
    Plain = {"x"}
    Styles = {"l", "m"}
    Colors = {"a"}
    MaxInput = 6
SYMMETRY Symmetry
INVARIANTS
    ServerServed
    SendCounts
    AlwaysListed
    AgreesWithJava
    Faithful
CHECK_DEADLOCK FALSE
