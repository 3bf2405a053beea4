SPECIFICATION Spec
CONSTANTS
    Players = {p1, p2}
    Cells = {c1, c2}
    Values = {v1, v2}
    Default = v1
    None = None
    Torn = Torn
    Cap = 1
    MaxGen = 3
    MaxSets = 3
SYMMETRY MCSymmetry
INVARIANTS
    TabSynced
    PlayerListCurrent
CHECK_DEADLOCK FALSE
