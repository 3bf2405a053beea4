SPECIFICATION Spec
CONSTANTS
    n1 = n1
    u1 = u1
    Keys = {n1, u1}
    Logins <- MCLogins
    Lookups = {l1}
    Commands = {c1, r1}
    Remote = {r1}
    Ids = {i1, i2}
    None = None
    TTL = 1
    CacheSize = 1
    Durations = {1, 2}
    MaxGroup = 1
    MaxTime = 3
SYMMETRY MCSymmetry
INVARIANTS
    CacheCoherent
    AnswerUnexpired
    EntriesEnd
CHECK_DEADLOCK FALSE
