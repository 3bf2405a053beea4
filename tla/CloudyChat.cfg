SPECIFICATION MCSpec
CONSTANTS
    s1 = s1
    s2 = s2
    s3 = s3
    na = na
    nb = nb
    nc = nc
    m1 = m1
    m2 = m2
    l1 = l1
    l2 = l2
    Sessions = {s1, s2, s3}
    Names = {na, nb, nc}
    NickOf <- MCNickOf
    Perms <- MCPerms
    MaxIgnored = 2
    Players = {p1}
    Bypass = {}
    Moderators = {m1, m2}
    Pings = {g1}
    MaxAuto = 2
    SlowMode = {1, 2}
    TTL = 1
    MaxTime = 5
    MaxVersion = 3
    HistorySize = 2
    MaxMessages = 3
    Accounts = {"Bob", "al"}
    GroupFiles <- MCGroupFiles
    UserFiles <- MCUserFiles
    Bad = Bad
    Lower <- MCLower
    Loaders = {l1, l2}
    MaxEdits = 3
    None = None
SYMMETRY MCSymmetry
INVARIANTS
    HistoryRecent
    ReplyFinds
    IgnoreBounded
    ReloadTakesEffect
    SlowModeHolds
    MotdFresh
    OneLoad
    NearestWins
CHECK_DEADLOCK FALSE
