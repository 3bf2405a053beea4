SPECIFICATION Spec
CONSTANTS
    n1 = n1
    N1 = N1
    n2 = n2
    u1 = u1
    u2 = u2
    u3 = u3
    u4 = u4
    Handlers = {h1, h2}
    Nicknames = {n1, N1, n2}
    Invalid = {n2}
    UUIDs = {u1, u2, u3, u4}
    ToLower <- MCToLower
    OfflineUUID <- MCOfflineUUID
    Answers <- MCAnswers
    None = None
INVARIANTS
    OneLogin
    Understood
    KickTold
    OneIdentity
    Released
PROPERTIES
    LoginEnds
CHECK_DEADLOCK FALSE
