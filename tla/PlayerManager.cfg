SPECIFICATION Spec
CONSTANTS
    h1 = h1
    h2 = h2
    h3 = h3
    Handlers = {h1, h2, h3}
    Keys = {k1, k2}
    UUIDs = {u1, u2}
    Staff <- MCStaff
    Cap = 1
    None = None
SYMMETRY MCSymmetry
INVARIANTS
    CountAccurate
    DuplicateRefused
    BroadcastReaches
PROPERTIES
    ImplementsRegistry
CHECK_DEADLOCK FALSE
