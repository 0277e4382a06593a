CONSTANTS
    d1 = d1
    d2 = d2
    d3 = d3
    s1 = s1
    s2 = s2
    None = None
    Databases = {d1, d2, d3}
    ConnStrings = {s1}
    connection_string <- OneString
    MaxConn = 2
    KeepIdx = 4
    MaxId = 2
    Unreliable = {}
SPECIFICATION Spec
CHECK_DEADLOCK FALSE
SYMMETRY Symmetry
INVARIANTS
    PoolBounded
    OwnerPointsBack
    LockedHeld
    TransactionLocked
    NeverFreed
    DestructorSafe
PROPERTIES
    TransactionKept
