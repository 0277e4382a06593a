CONSTANTS
    d1 = d1
    d2 = d2
    d3 = d3
    s1 = s1
    s2 = s2
    None = None
    Databases = {d1, d2, d3}
    ConnStrings = {s1, s2}
    connection_string <- TwoStrings
    MaxConn = 1
    KeepIdx = 4
    MaxId = 1
    Unreliable = {0}
SPECIFICATION Spec
CHECK_DEADLOCK FALSE
INVARIANTS
    OwnString
    SingleExclusive
PROPERTIES
    ImplementsLease
