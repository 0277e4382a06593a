CONSTANTS
    d1 = d1
    d2 = d2
    d3 = d3
    s1 = s1
    s2 = s2
    None = None
    Databases = {d1, d2}
    ConnStrings = {s1}
    connection_string <- OneString
    MaxConn = 2
    KeepIdx = 0
    MaxId = 2
    Unreliable = {0, 1, 2}
SPECIFICATION Spec
CHECK_DEADLOCK FALSE
SYMMETRY Symmetry
INVARIANTS
    TypeOK
    NoForgottenTransaction
