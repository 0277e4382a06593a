CONSTANTS
    Objects = {o1, o2}
    Tasks = {t1}
    Vals = {v1, v2}
    MaxNew = 6
    MaxLen = 2
SPECIFICATION Spec
CHECK_DEADLOCK FALSE
INVARIANTS
    MemorySafe
    SentAsBuilt
SYMMETRY Symmetry
