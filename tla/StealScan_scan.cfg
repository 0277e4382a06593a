CONSTANTS
    NumConns = 3
    TimeoutMs = 20
    Workers = {0, 1, 2}
    MaxWait = 60
SPECIFICATION Spec
INVARIANTS
    ThrowsOnlyIfAllBusy
    TakesFirstIdle
PROPERTIES
    ScanEnds
