CONSTANTS
    Conns = {c1}
    Others = {e1}
    Lossy = {c1}
    Me = me
    None = none
    Ops = {"exec_p", "exec_t", "begin", "commit", "rollback", "savepoint", "prepare", "prepared", "dealloc", "reader"}
    MaxCalls = 3
    Window = 2
    MaxRows = 1
SPECIFICATION Spec
CHECK_DEADLOCK FALSE
INVARIANTS
    CalledOnce
    NoNullConn
    InOrder
    TransactionGuarded
    NoLeakedWork
PROPERTIES
    Answered
