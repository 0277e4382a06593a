CONSTANTS
    Conns = {c1}
    Others = {e1}
    Lossy = {c1}
    Me = me
    None = none
    Ops = {"exec_p"}
    MaxCalls = 1
    Window = 1
    MaxRows = 1
SPECIFICATION Spec
CHECK_DEADLOCK FALSE
INVARIANT
    CompletionCallback
