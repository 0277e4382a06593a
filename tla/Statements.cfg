SPECIFICATION Spec
CONSTANTS
    Conns = {c1, c2}
    Others = {e1}
    Lossy = {}
    Me = me
    None = none
    Slots = {s1}
    Names = {"p"}
    MaxRows = 2
SYMMETRY Symmetry
VIEW View
CHECK_DEADLOCK FALSE
INVARIANTS
    TransactionsAccounted LoUsable ReaderRows NoLeakedWork DestructorThrows
