SPECIFICATION Spec
CONSTANT MaxPieces = 4
CHECK_DEADLOCK FALSE
INVARIANTS
    SplitsScript AllOrNothing
