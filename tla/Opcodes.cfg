SPECIFICATION Spec
INVARIANTS
    SameCost
    SameOperation
    SameTransfers
    Callable
    OwnFunction
CHECK_DEADLOCK FALSE
