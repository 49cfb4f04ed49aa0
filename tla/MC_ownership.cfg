CONSTANTS
    Keys = {k1, k2}
    SimpleKeys = {}
    BaseKeys = {b1}
    Sizes = {1}
    Budget = 2
    Capacity = 2
    Callers = {p1, p2}
    MaxDepth = 1
    WriteFailures = FALSE
    InsertHookOnUpdate = TRUE
    LapsedOnNonPositive = FALSE

SPECIFICATION Spec
CONSTRAINT StateBound
INVARIANT TypeOK
INVARIANT FilesOwned
