CONSTANTS
    Keys = {k1, k2}
    SimpleKeys = {s1}
    BaseKeys = {b1}
    Sizes = {1, 2}
    Budget = 3
    Capacity = 2
    Callers = {p1}
    MaxDepth = 1
    WriteFailures = FALSE
    InsertHookOnUpdate = TRUE
    LapsedOnNonPositive = TRUE

SPECIFICATION Spec
CONSTRAINT StateBound
INVARIANT IndexedHasFile
