\* Does an insert that returned true keep its key?
CONSTANTS
    Threads = {t1, t2}
    Stalled = {}
    Keys = {1, 2, 3}
    ChildMax = 2
    RootMax = 1
    MaxCalls = 4
CHECK_DEADLOCK FALSE
SPECIFICATION Spec
SYMMETRY ThreadSymmetry
INVARIANTS InsertKept
