\* Three threads make four calls on a list that starts with at most one key.
SPECIFICATION Spec
CONSTANTS
    Thread = {t1, t2, t3}
    Stalled = {}
    NKeys = 2
    MaxCalls = 4
    MaxNode = 3
    MaxStart = 1
SYMMETRY ThreadSymmetry
INVARIANTS TypeOK Sorted LiveReachable ResultsWitnessed CollectExact
CHECK_DEADLOCK FALSE
