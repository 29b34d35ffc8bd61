\* All sorted arrays of up to seven keys below nine, all keys and predictions.
SPECIFICATION Spec
CONSTANTS
    MaxCap = 7
    MaxKey = 8
INVARIANTS ReadsInBounds KeyFound LowerBound
CHECK_DEADLOCK FALSE
