\* Does an update that has returned stay on the list?
SPECIFICATION Spec
CONSTANTS
    Thread = {t1, t2}
    Stalled = {}
    Value = {v1}
    Removed = removed
    NKeys = 3
    First = {2}
    Threshhold = 2
    MaxCalls = 3
    MaxClock = 0
INVARIANT UpdateKept
CHECK_DEADLOCK FALSE
