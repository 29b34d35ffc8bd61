\* A list with one key is full when a second comes: three updates and a range query;
\* t2 may stop anywhere.
SPECIFICATION FairSpec
CONSTANTS
    Thread = {t1, t2}
    Stalled = {t2}
    Value = {v1}
    Removed = removed
    NKeys = 3
    First = {2}
    Threshhold = 2
    MaxCalls = 3
    MaxClock = 1
INVARIANTS
    LinkedKept
    LostAreLate
    CompletedSeen
    ReclaimSound
PROPERTY CallsReturn
CHECK_DEADLOCK FALSE
