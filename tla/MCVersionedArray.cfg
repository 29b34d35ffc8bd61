\* Two keys, two updates of either and a range query; t2 and t3 may stop anywhere.
SPECIFICATION FairSpec
CONSTANTS
    Thread = {t1, t2, t3}
    Stalled = {t2, t3}
    Value = {v1}
    Removed = removed
    NKeys = 2
    MaxVersion = 3
    MaxClock = 1
INVARIANTS
    TypeOK
    VersionsOrdered
    SnapshotStable
    CompletedSeen
    ConsistentCut
PROPERTY UpdateReturns
CHECK_DEADLOCK FALSE
