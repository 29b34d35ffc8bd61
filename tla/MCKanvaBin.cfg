\* Two threads make five calls with three keys; two splits fill the root.  Thread
\* t2 may stop for ever.
SPECIFICATION FairSpec
CONSTANTS
    Threads = {t1, t2}
    Stalled = {t2}
    Keys = {1, 2, 3}
    ChildMax = 2
    RootMax = 2
    MaxCalls = 5
INVARIANTS
    TypeOK
    LinkedKept
    LeavesInRange
    CountCovers
    MissedAreSeparators
PROPERTY InsertReturns
CHECK_DEADLOCK FALSE
