\* Three threads and four range queries; t3 may stop anywhere.
SPECIFICATION FairSpec
CONSTANTS
    Thread = {t1, t2, t3}
    Stalled = {t3}
    MaxNode = 4
INVARIANTS
    TypeOK
    TimestampPublished
PROPERTIES
    OldestIsSafe
    ImplementsClock
    AddReturns
