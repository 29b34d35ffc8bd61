\* Two threads make four calls; one of them may stop at any statement.
SPECIFICATION FairSpec
CONSTANTS
    Thread = {t1, t2}
    Stalled = {t2}
    NKeys = 2
    MaxCalls = 4
    MaxNode = 3
    MaxStart = 2
PROPERTIES CallsReturn ImplementsSet
CHECK_DEADLOCK FALSE
