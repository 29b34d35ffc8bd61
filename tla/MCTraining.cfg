\* Few keys, a full hundred, a rest that fits, one that does not, none at all.
SPECIFICATION FairSpec
CONSTANTS
    KanvaSizes = {0, 1, 95, 195, 200, 223, 350}
    RSSizes = {0, 1, 999, 1000, 2195}
    Fit = 23
INVARIANTS
    Partition
    ReadsInBounds
    AbortsExplained
PROPERTY Terminates
CHECK_DEADLOCK FALSE
