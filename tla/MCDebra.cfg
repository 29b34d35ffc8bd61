\* Two threads with nested guards, and a list of one node: epochs for the three
\* rotations after a retire, and one more for announcements that come late.
SPECIFICATION Spec
CONSTANTS
    N = 2
    Object = {o1}
    List = {{o1}}
    MaxDepth = 2
    MaxEpoch = 4
INVARIANTS
    SparedNotFreed
    FreedReadsExplained
    GraceBounded
    ScanInBounds
CHECK_DEADLOCK FALSE
