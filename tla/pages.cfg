CONSTANTS
    NULL = NULL
    Precision = 2
    MaxPage = 2
    Limits <- SomeLimits
    MaxRows = 3
    MaxNow = 4
SPECIFICATION FairSpec
INVARIANTS
    NothingTwice
    NewestFirst
    NothingSkipped
PROPERTY WalkEnds
CHECK_DEADLOCK FALSE
