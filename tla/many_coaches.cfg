CONSTANTS
    c1 = c1
    c2 = c2
    p1 = p1
    s1 = s1
    s2 = s2
    f1 = f1
    f2 = f2
    NULLVAL = NULLVAL
    NULL = NULLVAL
    MaxScore = 3
    Fields = {}
    Values = {}
    Writers = {c1, c2}
    Readers = {p1}
    Servers = {s1, s2}
    MayRequest <- TwoCoaches
    MaxRecent = 2
    MaxRequests = 4
    MaxReads = 1
    Mishaps = {"lost_reply", "give_up", "crash"}
    MaxMishaps = 1
SPECIFICATION Spec
SYMMETRY ServerSymmetry
INVARIANTS
    TypeOK
    NothingUncommittedIsShown
    CachedScoreWasStored
    EventsOnlyAfterStart
CHECK_DEADLOCK FALSE
