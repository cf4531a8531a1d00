CONSTANTS
    c1 = c1
    c2 = c2
    p1 = p1
    s1 = s1
    s2 = s2
    f1 = f1
    f2 = f2
    NULLVAL = NULLVAL
    NULL = NULLVAL
    MaxScore = 9
    Fields = {}
    Values = {}
    Writers = {c1}
    Readers = {p1}
    Servers = {s1}
    MayRequest <- OneCoach
    MaxRecent = 2
    MaxRequests = 4
    MaxReads = 1
    Mishaps = {}
    MaxMishaps = 0
SPECIFICATION Spec
INVARIANT FallbackReadHeals
CHECK_DEADLOCK FALSE
