CONSTANTS
    c1 = c1
    c2 = c2
    p1 = p1
    s1 = s1
    s2 = s2
    f1 = f1
    f2 = f2
    NULLVAL = NULLVAL
    NULL = NULLVAL
    MaxScore = 3
    Fields = {f1, f2}
    Values = {1, 2}
    Writers = {c1, c2}
    Readers = {}
    Servers = {s1}
    MayRequest <- CoachAndKeeper
    MaxRecent = 2
    MaxRequests = 6
    MaxReads = 0
    Mishaps = {"reconnect", "expire", "abort", "age"}
    MaxMishaps = 1
SPECIFICATION Spec
INVARIANTS
    QuietCacheIsRow
    QuietRecentIsNewest
    QuietChannelIsRow
    PublishedIsListed
    CleanupOnlyEnded
PROPERTIES
    NoLostUpdate
    StatusFollowsMachine
    ImplementsScoreSheet
CHECK_DEADLOCK FALSE
