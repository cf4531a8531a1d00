CONSTANTS
    c1 = c1
    p1 = p1
    s1 = s1
    NULL = NULL
    MaxScore = 9
    Fields = {}
    Values = {}
    Writers = {c1}
    Readers = {p1}
    Servers = {s1}
    MayRequest <- Reporting
    MaxRecent = 2
    MaxRequests = 4
    MaxReads = 1
    Mishaps = {"reconnect", "expire"}
    MaxMishaps = 1
    MaxMessages = 6
    LineMishaps = {"drop"}
SPECIFICATION LiveSpec
INVARIANTS
    ScreenWasStored
    HeardScreenIsRow
    ServedScreenIsRow
PROPERTIES
    EveryEventIsHeard
    EveryCommitIsPublished
    EveryRequestEnds
CHECK_DEADLOCK FALSE
