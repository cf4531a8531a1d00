CONSTANTS
    f1 = f1
    f2 = f2
    NULL = NULL
    Fans = {f1, f2}
    MaxMessages = 2
    Mishaps = {"drop", "give_up"}
    MaxMishaps = 1
SPECIFICATION FairSpec
INVARIANTS
    TypeOK
    RegisteredIsSubscribed
    UnusedChannelIsLeft
    StreamHasNoHoles
PROPERTIES
    ImplementsFeed
    EveryConnectionSettles
    EveryMessageArrives
CHECK_DEADLOCK FALSE
