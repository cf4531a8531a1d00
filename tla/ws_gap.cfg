CONSTANTS
    f1 = f1
    f2 = f2
    NULL = NULL
    Fans = {f1, f2}
    MaxMessages = 1
    Mishaps = {}
    MaxMishaps = 0
SPECIFICATION Spec
INVARIANT CatchUpMeetsStream
CHECK_DEADLOCK FALSE
