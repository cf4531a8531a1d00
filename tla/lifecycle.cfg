CONSTANTS
    i1 = i1
    i2 = i2
    c1 = c1
    c2 = c2
    NULL = NULL
    Instances = {i1, i2}
    Clients = {c1, c2}
    NumMigrations = 2
    MaxStarts = 3
    MaxRequests = 1
    MaxSignals = 2
    Mishaps = {"abort", "lost_reply", "kill", "drop"}
    MaxMishaps = 1
SPECIFICATION FairSpec
INVARIANTS
    MigrationsOnceInOrder
    ServesFullSchema
    HandlersKeepResources
PROPERTIES
    OrderlyExitLosesNothing
    CleanExitCutsNobody
    EveryStartSettles
    EverySignalEnds
CHECK_DEADLOCK FALSE
