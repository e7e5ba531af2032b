SPECIFICATION FairSpec
CONSTANTS
    Releases <- AllReleases
    Shapes <- Extended
    ClientOps = {"CreateType", "UpdateType"}
    RetryNum = 2
    MaxFailures = 3
INVARIANTS
    TypeOK
    ServesPredefined
PROPERTIES
    RestartKeepsTypes
    KeepsServing
CHECK_DEADLOCK FALSE
