SPECIFICATION FairSpec
CONSTANTS
    Releases <- OneRelease
    Shapes <- Extended
    ClientOps = {"UpdateType"}
    RetryNum = 2
    MaxFailures = 1
PROPERTIES
    ServesAgain
CHECK_DEADLOCK FALSE
