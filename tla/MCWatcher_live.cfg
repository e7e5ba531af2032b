SPECIFICATION FairSpec
CONSTANTS
    a = a
    b = b
    c = c
    n1 = n1
    n2 = n2
    None = None
    Watchers = {w1}
    Objects = {a, c}
    Names = {n1, n2}
    NameOf <- TwoNames
    MaxCrashes = 1
    MaxGaps = 1
    MaxOrphans = 0
    MaxStream = 1
INVARIANT EventInOnePlace
PROPERTIES
    EventuallyLogged
    ImplementsLog
CHECK_DEADLOCK FALSE
