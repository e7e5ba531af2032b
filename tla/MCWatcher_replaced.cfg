SPECIFICATION FairSpec
CONSTANTS
    a = a
    b = b
    c = c
    n1 = n1
    n2 = n2
    None = None
    Watchers = {w1}
    Objects = {a, b}
    Names = {n1, n2}
    NameOf <- OneName
    MaxCrashes = 0
    MaxGaps = 1
    MaxOrphans = 0
    MaxStream = 1
PROPERTIES
    EventuallyLogged
CHECK_DEADLOCK FALSE
