SPECIFICATION Spec
CONSTANTS
    a = a
    b = b
    c = c
    n1 = n1
    n2 = n2
    None = None
    Watchers = {w1, w2}
    Objects = {a}
    Names = {n1, n2}
    NameOf <- OneName
    MaxCrashes = 1
    MaxGaps = 1
    MaxOrphans = 1
    MaxStream = 1
INVARIANTS
    TypeOK
    AttemptsBounded
    NoEventLost
    DuplicateBound
CHECK_DEADLOCK FALSE
