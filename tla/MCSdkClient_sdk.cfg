SPECIFICATION Spec
CONSTANTS
    None = None
    Clients = {c1, c2}
    Models = {m1, m2}
    MaxLogs = 2
    MaxLost = 1
    MaxRaised = 1
SYMMETRY Symmetry
INVARIANTS
    DuplicatesExplained
    UnattributedExplained
    LoggedIsRecorded
CHECK_DEADLOCK FALSE
