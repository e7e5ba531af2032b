SPECIFICATION Spec
CONSTANTS
    Missing = Missing
    Clients = {c1}
    Kinds = {"artifact", "execution"}
    Operations <- ListOperations
    Bases = {"t"}
    MaxPrefixes = 1
    Shapes <- Empty
    MaxItems = 1
    MaxFailures = 1
SYMMETRY Symmetry
INVARIANTS
    ListEventsReportsFailure
CHECK_DEADLOCK FALSE
