SPECIFICATION Spec
CONSTANTS
    Missing = Missing
    Clients = {c1, c2}
    Kinds = {"artifact", "execution"}
    Operations <- EventOperations
    Bases = {"t"}
    MaxPrefixes = 1
    Shapes <- Empty
    MaxItems = 1
    MaxFailures = 1
SYMMETRY Symmetry
INVARIANTS
    EventsAnswered
    ListsAreComplete
CHECK_DEADLOCK FALSE
