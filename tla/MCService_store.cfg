SPECIFICATION Spec
CONSTANTS
    Missing = Missing
    Clients = {c1, c2}
    Kinds = {"artifact"}
    Operations <- StoreOperations
    Bases = {"t"}
    MaxPrefixes = 1
    Shapes <- Conflicting
    MaxItems = 2
    MaxFailures = 1
SYMMETRY Symmetry
INVARIANTS
    TypeOK
    ReplyIsOwn
    ItemsConform
    StoredIsAnswered
    TypeAnswered
PROPERTIES
    TypesOnlyGrow
CHECK_DEADLOCK FALSE
