SPECIFICATION Spec
CONSTANTS
    None = None
    Unset = Unset
    Ids = {1}
    MaxMounts = 2
    MaxCalls = 1
    Slots = {s1}
    Queries <- AskedText
    FirstQuery <- ByName
    Loads <- ItemLists
INVARIANT RowsAsAsked
CHECK_DEADLOCK FALSE
