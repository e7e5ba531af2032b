SPECIFICATION Spec
CONSTANTS
    None = None
    Unset = Unset
    Ids = {1, 2}
    MaxMounts = 3
    MaxCalls = 2
    Slots = {s1, s2}
    Queries <- Asked
    FirstQuery <- ByName
    Loads <- ItemLists
INVARIANTS
    RowsGrouped
    RowsOfHeader
    FrameIsOfRoute
    ArtifactIsOfUrl
    LoadExplained
    ChoiceIsShown
CHECK_DEADLOCK FALSE
