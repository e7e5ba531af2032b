SPECIFICATION FairSpec
CONSTANTS
    None = None
    Slots = {s1, s2}
    Filters = {"", "f"}
    SortKeys = {"name"}
    PageSizes = {10}
    LastPage <- Pages
    MaxPage = 1
    Unbounded = 3
INVARIANTS
    TypeOK
    SpinnerIsWaiting
    OrderlyPages
PROPERTIES
    SilentWhenGone
    KeepsContract
    FilterCatchesUp
CHECK_DEADLOCK FALSE
