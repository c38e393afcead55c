CONSTANTS
    Overlap = 0
    Page = 1
    Kept = 1
    Others = FALSE
    Kinds = {"left"}
    MaxRows = 2
    MaxWrites = 2
    MaxFaults = 1
SPECIFICATION LiveSpec
INVARIANTS
    SettledSound
    NothingBehind
    HeardOnce
PROPERTIES
    Delivers
    GridCatchesUp
CHECK_DEADLOCK FALSE
