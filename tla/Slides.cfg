CONSTANTS
    Writable = 2
    PendingLimit = 1
    Backoff = 1
    Slow = 1
    UploadLimit = 1
    MaxCreates = 2
    MaxDecks = 2
    MaxFaults = 1
    MaxId = 3
    MaxActs = 3
SPECIFICATION Spec
INVARIANTS
    FilesFollowDecks
PROPERTIES
    NoLeftovers
    SlideCatchesUp
CHECK_DEADLOCK FALSE
