SPECIFICATION FairSpec
CONSTANTS
    MaxMessages = 3
    SetupFails = TRUE
INVARIANTS
    QueueIsPumped
    StrandIsThere
    OneWrite
    HandedInOrder
PROPERTIES
    LeavesQueue
CHECK_DEADLOCK FALSE
