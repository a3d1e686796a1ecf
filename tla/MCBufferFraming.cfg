SPECIFICATION FairSpec
CONSTANTS
    Message <- MCMessage
    MaxSent = 3
INVARIANTS
    OneFate
    BufferIsShort
PROPERTIES
    MixedIsStuck
    ReadInTheEnd
CHECK_DEADLOCK FALSE
