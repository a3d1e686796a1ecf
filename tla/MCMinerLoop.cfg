SPECIFICATION LoopFairSpec
CONSTANTS
    MaxMine = 5
    StrongEvery = 3
    CanInterrupt = TRUE
    FilesFail = TRUE
    MaxBodies = 1
    MaxInterrupts = 2
INVARIANTS
    OneWriter
    ScheduleKept
PROPERTIES
    EntersOrLeaked
    MinerStops
    LeakStopsNode
CHECK_DEADLOCK FALSE
