SPECIFICATION FairSpec
CONSTANTS
    Block <- MCBlock
    Genesis = "g"
    Parent <- MCParent
    Depth <- MCDepth
    MaxAsks = 1
    Chain = {0, 1}
    First = 0
    InChain <- MCInChain
    Own <- MCOwn
    NextRank <- MCNextRank
    Ahead <- MCAhead
    T_DISCARD = 1
    STORE_HASH_MINUS = 1
    STORE_HASH_FREQ = 2
INVARIANTS
    CommittedIsBuried
    GapsAreFailures
PROPERTIES
    AncestorsFirst
    BarHolds
    BuriedIsCommitted
CHECK_DEADLOCK FALSE
