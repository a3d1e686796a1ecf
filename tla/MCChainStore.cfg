SPECIFICATION FairSpec
CONSTANTS
    Block <- MCBlock
    Genesis = "g"
    Parent <- MCParent
    Depth <- MCDepth
    MaxAsks = 2
INVARIANTS
    TreesDisjoint
    HeadersExact
    DeepestIsDeepest
PROPERTIES
    TipOnlyDeepens
    ParkingEnds
    ImplementsLongestChain
CHECK_DEADLOCK FALSE
