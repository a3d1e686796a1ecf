SPECIFICATION Spec
CONSTANTS
    Block <- MCBlock
    Genesis = 0
    Parent <- MCParent
    Depth <- MCDepth
    MaxAsks = 3
    Chain = {0, 1}
    ChainOf <- MCChainOf
    Source = "source"
    Late = "late"
    MaxAskBlocks = 2
    MaxLost = 2
    MaxRestarts = 1
PROPERTIES
    CatchesUp
    TrafficEnds
CHECK_DEADLOCK FALSE
