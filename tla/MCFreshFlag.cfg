SPECIFICATION Spec
CONSTANTS
    Block <- MCBlock
    Genesis = "g"
    Parent <- MCParent
    Depth <- MCDepth
    MaxAsks = 1
    Node = {"n1", "n2"}
    Peers <- AllPeers
    Weak = {"w1", "w2"}
    MaxAskBlocks = 2
    FreshFlag = {TRUE, FALSE}
PROPERTIES
    MinedIsUncited
CHECK_DEADLOCK FALSE
