SPECIFICATION Spec
CONSTANTS
    Block <- MCBlock
    Genesis = 40
    Parent <- MCParent
    Depth <- MCDepth
    MaxAsks = 2
INVARIANTS
    LookupExact
    LinksMatch
PROPERTIES
    ImplementsChainStore
CHECK_DEADLOCK FALSE
