SPECIFICATION OneMinerSpec
CONSTANTS
    Node = {n1, n2}
    Miners = {n1}
    Weak = {1, 2}
    Cap = 1
    Lossy <- FetchKinds
PROPERTIES
    BodiesArrive
