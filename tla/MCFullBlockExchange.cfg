SPECIFICATION Spec
CONSTANTS
    Node = {n1, n2, n3}
    Miners = {n1, n2, n3}
    Weak = {1, 2}
    Cap = 1
    Lossy = {}
SYMMETRY Sym
INVARIANTS
    NothingForgotten
    WaitsForMissing
    OffersAreTrue
    CountedOnce
