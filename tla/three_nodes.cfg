SPECIFICATION JoinedSpec
CONSTANTS
    Node = {n1, n2, n3}
    NoOwner = NoOwner
    PeerDied = PeerDied
    Cell = {c1}
    SplitSync = FALSE
    Takers = {}
    MaxInFlight = 0
    MaxPress = 1
    MaxLost = 0
    MaxSelfLost = 1
    MaxSelfNew = 0
    MaxError = 0
    MaxCrash = 0
    MaxFaults = 1
SYMMETRY Exchangeable
INVARIANTS
    LitIsBackedUp
PROPERTIES
    OrderLifeSpec
