SPECIFICATION JoinedSpec
CONSTANTS
    Node = {n1, n2}
    NoOwner = NoOwner
    PeerDied = PeerDied
    Cell = {c1}
    SplitSync = FALSE
    Takers = {n1}
    MaxInFlight = 0
    MaxPress = 1
    MaxLost = 1
    MaxSelfLost = 1
    MaxSelfNew = 1
    MaxError = 1
    MaxCrash = 1
    MaxFaults = 1
VIEW Uncounted
INVARIANTS
    TypeOK
    WellFormedOrders
PROPERTIES
    LitUntilServed
    OrderLifeSpec
