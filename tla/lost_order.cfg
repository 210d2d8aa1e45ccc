SPECIFICATION LiveSpec
CONSTANTS
    Node = {n1, n2}
    NoOwner = NoOwner
    PeerDied = PeerDied
    Cell = {c1}
    SplitSync = FALSE
    Takers = {n1}
    MaxInFlight = 0
    MaxPress = 1
    MaxLost = 1
    MaxSelfLost = 0
    MaxSelfNew = 0
    MaxError = 0
    MaxCrash = 0
    MaxFaults = 1
PROPERTIES
    LostOrderRecovers
