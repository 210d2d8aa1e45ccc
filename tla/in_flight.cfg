SPECIFICATION JoinedSpec
CONSTANTS
    Node = {n1, n2}
    NoOwner = NoOwner
    PeerDied = PeerDied
    Cell = {c1}
    SplitSync = TRUE
    Takers = {n1}
    MaxInFlight = 1
    MaxPress = 1
    MaxLost = 0
    MaxSelfLost = 0
    MaxSelfNew = 0
    MaxError = 0
    MaxCrash = 0
    MaxFaults = 0
INVARIANTS
    LitIsBackedUp
    CompletionsArePressed
PROPERTIES
    LitUntilServed
    RemovedStaysRemoved
