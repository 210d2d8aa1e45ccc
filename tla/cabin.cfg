SPECIFICATION CabinLiveSpec
CONSTANTS
    N_FLOORS = 3
    MaxPress = 2
    MaxObstruct = 1
    MaxError = 1
    Node = {me}
    Me = me
    NoOwner = NoOwner
    PeerDied = PeerDied
    HallCell <- Hall
    CabFloor <- Cab
    FSMChCap = 16
INVARIANTS
    CabinTypeOK
PROPERTIES
    NotForgotten
    OrdersServed
    CabOrdersServed
