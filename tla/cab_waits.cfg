SPECIFICATION CabinLiveSpec
CONSTANTS
    N_FLOORS = 2
    MaxPress = 1
    MaxObstruct = 0
    MaxError = 0
    Node = {me}
    Me = me
    NoOwner = NoOwner
    PeerDied = PeerDied
    HallCell = {}
    CabFloor <- GroundCab
    FSMChCap = 16
PROPERTIES
    CabOrdersReach
