SPECIFICATION LiveSpec
CONSTANTS
    N_FLOORS = 4
    MaxPress = 2
    MaxStop = 1
    MaxObstruct = 1
INVARIANTS
    TypeOK
    MotorObeys
    OpenDoorIsSafe
PROPERTIES
    ObstructedStaysOpen
    RequestsServed
CHECK_DEADLOCK FALSE
