SPECIFICATION LiveSpec
CONSTANTS
    N_FLOORS = 4
    MaxPress = 2
    MaxObstruct = 1
    MaxError = 1
INVARIANTS
    TypeOK
    OpenDoorHasTimer
    OpenDoorStandsStill
    ReportIsCurrent
PROPERTIES
    ObstructedStaysOpen
    ServedWhereTheCarIs
    RequestsServed
