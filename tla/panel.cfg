SPECIFICATION LiveSpec
CONSTANTS
    HallButton = {hall}
    CabButton = {cab}
    ChannelCap = 1
    MaxEvents = 2
INVARIANTS
    TypeOK
    NoPressForgotten
PROPERTIES
    PressShows
    LampsSettle
    ErrorLampSettles
    LightsAreLatest
