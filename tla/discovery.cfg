SPECIFICATION LiveSpec
CONSTANTS
    Node = {me, p1}
    Me = me
    MaxEvents = 2
INVARIANTS
    TypeOK
    NotificationsAddUp
PROPERTIES
    NetworkKnown
    PeersKnown
