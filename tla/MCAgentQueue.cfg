CONSTANTS
    c1 = c1
    c2 = c2
    c3 = c3
    c4 = c4
    Commands <- Four
    Genuine <- Three
    Capacity = 1
    MaxRestarts = 1
SPECIFICATION Spec
SYMMETRY Symmetry
INVARIANTS
    TypeOK
    AcceptedIsHeld
    AcknowledgedFirst
PROPERTIES
    ImplementsLog
    ServesExchange
CHECK_DEADLOCK FALSE
