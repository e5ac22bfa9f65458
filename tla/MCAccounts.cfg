CONSTANTS
    b1 = b1
    b2 = b2
    e1 = e1
    e2 = e2
    e3 = e3
    Clients <- Two
    Emails <- Addresses
    MaxUsers = 3
    MaxRequests = 3
    MaxCrashes = 1
SYMMETRY Symmetry
SPECIFICATION Spec
INVARIANTS
    EmailsUnique
    InstalledOnce
    SomebodyManages
    OneSession
    LastWordCounts
    GoneAreOut
PROPERTIES
    RolesAreGiven
CHECK_DEADLOCK FALSE
