CONSTANTS
    b1 = b1
    b2 = b2
    e1 = e1
    e2 = e2
    e3 = e3
    Clients <- Two
    Emails <- Addresses
    MaxUsers = 2
    MaxRequests = 1
    MaxCrashes = 0
SYMMETRY Symmetry
SPECIFICATION Spec
INVARIANT
    InstalledMeansAdmin
CHECK_DEADLOCK FALSE
