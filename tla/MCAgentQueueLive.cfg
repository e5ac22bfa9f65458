CONSTANTS
    c1 = c1
    c2 = c2
    c3 = c3
    c4 = c4
    Commands <- Three
    Genuine <- Three
    Capacity = 1
    MaxRestarts = 1
SPECIFICATION FairSpec
PROPERTIES
    EnteredEnds
    RequestAnswered
CHECK_DEADLOCK FALSE
