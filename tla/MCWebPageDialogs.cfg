CONSTANTS
    Pages <- Dialogs
    Kinds <- ListEdits
    Limit = 2
    FirstCount = 1
    InitialRows = 2
    MaxRows = 2
    MaxKeys = 0
    MaxWire = 2
SPECIFICATION FairSpec
INVARIANTS
    MisfiledNeedsHaste
    MovedNeedsLateChoices
CHECK_DEADLOCK FALSE
