CONSTANTS
    Pages <- AllButDialogs
    Kinds <- NewAndOld
    Limit = 1
    FirstCount = 1
    InitialRows = 0
    MaxRows = 2
    MaxKeys = 1
    MaxWire = 2
SPECIFICATION FairSpec
INVARIANTS
    TypeOK
    RowsMatchPage
    PagesShowEveryRow
    TwiceNeedsLoss
    KeyShownIsValid
PROPERTIES
    DeletedLeaves
    FormsComeBack
CHECK_DEADLOCK FALSE
