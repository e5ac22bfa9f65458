CONSTANTS
    u1 = u1
    u2 = u2
    a1 = a1
    a2 = a2
    Users <- TwoUsers
    Admins <- TwoAdmins
    MaxTimes = 2
    MaxSubmits = 2
SPECIFICATION FairSpec
INVARIANTS
    AnsweredIsSynced
    DoubledNeedsOverlap
    RowsHaveOwners
PROPERTIES
    RetriesSucceed
CHECK_DEADLOCK FALSE
