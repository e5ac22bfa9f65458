CONSTANTS
    d1 = d1
    d2 = d2
    h1 = h1
    h2 = h2
    t1 = t1
    t2 = t2
    Deployments = {d1, d2}
    Hosts = {}
    Tags = {t1}
    Forms <- Pair
    MaxTasks = 3
    MaxCrashes = 1
    MaxFaults = 0
    MaxEdits = 0
SPECIFICATION FairSpec
INVARIANTS
    DuplicateNeedsCrash
PROPERTIES
    DueGetsTask
    PendingStarts
CHECK_DEADLOCK FALSE
