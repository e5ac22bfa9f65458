CONSTANTS
    d1 = d1
    d2 = d2
    h1 = h1
    h2 = h2
    t1 = t1
    t2 = t2
    Deployments = {d1}
    Hosts = {h1, h2}
    Tags = {t1}
    Forms <- TwoForms
    MaxTasks = 2
    MaxCrashes = 1
    MaxFaults = 1
    MaxEdits = 0
SYMMETRY HostSymmetry
SPECIFICATION Spec
INVARIANTS
    TypeOK
    CommandedOnce
    OverlapNeedsFault
    SkippedIsUntouched
    StatusIsBacked
PROPERTIES
    RefinesCampaign
    PostsAreExchanges
CHECK_DEADLOCK FALSE
