CONSTANTS
    d1 = d1
    d2 = d2
    h1 = h1
    h2 = h2
    t1 = t1
    t2 = t2
    Deployments = {d1}
    Hosts = {h1, h2}
    Tags = {t1, t2}
    Forms <- TwoForms
    MaxTasks = 1
    MaxCrashes = 1
    MaxFaults = 1
    MaxEdits = 2
SPECIFICATION FairSpec
INVARIANTS
    TotalCoversCommands
PROPERTIES
    OnlyPollsWait
    EmptyRolloutSkips
CHECK_DEADLOCK FALSE
