CONSTANTS
    d1 = d1
    d2 = d2
    h1 = h1
    h2 = h2
    t1 = t1
    t2 = t2
    Deployments = {d1}
    Hosts = {h1, h2}
    Tags = {t1}
    Forms <- OneForm
    MaxTasks = 1
    MaxCrashes = 0
    MaxFaults = 1
    MaxEdits = 0
SPECIFICATION Spec
INVARIANTS
    SequentialUpdates
CHECK_DEADLOCK FALSE
