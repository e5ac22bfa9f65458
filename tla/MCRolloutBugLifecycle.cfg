CONSTANTS
    d1 = d1
    d2 = d2
    h1 = h1
    h2 = h2
    t1 = t1
    t2 = t2
    Deployments = {d1}
    Hosts = {h1}
    Tags = {t1}
    Forms <- OneForm
    MaxTasks = 1
    MaxCrashes = 0
    MaxFaults = 0
    MaxEdits = 0
SPECIFICATION Spec
PROPERTIES
    DeploymentLifecycle
CHECK_DEADLOCK FALSE
