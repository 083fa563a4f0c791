\* A repair commits its copy while entries are still queued.
CONSTANTS
    f1 = f1
    k1 = k1
    m1 = m1
    m2 = m2
    Keys = {k1}
    KeyOf <- OneKey
    Followers = {f1}
    Policies = {{}}
    Mutations = {m1, m2}
    Attempts <- Once
    QueueCap = 2
    FpWindow = 1
    LateInstall = FALSE
    MaxFaults = 0
SPECIFICATION FairSpec
PROPERTY RepairCompletes
CHECK_DEADLOCK FALSE
