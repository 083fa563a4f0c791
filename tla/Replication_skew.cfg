\* The owner serves the new epoch before a follower has installed it.
CONSTANTS
    f1 = f1
    k1 = k1
    m1 = m1
    m2 = m2
    Keys = {k1}
    KeyOf <- OneKey
    Followers = {f1}
    Policies = {{}}
    Mutations = {m1, m2}
    Attempts <- Once
    QueueCap = 2
    FpWindow = 1
    LateInstall = TRUE
    MaxFaults = 0
SPECIFICATION FairSpec
PROPERTY WritesNotRefusedForever
CHECK_DEADLOCK FALSE
