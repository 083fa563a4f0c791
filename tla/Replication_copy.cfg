\* OwnerOnly or FirstSuccessor: attempts at two writes overlap while the follower is repaired.
CONSTANTS
    f1 = f1
    k1 = k1
    m1 = m1
    m2 = m2
    Keys = {k1}
    KeyOf <- OneKey
    Followers = {f1}
    Policies = {{}, {f1}}
    Mutations = {m1, m2}
    Attempts <- FirstTwice
    QueueCap = 2
    FpWindow = 1
    LateInstall = TRUE
    MaxFaults = 1
SPECIFICATION FairSpec
INVARIANTS AckedWritesSurvive AdmittedIsComplete
PROPERTIES RepairConverges PauseIsReleased
CHECK_DEADLOCK FALSE
