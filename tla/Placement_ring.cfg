SPECIFICATION Spec
CONSTANTS
    Nodes = {1, 2, 3}
    MaxToken = 7
    TokenOf <- MCTokenOf
    RFs = {2}
    Keys = {6}
    Bootstraps <- MCBootstraps
    TargetMembers <- MCMembers
    TargetConfigs <- MCConfigs
    RepairConcurrency = 1
    MaxEpoch = 2
    MaxProc <- MCProcs
    MaxCrashes = 1
INVARIANTS
    OwnerHoldsData
    AdmissionMeansCopy
    StoredStateReloads
    RingMatchesReference
    PlanIsExact
    SelectedSeedsSuffice
CHECK_DEADLOCK FALSE
