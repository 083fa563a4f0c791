SPECIFICATION FairSpec
CONSTANTS
    Ops = {"put", "delete"}
    OpRequest <- MCRequest
    MaxAttempts <- MCAttempts
    OperationTimeout = 3
    Retention = 2
    Keys = {1}
    MaxEpoch = 2
    MaxNow = 4
INVARIANTS
    DefiniteMeansNotApplied
    AppliedAtMostOnce
PROPERTY OperationsReturn
CHECK_DEADLOCK FALSE
