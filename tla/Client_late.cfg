SPECIFICATION Spec
CONSTANTS
    Ops = {"put", "delete"}
    OpRequest <- MCRequest
    MaxAttempts <- MCAttempts
    OperationTimeout = 3
    Retention = 2
    Keys = {1}
    MaxEpoch = 2
    MaxNow = 4
INVARIANT RetryCannotApplyTwice
CHECK_DEADLOCK FALSE
