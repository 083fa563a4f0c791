SPECIFICATION Spec
CONSTANTS
    Keys = {1, 2}
    Calls = {1, 2}
    Requests <- MCOthers
    Workloads <- MCWorkloads
    Retention = 1
    Seeds = {1, 2, 3}
    TokenOf <- MCTokenOf
    Owned <- MCOwned
    MovingRange = {2}
    Followers <- MCFollowers
    Required = {"f1"}
    ReceiptBytes = 2
    AckBytes = 1
    MaxDedupBytes = 5
    MaxJournal = 1
    QueueCap = 1
    MaxKeysPerToken = 1
    SweepLimit = 1
    MaxNow = 3
    MaxMoves = 2
INVARIANTS
    IndicesMirrorStore
    BudgetIsExact
    StreamsHaveNoGap
    MovingRangeIsCovered
PROPERTY ImplementsAtomicStore
CHECK_DEADLOCK FALSE
