\* A removed member that does not answer may still be running.
CONSTANTS
    a1 = a1
    b1 = b1
    b2 = b2
    c1 = c1
    None = None
    Nodes = {1, 2}
    Procs = {a1, b1}
    NodeOf <- ProcessNode
    TokenOf <- OneToken
    MaxToken = 2
    Ranges = {1, 2}
    Owner <- RingOwner
    InitMembers = {1, 2}
    L = 2
    RenewTimeout = 1
    MaxEpoch = 2
    MaxRenewals = 1
    Kinds = {"merge"}
    MergeOutage = TRUE
SPECIFICATION Spec
INVARIANT NoStaleReader
CHECK_DEADLOCK FALSE
