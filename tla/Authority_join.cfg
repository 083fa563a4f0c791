\* A node joins, is lost before or after activation, and comes back as a new process.
CONSTANTS
    a1 = a1
    b1 = b1
    b2 = b2
    c1 = c1
    None = None
    Nodes = {1, 2}
    Procs = {a1, b1, b2}
    NodeOf <- ProcessNode
    TokenOf <- OneToken
    MaxToken = 2
    Ranges = {1, 2}
    Owner <- RingOwner
    InitMembers = {1}
    L = 1
    RenewTimeout = 0
    MaxEpoch = 3
    MaxRenewals = 1
    Kinds = {"move"}
    MergeOutage = FALSE
SPECIFICATION Spec
INVARIANT NoStaleReader
CHECK_DEADLOCK FALSE
