\* Three members, any of which may be suspected, rightly or wrongly.
CONSTANTS
    a1 = a1
    b1 = b1
    b2 = b2
    c1 = c1
    None = None
    Nodes = {1, 2, 3}
    Procs = {a1, b1, c1}
    NodeOf <- ProcessNode
    TokenOf <- OneToken
    MaxToken = 3
    Ranges = {1, 2, 3}
    Owner <- RingOwner
    InitMembers = {1, 2, 3}
    L = 1
    RenewTimeout = 0
    MaxEpoch = 2
    MaxRenewals = 1
    Kinds = {}
    MergeOutage = FALSE
SPECIFICATION Spec
INVARIANTS TypeOK NoStaleReader
CHECK_DEADLOCK FALSE
