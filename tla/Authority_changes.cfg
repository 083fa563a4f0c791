\* A node joins, leaves, is merged away, fails, or the policy changes: two nodes, three epochs.
CONSTANTS
    a1 = a1
    b1 = b1
    b2 = b2
    c1 = c1
    None = None
    Nodes = {1, 2}
    Procs = {a1, b1}
    NodeOf <- ProcessNode
    TokenOf <- OneToken
    MaxToken = 2
    Ranges = {1, 2}
    Owner <- RingOwner
    InitMembers = {1}
    L = 2
    RenewTimeout = 1
    MaxEpoch = 3
    MaxRenewals = 1
    Kinds = {"move", "merge", "policy"}
    MergeOutage = FALSE
SPECIFICATION Spec
INVARIANTS TypeOK NoStaleReader LeaseWithinGrant CompletedChangeLeavesNoFence
CHECK_DEADLOCK FALSE
