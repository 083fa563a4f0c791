\* Three connections, two of them at one gateway, on two keys that share a stripe.
CONSTANTS
    c1 = c1
    c2 = c2
    c3 = c3
    k1 = k1
    k2 = k2
    Conns = {c1, c2, c3}
    Keys = {k1, k2}
    GatewayOf <- MCGatewayOf
    StripeOf <- OneStripe
    Scenarios <- MCScenarios
    RequiresAuth = TRUE
    MaxValue = 2
    MaxNow = 2
    MaxFaults = 1
SPECIFICATION FairSpec
INVARIANTS
    CommandsAreAtomic
    MultiKeyRetryIsSafe
    RenameLosesNothing
    RepliesFollowRequests
PROPERTY CommandsReturn
CHECK_DEADLOCK FALSE
