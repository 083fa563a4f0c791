\* RENAME meets a failure after it has written its destination.
CONSTANTS
    c1 = c1
    c2 = c2
    c3 = c3
    k1 = k1
    k2 = k2
    Conns = {c1, c2, c3}
    Keys = {k1, k2}
    GatewayOf <- MCGatewayOf
    StripeOf <- OneStripe
    Scenarios <- RenameScenario
    RequiresAuth = TRUE
    MaxValue = 2
    MaxNow = 1
    MaxFaults = 1
SPECIFICATION Spec
INVARIANT RetryIsSafe
CHECK_DEADLOCK FALSE
