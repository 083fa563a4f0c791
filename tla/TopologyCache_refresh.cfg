CONSTANTS
    r1 = r1
    r2 = r2
    b1 = b1
    b2 = b2
    Requests = {r1, r2}
    Runners = {b1, b2}
    Poller = poller
    MaxEpoch = 3
    MaxFailures = 2
SPECIFICATION FairSpec
INVARIANTS
    NoTriggerIsLost
    OneBackgroundRefresh
    RetryUsesNewerTopology
PROPERTY CacheCatchesUp
