\* Writes and expiry throughout, interruptions, a lost discard and a lost destination process.
CONSTANTS
    k1 = k1
    k2 = k2
    m1 = m1
    m2 = m2
    m3 = m3
    Keys = {k1, k2}
    Mutations = {m1, m3}
    KeyOf <- FirstKeyTwice
    MaxVersion = 5
    MaxChanges = 2
    MaxFails = 2
    MaxLost = 1
    MaxCrashes = 1
    MaxLapses = 1
SPECIFICATION FairSpec
INVARIANTS RetryAppliedOnce LatestIsServed ReplayedCopyVerifies MoveEndsItsFence
PROPERTY WritesResume
CHECK_DEADLOCK FALSE
