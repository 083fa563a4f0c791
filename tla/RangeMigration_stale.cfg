\* A discard of destination staging is lost before the attempt is repeated.
CONSTANTS
    k1 = k1
    k2 = k2
    m1 = m1
    m2 = m2
    m3 = m3
    Keys = {k1, k2}
    Mutations = {m1, m2, m3}
    KeyOf <- FirstKeyTwice
    MaxVersion = 7
    MaxChanges = 1
    MaxFails = 1
    MaxLost = 1
    MaxCrashes = 0
    MaxLapses = 0
SPECIFICATION Spec
INVARIANT AppliedOnce
CHECK_DEADLOCK FALSE
