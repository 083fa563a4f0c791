\* A discard of destination staging is lost before the change aborts.
CONSTANTS
    k1 = k1
    k2 = k2
    m1 = m1
    m2 = m2
    m3 = m3
    Keys = {k1, k2}
    Mutations = {m1}
    KeyOf <- FirstKeyTwice
    MaxVersion = 3
    MaxChanges = 2
    MaxFails = 1
    MaxLost = 1
    MaxCrashes = 0
    MaxLapses = 0
SPECIFICATION Spec
INVARIANT MovedRangeTakesWrites
CHECK_DEADLOCK FALSE
