CONSTANTS
    Nodes = {1, 2}
    MaxToken = 5
    Keys = {1, 2, 3, 4}
    TokenOf <- MCTokenOf
    Assignments <- MCAssignments
    Initially <- MCInitially
    Starts = {0, 3}
    KeysPerPage = 1
    MaxExamined = 3
    MaxWrites = 1
    MaxFailures = 1
SPECIFICATION FairSpec
INVARIANTS
    WalkIsExact
    ScanIsExact
    SearchIsTruthful
PROPERTY ListingEnds
CHECK_DEADLOCK FALSE
