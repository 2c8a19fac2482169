SPECIFICATION FairSpec
CONSTANTS
    j1 = j1
    j2 = j2
    N = 3
    Limit = 2
    Jobs <- OneJob
    MaxQueued = 1
INVARIANTS
    PermitsConserved
PROPERTIES
    NobodyStarves
