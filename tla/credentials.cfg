CONSTANTS
    Worker = {w1, w2}
    Repo = {p1, p2}
    MaxAttempts = 2
    Fixed = FALSE
    MaxInstall = 2
    MaxRevoked = 1
    MaxTroubles = 1
SPECIFICATION FairSpec
INVARIANTS
    TypeOK
    RevocationCostsFew
PROPERTIES
    RevocationIsNoticed
