CONSTANTS
    Worker = {w1}
    Repo = {p1}
    MaxAttempts = 4
    Fixed = FALSE
    MaxInstall = 2
    MaxRevoked = 0
    MaxTroubles = 0
SPECIFICATION FairSpec
PROPERTIES
    ReinstallIsNoticed
