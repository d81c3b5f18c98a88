CONSTANTS
    Worker = {w1, w2}
    Repo = {p1, p2}
    Cooldown = 2
    MaxSwitches = 3
SPECIFICATION FairSpec
INVARIANTS
    TypeOK
    SkippingHasRecentCause
PROPERTIES
    StillBrokenRearms
    RecoveryIsNoticed
