CONSTANTS
    Replica = {r1, r2}
    Fp = {f1}
    ClaimRetries = 3
    MaxAttempts = 2
    ReopenClosed = TRUE
    ReopenNotPlanned = FALSE
    Assignees = FALSE
    HumanEdits = {"complete", "delete"}
    MaxFilings = 3
    MaxErrors = 1
    MaxLost = 1
    MaxCrashes = 1
    MaxEdits = 1
SPECIFICATION FairSpec
INVARIANTS
    TypeOK
    DuplicateNeedsSlowWinner
    NeverOvercounts
PROPERTIES
    OrphanedLabelHeals
    FilingEnds
