CONSTANTS
    Replica = {r1}
    Fp = {f1}
    ClaimRetries = 3
    MaxAttempts = 2
    ReopenClosed = TRUE
    ReopenNotPlanned = FALSE
    Assignees = FALSE
    HumanEdits = {}
    MaxFilings = 1
    MaxErrors = 0
    MaxLost = 1
    MaxCrashes = 0
    MaxEdits = 0
SPECIFICATION Spec
INVARIANTS
    OneIssuePerFingerprint
