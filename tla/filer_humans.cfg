CONSTANTS
    Replica = {r1, r2}
    Fp = {f1}
    ClaimRetries = 3
    MaxAttempts = 2
    ReopenClosed = TRUE
    ReopenNotPlanned = FALSE
    Assignees = TRUE
    HumanEdits = {"complete", "decline", "reopen", "retitle", "strip"}
    MaxFilings = 4
    MaxErrors = 0
    MaxLost = 0
    MaxCrashes = 0
    MaxEdits = 3
SPECIFICATION Spec
INVARIANTS
    EveryFilingLands
    EveryReopenAnnounced
PROPERTIES
    CloseDuringFilingStands
SYMMETRY ReplicaSymmetry
