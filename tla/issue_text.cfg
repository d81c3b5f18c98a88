CONSTANTS
    Worker = {w1, w2}
    Event <- Errors
    BodyLimit = 12
    HardLimit = 15
    MaxFilings = 3
    MaxEdits = 2
    MaxLost = 1
SPECIFICATION Spec
INVARIANTS
    OnlyLongFencesRefused
    CountIsExact
    QuotedStaysQuoted
    LatestVersionTruthful
    EditsSurvive
SYMMETRY WorkerSymmetry
