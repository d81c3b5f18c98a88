CONSTANTS
    Worker = {w1, w2}
    Fp = {f1, f2, f3}
    Garbled = {g}
    Routed = {f1, f2}
    QueueSize = 1
    CacheSize = 1
    Batch <- Exports
    MaxErrors = 3
    MaxRepeats = 1
    MaxStarts = 2
    MaxCrashes = 1
SPECIFICATION FairSpec
INVARIANTS
    TypeOK
    EveryErrorAccounted
PROPERTIES
    CleanStopLosesNothing
    FullQueueMoves
    ImplementsLedger
