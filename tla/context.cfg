CONSTANTS
    t1 = t1
    t2 = t2
    t3 = t3
    Trace = {t1, t2, t3}
    Record <- Records
    RequireException = FALSE
    MaxTraces = 2
    MaxLinesPerTrace = 2
    Limit = 2
    QueueSize = 1
    MaxBatch = 2
    MaxLog = 6
SPECIFICATION Spec
INVARIANTS
    TypeOK
    BufferRemembers
    NothingStitched
    ErrorsRecognized
