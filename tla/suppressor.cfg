CONSTANTS
    Fp = {f1, f2, f3, f4, f5}
    Window = 3
    Minute = 2
    MaxPerMinute = 1
    MaxNewPerDay = 3
    MaxTracked = 3
    Day = {0, 1}
    SetBack = FALSE
    MaxTime = 8
    MaxDropped = 1
SPECIFICATION Spec
INVARIANTS
    TypeOK
    TablesAgree
    AdmissionsBounded
    DailyCeiling
PROPERTIES
    OnceAWindow
    ImplementsThrottle
SYMMETRY FpSymmetry
