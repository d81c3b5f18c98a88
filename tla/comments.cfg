CONSTANTS
    Fp = {i1, i2, i3, i4}
    Window = 1
    Rate = 1
    Token = 1
    Capacity = 1
    PerDay = 1
    MaxTime = 5
    Worker = {w1, w2}
    Hour = 2
    MaxPerHour = 1
    MaxIssues = 3
SPECIFICATION BudgetSpec
INVARIANTS
    TypeOK
    RoutineCommentsCapped
PROPERTIES
    RefusedOnlyWhenSpent
SYMMETRY Symmetry
