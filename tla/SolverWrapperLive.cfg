SPECIFICATION Spec
CONSTANTS
    Solvers = {s1, s2}
    NoSolver = NoSolver
    NumReps = 3
    QueueCap = 1
    MayFail = TRUE
    RaceHarmful = FALSE
INVARIANTS
    QueueBound
PROPERTIES
    AllCollected
    AbortReturns
