SPECIFICATION Spec
CONSTANTS
    Solvers = {s1}
    NoSolver = NoSolver
    NumReps = 2
    QueueCap = 2
    MayFail = FALSE
    RaceHarmful = FALSE
INVARIANTS
    RaceFree
