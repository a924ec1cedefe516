SPECIFICATION Spec
CONSTANTS
    Solvers = {s1, s2}
    NoSolver = NoSolver
    NumReps = 3
    QueueCap = 2
    MayFail = TRUE
    RaceHarmful = TRUE
INVARIANTS
    TypeOK
    EachRepetitionInOnePlace
    QueueMatchesHome
    CollectedInLaunchOrder
PROPERTIES
    IteratedListStable
    ImplementsLedger
