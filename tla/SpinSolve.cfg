SPECIFICATION ProgramSpec
CONSTANTS
    Console = c
    Solvers = {c, r1, r2}
    MapRace = TRUE
    InitMayFail = TRUE
    NoSolver = NoSolver
    NumReps = 2
    QueueCap = 1
    MayFail = TRUE
    RaceHarmful = FALSE
INVARIANTS
    ProgramTypeOK
    MonitorNeverThrows
    WorkGoesToReady
PROPERTIES
    InitialisedOnce
    StatusAdvances
