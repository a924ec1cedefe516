SPECIFICATION ProgramSpec
CONSTANTS
    Console = c
    Solvers = {c, r1}
    MapRace = TRUE
    InitMayFail = TRUE
    NoSolver = NoSolver
    NumReps = 3
    QueueCap = 1
    MayFail = TRUE
    RaceHarmful = FALSE
PROPERTIES
    ConnectedGetsWork
    QuitEnds
