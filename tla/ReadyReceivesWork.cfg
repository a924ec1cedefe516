SPECIFICATION ProgramSpec
CONSTANTS
    Console = c
    Solvers = {c}
    MapRace = FALSE
    InitMayFail = FALSE
    NoSolver = NoSolver
    NumReps = 2
    QueueCap = 1
    MayFail = FALSE
    RaceHarmful = FALSE
PROPERTIES
    ReadyReceivesWork
