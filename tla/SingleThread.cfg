SPECIFICATION Spec
CONSTANTS
    a = a
    b = b
    c = c
    Names = {a, b, c}
    Files <- MCFiles
    Sweeps <- MCSweeps
    EnergyUnit = 6
    NumReps = 2
INVARIANTS
    KeepsFirstOfEachEdge
    AdjacencyExact
    EnergyOfFile
PROPERTIES
    PrintsEveryRepetition
