SPECIFICATION Spec
CONSTANTS
    HalfMod = 8
    MaxReps = 20
    MaxRanks = 2
INVARIANTS
    SameAsReference
    OnlyNeighboursCollide
