SPECIFICATION Spec
CONSTANTS
    NumCommands = 2
    MaxWrites = 1
    Options <- MCOptions
    SpoiltAgain = FALSE
CHECK_DEADLOCK FALSE
INVARIANTS
    ThreadsReset
    HandlesClosed
    DataOnceInOrder
PROPERTIES
    ImplementsContract
    CallsReturn
