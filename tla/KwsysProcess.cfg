SPECIFICATION Spec
CONSTANTS
    NumCommands = 2
    Options <- MCOptions
INVARIANTS
    TypeOK
    HandlerHasReader
    NothingLeftOpen
PROPERTIES
    ImplementsContract
    NoStrayKill
    NoLostWakeup
    TimeoutEnds
