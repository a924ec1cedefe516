SPECIFICATION StdinSpec
CONSTANTS
    Newline = Newline
    Commands = {"quit", "add", "ladd", "addx"}
    MaxLines = 2
    MaxCommands = 5
    MaxDescriptors = 3
INVARIANTS
    ExecutedInOrder
    GetlineNeverBlocks
    CaptureReadsOutput
    OnlyDetachedFilesStay
PROPERTIES
    QuitEndsPolling
CHECK_DEADLOCK FALSE
