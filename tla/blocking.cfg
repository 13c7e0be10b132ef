CONSTANTS
    a = a
    b = b
    NoThread = NoThread
    Room = 1
    Chunk = 2
    OffMax = 6
    Names <- MCNames
    Inodes <- MCInodes
    Threads <- MCThreads
    Scenarios <- MCScenarios
SPECIFICATION FileSpec
CHECK_DEADLOCK FALSE
INVARIANTS OutputWhole NothingLeft CancelKeepsToItsOwn FilesWhole TreesHold
PROPERTIES WaitsEnd WatchTells
