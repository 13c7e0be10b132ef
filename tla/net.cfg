CONSTANTS
    Chunk = 2
    Budget = 3
    Room = 2
    Held = 2
    Drains = 2
    Flow = 1
    Scenes <- MCScenes
SPECIFICATION SocketSpec
CHECK_DEADLOCK FALSE
INVARIANTS BytesKept OutputShaped SocketsInv
PROPERTY EveryoneEnds
