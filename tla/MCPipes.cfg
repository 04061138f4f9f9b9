CONSTANTS
    BufferSize = 2
    Bytes = {0, 1}
    MaxPipes = 1
    MaxFds = 3
    FirstFd = 1
    MaxProc = 2
    MaxEnds = 3
SPECIFICATION PipesSpec
INVARIANTS PositionsAgree EndsAccounted
PROPERTY ImplementsChannel
CHECK_DEADLOCK FALSE
