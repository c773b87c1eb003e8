SPECIFICATION MCSpec
CONSTANTS
    TotalBlocks = 13
    NumInodes = 13
    BlockSize = 2
    NDirect = 2
    DirSlots = 2
    ReadMax = 3
    RingSlots = 2
    DirNames <- MCDirNames
    FileNames <- MCFileNames
    Values <- MCValues
    Extents <- MCExtents
    MaxEvents = 5
    Blocks = {1, 2}
    Contents = {1, 2}
    Wrap = 4
    MaxSubmits = 4
    MaxCommands = 9
    MaxSlots = 2
    MaxUnasked = 1
    Attempts = 2
    BufLen = 2
    RespLens = {1, 3}
    MaxConnections = 2
    Cols = 3
    EditRows = 2
    Lines = 2
    TabWidth = 2
    Bytes = {"prefix", "shift", "unshift", "caps", "letter", "symbol", "tab", "enter", "backspace",
             "left", "right", "up", "down", "other"}
    MaxTyped = 5
INVARIANTS    BlockTrue AnswerOwn BoundTrue StreamTrue ScreenTrue
CHECK_DEADLOCK FALSE
