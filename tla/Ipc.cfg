SPECIFICATION MCSpec
CONSTANTS
    Clients = {c1, c2}
    Lengths = {0, 4}
    PathLengths = {0, 1}
    QueueDepth = 2
    MaxBytes = 3
    FetchMax = 2
    IdSpace = 8
    MaxRequests = 3
    MaxCrashes = 1
    Senders = {s1, s2}
    MaxSends = 2
INVARIANTS Accounted AnswersMatch RInv
PROPERTIES Fifo PollReturns 
CHECK_DEADLOCK FALSE
