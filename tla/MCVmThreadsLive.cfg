CONSTANTS
    c1 = c1
    c2 = c2
    w1 = w1
    Sched = Sched
    Barrier = Barrier
    Client <- MCClient
    Worker <- MCWorker
    Programs <- LivePrograms
    Closer = c1
    HighWaterMark = 1
    LowWaterMark = 0
    Window = 2
    MaxInstr = 6
    Timeouts <- MCTimeouts
SPECIFICATION FairSpec
PROPERTIES CallsReturn
CHECK_DEADLOCK FALSE
