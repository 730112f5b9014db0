CONSTANTS
    c1 = c1
    c2 = c2
    w1 = w1
    Sched = Sched
    Barrier = Barrier
    Client <- MCClient
    Worker <- MCWorker
    Programs <- ProbePrograms
    Closer = c1
    HighWaterMark = 1
    LowWaterMark = 0
    Window = 2
    MaxInstr = 5
    Timeouts <- MCTimeouts
SPECIFICATION Spec
PROPERTY ProbeWithinCall
CHECK_DEADLOCK FALSE
