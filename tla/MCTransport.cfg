CONSTANTS
    A = A
    B = B
    c1 = c1
    c2 = c2
    c3 = c3
    Machine <- MCMachine
    Channel <- MCChannel
    Src <- MCSrc
    Dst <- MCDst
    Calls <- MCCalls
    SeqMod = 3
    Window = 2
    SendSize <- MCSendSize
    MaxSize <- MCMaxSize
SPECIFICATION Spec
INVARIANTS TypeOK NoCheckFails MemoryHeld CallbacksInOrder NothingLeft
PROPERTIES ImplementsTransfer
CHECK_DEADLOCK FALSE
