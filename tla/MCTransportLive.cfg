CONSTANTS
    A = A
    B = B
    c1 = c1
    c2 = c2
    c3 = c3
    Machine <- MCMachine
    Channel <- MCChannel
    Src <- MCSrc
    Dst <- MCDst
    Calls <- LiveCalls
    SeqMod = 2
    Window = 1
    SendSize <- MCSendSize
    MaxSize <- MCMaxSize
SPECIFICATION FairSpec
PROPERTIES AllCalledBack
CHECK_DEADLOCK FALSE
