SPECIFICATION Spec
CONSTANTS
    Actor <- JoinActor
    Desc <- JoinDesc
    Thread <- JoinThread
    Producer <- JoinProducer
    Consumers <- JoinConsumers
    Num <- JoinNum
    Inplace <- JoinInplace
    MemBlock <- JoinMemBlock
    ThrdOf <- JoinThrdOf
    Polled <- JoinPolled
    SyncLaunch <- JoinSyncLaunch
    LocalQueue = FALSE
    MaxPieces = 3
INVARIANTS
    NoOrphanMessage
    EordAfterRegsts
    HaltAfterAllPieces
