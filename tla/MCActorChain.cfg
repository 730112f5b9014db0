SPECIFICATION FairSpec
CONSTANTS
    Actor <- ChainActor
    Desc <- ChainDesc
    Thread <- ChainThread
    Producer <- ChainProducer
    Consumers <- ChainConsumers
    Num <- ChainNum
    Inplace <- ChainInplace
    MemBlock <- ChainMemBlock
    ThrdOf <- ChainThrdOf
    Polled <- ChainPolled
    SyncLaunch <- ChainSyncLaunch
    LocalQueue = TRUE
    MaxPieces = 3
INVARIANTS
    TypeOK
    RegstCredit
    PiecesInOrder
PROPERTIES
    Termination
CHECK_DEADLOCK FALSE
