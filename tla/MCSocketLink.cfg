CONSTANTS
    w1 = w1
    w2 = w2
    NoBody = NoBody
    Writer <- MCWriter
    Program <- MCProgram
    HeadSize = 2
    Capacity = 2
    MayCrash = TRUE
SPECIFICATION FairSpec
INVARIANTS TypeOK NoLostEvent Framed
PROPERTIES ImplementsFifo AllDelivered
CHECK_DEADLOCK FALSE
