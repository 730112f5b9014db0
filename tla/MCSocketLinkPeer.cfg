CONSTANTS
    w1 = w1
    w2 = w2
    NoBody = NoBody
    Writer <- MCWriter
    Program <- MCCrashProgram
    HeadSize = 2
    Capacity = 2
    MayCrash = TRUE
SPECIFICATION FairSpec
PROPERTIES PeerCloseIsFatal
CHECK_DEADLOCK FALSE
