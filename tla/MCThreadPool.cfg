SPECIFICATION FairSpec
CONSTANTS
    c1 = c1
    c2 = c2
    Client = {c1, c2}
    ThreadNum = 3
    CntMod = 4
    Program <- MCPrograms
INVARIANTS TypeOK NoLostWork LocalsAlive OnceOnReturn
PROPERTY CallsReturn
CHECK_DEADLOCK FALSE
