CONSTANTS
    t1 = t1
    t2 = t2
    t3 = t3
    t4 = t4
    x1 = x1
    x2 = x2
    Thread <- MCThread
    Item <- MCItem
    MaxLen = 2
SPECIFICATION Spec
INVARIANTS TypeOK NobodySleepsInVain
 
CHECK_DEADLOCK FALSE
