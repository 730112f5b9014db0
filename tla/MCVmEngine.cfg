CONSTANTS
    s1 = s1
    s2 = s2
    s3 = s3
    sc = sc
    t1 = t1
    t2 = t2
    tc = tc
    d1 = d1
    N = 3
    Window = 2
    Stream <- MCStream
    Thread <- MCThread
    ThreadOf <- MCThreadOf
    SchedThread <- MCSchedThread
    Dep <- MCDep
    Programs <- MCPrograms
SPECIFICATION FairSpec
INVARIANTS
    TypeOK
    ComputeInProgramOrder
    FastReleaseAfterAccesses
    BarrierAfterAll
    NoMissedDispatch
    NoUnerasedEdge
    MutableAccessFirst
PROPERTIES
    EventuallyReleased
