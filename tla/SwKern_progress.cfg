SPECIFICATION LiveSpec
CONSTANTS
    main = main
    t1 = t1
    t2 = t2
    idle = idle
    m1 = m1
    single = single
    Thread = {main, t1, t2, idle}
    Main = main
    Idle = idle
    Monitor = {m1, single}
    SingleLock = single
    ChildIntr = m1
    IoMonitor = {}
    None = None
    MaxPriority = 0
    MaxCount = 1
    MaxSticky = 1
    SleepTime = {2}
    Forever = 1000
    Elapsed = {1}
    Back = 1
    ClientMonitor = {m1}
    Calls = {"enter", "wait", "start"}
INVARIANTS
    MutualExclusion
    NoLostHandoff
PROPERTIES
    BlockedReturns
