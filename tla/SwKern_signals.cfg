SPECIFICATION Spec
CONSTANTS
    main = main
    t1 = t1
    t2 = t2
    idle = idle
    m1 = m1
    single = single
    Thread = {main, t1, idle}
    Main = main
    Idle = idle
    Monitor = {m1, single}
    SingleLock = single
    ChildIntr = m1
    IoMonitor = {m1}
    None = None
    MaxPriority = 1
    MaxCount = 2
    MaxSticky = 1
    SleepTime = {1, 3}
    Forever = 1000
    Elapsed = {2}
    Back = 1
    ClientMonitor = {m1}
    Calls = {"enter", "wait", "child", "yield", "priority", "start", "suspend", "sleep", "exit"}
INVARIANTS
    KernelSound
    SleepQueueExact
    RunsHighest
PROPERTIES
    KeepsPromise
