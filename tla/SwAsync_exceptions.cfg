SPECIFICATION AsyncSpec
CONSTANTS
    main = main
    t1 = t1
    idle = idle
    m1 = m1
    single = single
    Thread = {main, t1, idle}
    Main = main
    Idle = idle
    Monitor = {m1, single}
    SingleLock = single
    ChildIntr = m1
    IoMonitor = {}
    None = None
    MaxPriority = 1
    MaxCount = 1
    MaxSticky = 1
    SleepTime = {1}
    Forever = 1000
    Elapsed = {1}
    Back = 1
    ClientMonitor = {m1}
    Calls = {"enter", "wait", "notify", "sleep", "suspend", "exception", "yield", "priority", "start", "exit"}
    MaxException = 2
INVARIANTS
    NoSleepWithException
    AsyncKeepsMonitors
    AsyncKeepsQueues
