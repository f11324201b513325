SPECIFICATION LiveSpec
CONSTANTS
    j1 = j1
    j2 = j2
    j3 = j3
    Java = {j1, j2, j3}
    Mozilla = mozilla
    None = None
    MemoryFails = TRUE
    MaxDepth = 2
    MaxEvents = 1
CHECK_DEADLOCK FALSE
INVARIANTS
    SyncInv
    OneRuns
    WaitsOutsideX
PROPERTIES
    IsChain
    CallReturns
