SPECIFICATION LiveSpec
CONSTANTS
    p1 = p1
    p2 = p2
    e1 = e1
    e2 = e2
    c1 = c1
    None = None
    Mozilla = mozilla
    Poster = {p1, p2}
    Syncer = {p1}
    Queue = {q1}
    Event = {e1, e2}
    Context = {c1}
    MemoryFails = TRUE
    MaxConnect = 1
    MaxToken = 2
CHECK_DEADLOCK FALSE
INVARIANTS
    EventInv
    NoLostWakeup
    NoEventForDeadContext
PROPERTIES
    IsMailbox
    EventsDelivered
    SyncReturns
