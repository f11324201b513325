SPECIFICATION LiveIoSpec
CONSTANTS
    e1 = e1
    e2 = e2
    e3 = e3
    Thread = {t1, t2}
    Reader = {t1}
    Client = {t1, t2}
    Object = {a1, lock}
    Address = {t1, t2, a1, lock}
    Entry = {e1, e2, e3}
    None = None
    MallocLock = lock
    FirstFree <- Two
    Fresh <- Rest
    FreeThreshold = 2
    MaxHeld = 1
    MaxSticky = 1
    MaxException = 1
CHECK_DEADLOCK FALSE
INVARIANTS
    IoInv
    CacheExact
    MallocFindsEntry
PROPERTIES
    AddressesAreMonitors
    IoReturns
