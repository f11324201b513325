SPECIFICATION LiveIoSpec
CONSTANTS
    e1 = e1
    e2 = e2
    e3 = e3
    Thread = {t1, t2, t3}
    Reader = {t1, t2}
    Client = {t3}
    Object = {lock}
    Address = {t1, t2, t3, lock}
    Entry = {e1, e2, e3}
    None = None
    MallocLock = lock
    FirstFree <- Two
    Fresh <- Rest
    FreeThreshold = 2
    MaxHeld = 1
    MaxSticky = 1
    MaxException = 0
CHECK_DEADLOCK FALSE
PROPERTIES
    IoReturns
