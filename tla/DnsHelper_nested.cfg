SPECIFICATION Spec
CONSTANTS
    None = None
    s1 = s1
    s2 = s2
    h1 = h1
    h2 = h2
    Socket = {s1, s2}
    Host = {h1, h2}
    SpawnFails = FALSE
    QuitIgnored = TRUE
    MaxNesting = 1
    MaxLookups = 3
CHECK_DEADLOCK FALSE
INVARIANTS
    OneAck
