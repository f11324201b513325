SPECIFICATION LiveSpec
CONSTANTS
    None = None
    s1 = s1
    s2 = s2
    h1 = h1
    h2 = h2
    Socket = {s1, s2}
    Host = {h1, h2}
    SpawnFails = TRUE
    QuitIgnored = TRUE
    MaxNesting = 0
    MaxLookups = 4
CHECK_DEADLOCK FALSE
INVARIANTS
    OneAck
    DnsInv
    RightAddress
PROPERTIES
    LookupsEnd
