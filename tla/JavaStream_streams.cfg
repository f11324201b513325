SPECIFICATION LiveSpec
CONSTANTS
    None = None
    j1 = j1
    j2 = j2
    Java = {j1, j2}
    Opener = j1
    DefaultDataLength = 2
    WriteSizes = {2, 3}
    PostSizes = {1, 2}
    ReadSizes = {1, 3}
    MemoryFails = TRUE
    MaxBytes = 5
    MaxPost = 2
CHECK_DEADLOCK FALSE
INVARIANTS
    StreamInv
    PostedInOrder
PROPERTIES
    IsByteStream
    WaitersReturn
