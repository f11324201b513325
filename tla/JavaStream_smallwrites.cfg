SPECIFICATION Spec
CONSTANTS
    None = None
    j1 = j1
    j2 = j2
    Java = {j1}
    Opener = j1
    DefaultDataLength = 2
    WriteSizes = {1, 2}
    PostSizes = {1}
    ReadSizes = {2}
    MemoryFails = FALSE
    MaxBytes = 5
    MaxPost = 0
CHECK_DEADLOCK FALSE
INVARIANTS
    BytesInOrder
