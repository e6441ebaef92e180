SPECIFICATION Spec
CONSTANTS
    b1 = b1
    b2 = b2
    f1 = f1
    f2 = f2
    f3 = f3
    NoBatch = NoBatch
    Batches = {b1, b2}
    Files = {f1, f2, f3}
    FilesOf <- MCTwoCalls
    ChunkCount <- MCChunkCount
    High = 2
    Low = 1
INVARIANTS
    ReceivedIntact
CHECK_DEADLOCK FALSE
