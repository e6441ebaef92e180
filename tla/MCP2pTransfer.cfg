SPECIFICATION FairSpec
CONSTANTS
    b1 = b1
    b2 = b2
    f1 = f1
    f2 = f2
    f3 = f3
    NoBatch = NoBatch
    Batches = {b1}
    Files = {f1, f2, f3}
    FilesOf <- MCOneCall
    ChunkCount <- MCChunkCount
    High = 2
    Low = 1
INVARIANTS
    TransferIsSound
PROPERTIES
    ImplementsFileCopy
    CallsEnd
CHECK_DEADLOCK FALSE
