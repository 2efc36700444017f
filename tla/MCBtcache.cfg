\* Three pieces, of which two can be written, in a cache of two groups.
SPECIFICATION Spec
CONSTANTS
    p1 = p1
    p2 = p2
    A = A
    B = B
    RightContents <- MCContents
    Original <- MCOriginal
    Zero = Zero
    Bad = Bad
    PieceCount = 3
    SliceCount = 2
    GroupCount = 2
    Peers <- MCOnePeer
    FlushLimit = 1
    SaveEvery = 2
    EndMode = FALSE
    HeapGarbage <- MCHeapGarbage
    LastWhole = 1
    LastSlot = 1
    StartFiles <- MCNoFile
    MaxDownloads = 3
    MaxAccess = 1
    MaxRequests = 0
    MaxRestarts = 1
INVARIANTS
    TypeOK
    OneGroupPerPiece
    ReadCoherent
PROPERTIES
    OnlyVouchedWritten
    FirstCopyKept
    CountKeepsUp
    StoreSpec
