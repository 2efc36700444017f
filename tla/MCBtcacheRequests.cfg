\* Two peers with requests outstanding; no restart, no reader of the cache.
SPECIFICATION Spec
CONSTANTS
    p1 = p1
    p2 = p2
    A = A
    B = B
    RightContents <- MCOtherContents
    Original <- MCOtherOriginal
    Zero = Zero
    Bad = Bad
    PieceCount = 3
    SliceCount = 2
    GroupCount = 1
    Peers <- MCTwoPeers
    FlushLimit = 1
    SaveEvery = 2
    EndMode = FALSE
    HeapGarbage <- MCHeapGarbage
    LastWhole = 1
    LastSlot = 1
    StartFiles <- MCNoFile
    MaxDownloads = 3
    MaxAccess = 0
    MaxRequests = 1
    MaxRestarts = 1
PROPERTIES
    WithdrawnOnlyWhenStored
