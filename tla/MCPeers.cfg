SPECIFICATION PeersSpec
CONSTANTS
    PieceCount = 11
    Position <- MCPosition
    n1 = n1
    n2 = n2
    n3 = n3
    n4 = n4
    Node <- MCNode
    NULL = NULL
    MaxRequests = 2
    MSG_SIZE = 81
    Index <- MCIndex
    Begin <- MCBegin
    BlockLength <- MCBlock
    BitfieldLength <- MCBitfield
    MaxMessages = 3
INVARIANTS
    InterestIsRight
    ListInv
    MessagesInv
    StreamReadsBack
PROPERTIES
    SequenceSpec
\* After release_memory_in_peer, and once MaxMessages are created, nothing more
\* happens.
CHECK_DEADLOCK FALSE
