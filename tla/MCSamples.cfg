SPECIFICATION SamplesSpec
CONSTANTS
    c1 = c1
    c2 = c2
    Client <- MCClient
    Host <- MCClient
    MaxSent = 2
    BufSize = 2
    StoreReads = 2
    PipeSize = 1
    MaxLines = 3
    MaxLost = 1
    MaxTwice = 1
    AnnounceSize = 18
    Givens <- MCGivens
    EncodedSize = 7
    Texts <- MCTexts
    Memory <- MCMemory
    ReadSize = 2
INVARIANTS
    AnswerIsPrinted
    NameAndPortAreRead
    HashIsSent
    ThanksFollowQuestion
    EchoIsStored
    AnswersAreInStep
PROPERTIES
    ClientsEnd
    ProcessesEnd
    DatagramsArrive
CHECK_DEADLOCK FALSE
