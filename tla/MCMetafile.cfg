SPECIFICATION Spec
CONSTANTS
    MaxLength = 8
    Contents <- MCContents
    Metafiles <- MCMetafiles
    Urls <- MCUrls
    MaxCalls = 3
    Digits = {"1", "2"}
    Decimals <- MCDecimals
    AnnounceSize = 12
    PathSize = 1
    LongLimit = 10
INVARIANTS
    HashedIsOneValue
    ReadInv
PROPERTIES
    InfoIsHashed
    HashIsOfInfo
