SPECIFICATION Spec
CONSTANTS
    BlockSize = 6
    WordSize = 1
    WordLimit = 16
    Octet <- MCOctet
    LengthOctet <- MCLengthOctet
    Streams <- MCStreams
    Garbage <- MCGarbage
    MaxPortion = 8
INVARIANTS
    ContextInv
PROPERTIES
    DigestSpec
