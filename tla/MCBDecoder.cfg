SPECIFICATION Spec
CONSTANTS
    MaxLength = 8
    Digits = {"1", "2"}
    TabLimit = 4
    Contents <- MCContents
INVARIANTS
    DecoderInv
PROPERTIES
    CallsTakeOneValue
    DocumentsAreDecoded
