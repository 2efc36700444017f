SPECIFICATION Spec
CONSTANTS
    MaxLength = 6
    Digits = {"1", "2"}
    Contents <- MCContents
    InitialCount <- MCGarbage
    FirstDigits <- MCNotTheLast
INVARIANTS
    HashedIsOneValue
