\* Slices of three bytes and of one; no position overflows.
SPECIFICATION Spec
CONSTANTS
    Layouts <- MCLayouts
    file_length <- MCFileLength
    piece_length = 4
    SliceLength = 3
    Payloads = {"a", "b"}
    IntMax = 15
INVARIANTS
    LayoutInv
    SingleFileReadsBack
PROPERTIES
    LinearSpec
