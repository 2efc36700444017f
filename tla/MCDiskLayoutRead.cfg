\* Reads from a download of several files.
SPECIFICATION Spec
CONSTANTS
    Layouts <- MCLayouts
    file_length <- MCFileLength
    piece_length = 4
    SliceLength = 3
    Payloads = {"a", "b"}
    IntMax = 15
INVARIANTS
    ReadsBack
