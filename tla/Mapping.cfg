SPECIFICATION Spec
CONSTANTS
    Threads = {t1, t2}
    WordBits = 6
    PageSize = 2
    SpanSize = 4
    Sizes = {1, 7, 8, 9, 12, 16, 17, 32, 48, 60, 63}
    Alignments = {1, 2, 8}
    FileValues = {0, 2, 6, 8, 16}
    Unknown = Unknown
INVARIANTS PlacementSound NothingLeftMapped ProbesAgree
