SPECIFICATION ClassesSpec
CONSTANTS
    WordBits = 17
    WordBytes = 8
    SparseBitsMax = 16
    PageSize = 4096
    BatchMax = 4
    HeapConfigs <- MCHeapConfigs
    ArenaBases <- MCArenaBases
    RequestSizes <- MCRequestSizes
    Alignments <- MCAlignments
    Counts <- MCCounts
    ReallocSizes = {1, 16, 17, 24, 33, 8191, 8192, 8193, 20000}
    SpanClassChoice = {1, 17, 18}
INVARIANTS RequestServed BlocksFound AcceptedHeapServes ReallocExact
