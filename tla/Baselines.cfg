SPECIFICATION BaselineSpec
CONSTANTS
    WordBits = 3
    Bases = {0, 1, 2, 3, 4, 5, 6, 7}
    Spans = {0, 1, 2, 3, 4, 5, 6, 7}
    Shifts = {0, 1, 2, 3}
    Handles = {h1, h2}
    Invalid = Invalid
    CacheEntries = 2
    StructWords = 3
    PageWords = 4
INVARIANTS BaselinesAgree AccountingExact
