SPECIFICATION Spec
CONSTANTS
    Threads = {t1, t2}
    Addresses <- MCAddresses
    NoAddress = NoAddress
    Hash <- MCHash
    Sizes = {1, 2}
    MinBuckets = 1
SYMMETRY Interchangeable
INVARIANTS LargeIndexExact MappingsConserved LiveExact
