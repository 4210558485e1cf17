SPECIFICATION TraceSpec
CONSTANTS
    WordBits = 4
    PointerBytes = 2
    SparseBits = 3
    SparseBitsMax = 2
    DefaultRegion = 2
    DefaultGranule = 1
    HeaderValues = {0, 3}
    Version = 3
    Hash <- MCHash
    MinCapacity = 2
    MaxInserted = 3
    Addresses = {0, 7, 8, 14}
    Lengths = {0, 2, 4}
    Handles = {h1, h2}
    Invalid = Invalid
SYMMETRY Interchangeable
INVARIANTS OracleExact StatsExact
PROPERTIES LoadAtomic
