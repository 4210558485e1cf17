SPECIFICATION FairSpec
CONSTANTS
    WordMax = 7
    Directory = "SPARSE"
    BaseAddress = 0
    CoveredSize = 8
    RegionSize = 2
    GranuleSize = 1
    LeafRegions = 2
    PageHandles = 4
    IndexWords = 5
    zero = zero
    big = big
    Handles <- MCOneHandle
    InlineHandles <- MCOneHandle
    ZeroHandle = zero
    Invalid = Invalid
    Null = Null
INVARIANTS TypeOK StatsMatch DescriptorsSound
PROPERTIES ImplementsMap CallReturns
