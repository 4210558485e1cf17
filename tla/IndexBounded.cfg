SPECIFICATION Spec
CONSTANTS
    WordMax = 9
    Directory = "BOUNDED"
    BaseAddress = 2
    CoveredSize = 6
    RegionSize = 2
    GranuleSize = 1
    LeafRegions = 2
    PageHandles = 4
    IndexWords = 5
    zero = zero
    big = big
    Handles <- MCHandles
    InlineHandles <- MCInline
    ZeroHandle = zero
    Invalid = Invalid
    Null = Null
INVARIANTS StatsMatch ViewsAgree
PROPERTIES ImplementsMap
