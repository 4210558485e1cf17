SPECIFICATION Spec
CONSTANTS
    Threads = {t1, t2}
    Caches = {k1, k2, k3}
    NoCache = NoCache
    ClassCount = 1
    SpanCapacity = 1
    BlocksPerSpan = 3
    CacheLimit = 2
    CacheBatch = 2
    CountMax = 3
    NoBlock = NoBlock
    Unlocked = Unlocked
SYMMETRY Interchangeable
INVARIANTS BlocksConserved StateTracksProgram ExclusiveOwnsAll NothingStranded SegmentsSound CacheBounded
