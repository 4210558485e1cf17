SPECIFICATION FairSpec
CONSTANTS
    Threads = {t1, t2}
    Caches = {k1, k2}
    NoCache = NoCache
    ClassCount = 2
    SpanCapacity = 2
    BlocksPerSpan = 1
    CacheLimit = 4
    CacheBatch = 1
    CountMax = 1
    NoBlock = NoBlock
    Unlocked = Unlocked
INVARIANTS TypeOK
PROPERTIES CallsReturn
