SPECIFICATION Spec
CONSTANTS
    Threads = {t1, t2}
    Heaps = {h1, h2}
    Caches = {k1, k2, k3}
    ClassCount = 2
    NoHeap = NoHeap
    NoCache = NoCache
INVARIANTS ResourcesExact CacheFoundIsOwn
