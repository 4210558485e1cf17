---------------------------- MODULE MemxHeapLife ----------------------------
(***************************************************************************)
(* Life cycles over several heaps: memx_heap_create with every error       *)
(* return, the caches a thread attaches to its heaps, the thread-local     *)
(* list of them with its one-entry shortcut memx_heap_tls_last_cache,      *)
(* memx_heap_thread_detach and memx_heap_destroy.                          *)
(*                                                                         *)
(* A resource is a block of memory, a mapping or an initialised mutex.     *)
(* Heap and cache addresses are model values and are reused once freed, as *)
(* the C allocator reuses them.  What happens inside a heap between these  *)
(* operations is the subject of MemxHeap and MemxLarge.                    *)
(*                                                                         *)
(* Callers keep the contract of allocator.h: a heap is used after          *)
(* memx_heap_create returned it, and it is destroyed after every other     *)
(* thread stopped using it and detached.                                   *)
(***************************************************************************)
EXTENDS Naturals, Sequences, SequencesExt

CONSTANTS
    Threads,
    Heaps,          \* addresses calloc can return for a heap
    Caches,         \* addresses calloc can return for a thread cache
    ClassCount,     \* MEMX_HEAP_CLASS_COUNT
    NoHeap,
    NoCache

ASSUME LifeAssumption ==
    /\ ClassCount \in Nat \ {0}
    /\ Heaps \cap Caches = {}
    /\ NoHeap \notin Heaps
    /\ NoCache \notin Caches

VARIABLES
    held,       \* the resources in existence
    misuse,     \* resources released while they did not exist
    initialized_class_locks,
    unlocked,   \* heaps that were freed with their first two locks alive
    usable,     \* heaps memx_heap_create has returned, not being destroyed
    caches,     \* heap->caches, head first
    exclusive_cache,
    cache_heap, \* cache->heap
    tls_caches,
    tls_last_cache,
    pc,
    at          \* the heap, cache and loop index of the call a thread is in

heapVars == <<initialized_class_locks, unlocked, usable>>
cacheVars == <<caches, exclusive_cache, cache_heap>>
tlsVars == <<tls_caches, tls_last_cache>>
vars == <<held, misuse, heapVars, cacheVars, tlsVars, pc, at>>

-----------------------------------------------------------------------------
(* Resources.                                                              *)

Memory(a) == <<"memory", a>>
RemoteLock(c) == <<"remote_lock", c>>
AdminLock(h) == <<"admin_lock", h>>
ArenaLock(h) == <<"arena_lock", h>>
ClassLock(h, i) == <<"class_lock", h, i>>
SpanClasses(h) == <<"span_classes", h>>
Arena(h) == <<"arena", h>>
Index(h) == <<"index", h>>

AllLocks(h) ==
    {AdminLock(h), ArenaLock(h)} \cup {ClassLock(h, i) : i \in 0..(ClassCount - 1)}

HeapResources(h) ==
    AllLocks(h) \cup {Memory(h), SpanClasses(h), Arena(h), Index(h)}

CacheResources(c) == {Memory(c), RemoteLock(c)}

(* SIZE_MAX in initialized_class_locks: all of them.                       *)
SizeMax == ClassCount + 1

NoCall == [heap |-> NoHeap, cache |-> NoCache, index |-> 0]

Init ==
    /\ held = {}
    /\ misuse = {}
    /\ initialized_class_locks = [h \in Heaps |-> 0]
    /\ unlocked = {}
    /\ usable = {}
    /\ caches = [h \in Heaps |-> <<>>]
    /\ exclusive_cache = [h \in Heaps |-> NoCache]
    /\ cache_heap = [c \in Caches |-> NoHeap]
    /\ tls_caches = [t \in Threads |-> <<>>]
    /\ tls_last_cache = [t \in Threads |-> NoCache]
    /\ pc = [t \in Threads |-> "idle"]
    /\ at = [t \in Threads |-> NoCall]

Acquire(r) ==
    /\ held' = held \cup {r}
    /\ UNCHANGED misuse

Release(rs) ==
    /\ held' = held \ rs
    /\ misuse' = misuse \cup (rs \ held)

Goto(t, label) ==
    /\ pc' = [pc EXCEPT ![t] = label]
    /\ UNCHANGED at

Return(t) ==
    /\ pc' = [pc EXCEPT ![t] = "idle"]
    /\ at' = [at EXCEPT ![t] = NoCall]

-----------------------------------------------------------------------------
(* memx_heap_create, after its configuration was accepted.  Each step      *)
(* acquires one resource or takes the error return; a first calloc that    *)
(* fails changes nothing.                                                  *)

(* calloc zeroes the fields: no initialised class locks, no cache.  Locks  *)
(* an earlier heap left undestroyed at this address are overwritten.       *)
CreateHeap(t, h) ==
    /\ pc[t] = "idle"
    /\ Memory(h) \notin held
    /\ held' = (held \ AllLocks(h)) \cup {Memory(h)}
    /\ unlocked' = unlocked \ {h}
    /\ initialized_class_locks' = [initialized_class_locks EXCEPT ![h] = 0]
    /\ caches' = [caches EXCEPT ![h] = <<>>]
    /\ exclusive_cache' = [exclusive_cache EXCEPT ![h] = NoCache]
    /\ pc' = [pc EXCEPT ![t] = "admin_lock"]
    /\ at' = [at EXCEPT ![t] = [NoCall EXCEPT !.heap = h]]
    /\ UNCHANGED <<misuse, usable, cache_heap, tlsVars>>

(* Mutant: the early return for a heap without class locks is missing.     *)
DestroysAlways(h, field) ==
    {ArenaLock(h), AdminLock(h)}
    \cup {ClassLock(h, i) : i \in 0..(ClassCount - 1)}

(* The locks the function destroys, by the value of                        *)
(* initialized_class_locks: none when it is 0, although the first two      *)
(* locks may exist.                                                        *)
memx_heap_destroy_locks(h, field) ==
    LET initialized == IF field = SizeMax THEN ClassCount ELSE field
    IN  IF field = 0
        THEN {}
        ELSE {ArenaLock(h), AdminLock(h)}
             \cup {ClassLock(h, i) : i \in {j \in 0..(ClassCount - 1) : j < initialized}}

DestroyLocks(h) == memx_heap_destroy_locks(h, initialized_class_locks[h])

InitAdminLock(t) ==
    /\ pc[t] = "admin_lock"
    /\ Acquire(AdminLock(at[t].heap))
    /\ Goto(t, "arena_lock")
    /\ UNCHANGED <<heapVars, cacheVars, tlsVars>>

InitArenaLock(t) ==
    /\ pc[t] = "arena_lock"
    /\ Acquire(ArenaLock(at[t].heap))
    /\ initialized_class_locks' =
           [initialized_class_locks EXCEPT ![at[t].heap] = SizeMax]
    /\ Goto(t, "class_locks")
    /\ UNCHANGED <<unlocked, usable, cacheVars, tlsVars>>

InitClassLock(t) ==
    /\ pc[t] = "class_locks"
    /\ Acquire(ClassLock(at[t].heap, at[t].index))
    /\ at' = [at EXCEPT ![t].index = @ + 1]
    /\ pc' = [pc EXCEPT ![t] =
           IF at[t].index + 1 = ClassCount THEN "span_classes" ELSE @]
    /\ UNCHANGED <<heapVars, cacheVars, tlsVars>>

(* memx_heap_init_locks fails at its first lock.                           *)
InitAdminLockFails(t) ==
    /\ pc[t] = "admin_lock"
    /\ Release(DestroyLocks(at[t].heap) \cup {Memory(at[t].heap)})
    /\ Return(t)
    /\ UNCHANGED <<heapVars, cacheVars, tlsVars>>

(* memx_heap_init_locks destroys admin_lock itself and leaves              *)
(* initialized_class_locks at 0.                                           *)
InitArenaLockFails(t) ==
    /\ pc[t] = "arena_lock"
    /\ Release({AdminLock(at[t].heap), Memory(at[t].heap)}
               \cup DestroyLocks(at[t].heap))
    /\ Return(t)
    /\ UNCHANGED <<heapVars, cacheVars, tlsVars>>

(* initialized_class_locks becomes the index of the lock that failed; at   *)
(* index 0 memx_heap_destroy_locks then keeps admin_lock and arena_lock.   *)
InitClassLockFails(t) ==
    LET h == at[t].heap
        i == at[t].index
    IN  /\ pc[t] = "class_locks"
        /\ initialized_class_locks' = [initialized_class_locks EXCEPT ![h] = i]
        /\ Release({Memory(h)} \cup memx_heap_destroy_locks(h, i))
        /\ unlocked' = unlocked \cup (IF i = 0 THEN {h} ELSE {})
        /\ Return(t)
        /\ UNCHANGED <<usable, cacheVars, tlsVars>>

CallocSpanClasses(t) ==
    /\ pc[t] = "span_classes"
    /\ Acquire(SpanClasses(at[t].heap))
    /\ Goto(t, "reserve")
    /\ UNCHANGED <<heapVars, cacheVars, tlsVars>>

ReserveArena(t) ==
    /\ pc[t] = "reserve"
    /\ Acquire(Arena(at[t].heap))
    /\ Goto(t, "index")
    /\ UNCHANGED <<heapVars, cacheVars, tlsVars>>

(* memx_index_create succeeds and the heap is returned in *out_heap.       *)
PublishHeap(t) ==
    /\ pc[t] = "index"
    /\ Acquire(Index(at[t].heap))
    /\ usable' = usable \cup {at[t].heap}
    /\ Return(t)
    /\ UNCHANGED <<initialized_class_locks, unlocked, cacheVars, tlsVars>>

(* The error returns after the locks: what each frees beside the locks and *)
(* the heap.                                                               *)
Unwound(label, h) ==
    CASE label = "span_classes" -> {}
      [] label = "reserve"      -> {SpanClasses(h)}
      [] label = "index"        -> {Arena(h), SpanClasses(h)}

CreateFails(t) ==
    LET h == at[t].heap
    IN  /\ pc[t] \in {"span_classes", "reserve", "index"}
        /\ Release(Unwound(pc[t], h) \cup DestroyLocks(h) \cup {Memory(h)})
        /\ initialized_class_locks' = [initialized_class_locks EXCEPT ![h] = 0]
        /\ Return(t)
        /\ UNCHANGED <<unlocked, usable, cacheVars, tlsVars>>

-----------------------------------------------------------------------------
(* Caches.                                                                 *)

(* Position in the calling thread's list of the cache for h, 0 if none.    *)
TlsPosition(t, h) ==
    SelectInSeq(tls_caches[t], LAMBDA c : cache_heap[c] = h)

memx_heap_find_cache(t, h) ==
    LET last == tls_last_cache[t]
        i == TlsPosition(t, h)
    IN  IF last # NoCache /\ cache_heap[last] = h
        THEN last
        ELSE IF i # 0 THEN tls_caches[t][i] ELSE NoCache

(* memx_heap_get_cache of a malloc, or memx_heap_find_cache of a free,     *)
(* finds the cache and remembers it.                                       *)
FindCache(t, h) ==
    /\ pc[t] = "idle"
    /\ h \in usable
    /\ memx_heap_find_cache(t, h) # NoCache
    /\ tls_last_cache' = [tls_last_cache EXCEPT ![t] = memx_heap_find_cache(t, h)]
    /\ UNCHANGED <<held, misuse, heapVars, cacheVars, tls_caches, pc, at>>

(* memx_heap_create_cache, up to its calloc.                               *)
CallocCache(t, h, c) ==
    /\ pc[t] = "idle"
    /\ h \in usable
    /\ memx_heap_find_cache(t, h) = NoCache
    /\ Memory(c) \notin held
    /\ Acquire(Memory(c))
    /\ pc' = [pc EXCEPT ![t] = "remote_lock"]
    /\ at' = [at EXCEPT ![t] = [NoCall EXCEPT !.heap = h, !.cache = c]]
    /\ cache_heap' = [cache_heap EXCEPT ![c] = NoHeap]
    /\ UNCHANGED <<heapVars, caches, exclusive_cache, tlsVars>>

InitRemoteLock(t) ==
    LET c == at[t].cache
    IN  /\ pc[t] = "remote_lock"
        /\ Acquire(RemoteLock(c))
        /\ cache_heap' = [cache_heap EXCEPT ![c] = at[t].heap]
        /\ tls_caches' = [tls_caches EXCEPT ![t] = <<c>> \o @]
        /\ tls_last_cache' = [tls_last_cache EXCEPT ![t] = c]
        /\ Goto(t, "heap_list")
        /\ UNCHANGED <<heapVars, caches, exclusive_cache>>

InitRemoteLockFails(t) ==
    /\ pc[t] = "remote_lock"
    /\ Release({Memory(at[t].cache)})
    /\ Return(t)
    /\ UNCHANGED <<heapVars, cacheVars, tlsVars>>

(* The section under admin_lock.                                           *)
PublishCache(t) ==
    LET h == at[t].heap
        c == at[t].cache
    IN  /\ pc[t] = "heap_list"
        /\ exclusive_cache' =
               [exclusive_cache EXCEPT ![h] = IF caches[h] = <<>> THEN c ELSE NoCache]
        /\ caches' = [caches EXCEPT ![h] = <<c>> \o @]
        /\ Return(t)
        /\ UNCHANGED <<held, misuse, heapVars, cache_heap, tlsVars>>

(* Mutant: the shortcut survives the cache it points to.                   *)
UnlinkKeepsLast(t, h) ==
    /\ tls_caches' = [tls_caches EXCEPT ![t] = RemoveAt(@, TlsPosition(t, h))]
    /\ UNCHANGED tls_last_cache

(* memx_heap_thread_detach takes the cache out of the thread's list; the   *)
(* cache object stays with the heap.                                       *)
Unlink(t, h) ==
    LET i == TlsPosition(t, h)
        c == tls_caches[t][i]
    IN  /\ tls_caches' = [tls_caches EXCEPT ![t] = RemoveAt(@, i)]
        /\ tls_last_cache' = [tls_last_cache EXCEPT ![t] = IF @ = c THEN NoCache ELSE @]

Detach(t, h) ==
    /\ pc[t] = "idle"
    /\ h \in usable
    /\ TlsPosition(t, h) # 0
    /\ Unlink(t, h)
    /\ UNCHANGED <<held, misuse, heapVars, cacheVars, pc, at>>

-----------------------------------------------------------------------------
(* memx_heap_destroy.                                                      *)

(* What the caller must ensure: no other thread is in a call on h or has a *)
(* cache of it.                                                            *)
MayDestroy(t, h) ==
    /\ h \in usable
    /\ \A u \in Threads \ {t} : at[u].heap # h /\ TlsPosition(u, h) = 0

(* Its own detach comes first.                                             *)
DestroyBegin(t, h) ==
    /\ pc[t] = "idle"
    /\ MayDestroy(t, h)
    /\ usable' = usable \ {h}
    /\ IF TlsPosition(t, h) = 0 THEN UNCHANGED tlsVars ELSE Unlink(t, h)
    /\ pc' = [pc EXCEPT ![t] = "destroy"]
    /\ at' = [at EXCEPT ![t] = [NoCall EXCEPT !.heap = h]]
    /\ UNCHANGED <<held, misuse, initialized_class_locks, unlocked, cacheVars>>

DestroyCache(t) ==
    LET h == at[t].heap
    IN  /\ pc[t] = "destroy"
        /\ caches[h] # <<>>
        /\ Release(CacheResources(Head(caches[h])))
        /\ caches' = [caches EXCEPT ![h] = Tail(@)]
        /\ UNCHANGED <<heapVars, exclusive_cache, cache_heap, tlsVars, pc, at>>

(* The spans lie in the arena; they are marked dead before it is released. *)
DestroyHeap(t) ==
    LET h == at[t].heap
    IN  /\ pc[t] = "destroy"
        /\ caches[h] = <<>>
        /\ Release({Index(h), Arena(h), SpanClasses(h), Memory(h)}
                   \cup DestroyLocks(h))
        /\ initialized_class_locks' = [initialized_class_locks EXCEPT ![h] = 0]
        /\ Return(t)
        /\ UNCHANGED <<unlocked, usable, cacheVars, tlsVars>>

-----------------------------------------------------------------------------

Create(t) ==
    \/ \E h \in Heaps : CreateHeap(t, h)
    \/ InitAdminLock(t) \/ InitAdminLockFails(t)
    \/ InitArenaLock(t) \/ InitArenaLockFails(t)
    \/ InitClassLock(t) \/ InitClassLockFails(t)
    \/ CallocSpanClasses(t) \/ ReserveArena(t) \/ PublishHeap(t)
    \/ CreateFails(t)

Attach(t) ==
    \/ \E h \in Heaps : FindCache(t, h) \/ Detach(t, h)
    \/ \E h \in Heaps, c \in Caches : CallocCache(t, h, c)
    \/ InitRemoteLock(t) \/ InitRemoteLockFails(t) \/ PublishCache(t)

Destroy(t) ==
    \/ \E h \in Heaps : DestroyBegin(t, h)
    \/ DestroyCache(t) \/ DestroyHeap(t)

Next == \E t \in Threads : Create(t) \/ Attach(t) \/ Destroy(t)

Spec == Init /\ [][Next]_vars

-----------------------------------------------------------------------------
(* Properties.                                                             *)

(* Whatever step of a creation fails, and once a destruction is over, only *)
(* the resources of heaps and caches in use exist, none of them is missing *)
(* and none was released twice.  The one exception is what                 *)
(* memx_heap_destroy_locks skips when the first class lock could not be    *)
(* initialised.                                                            *)
ResourcesExact ==
    /\ misuse = {}
    /\ \A h \in usable :
           /\ HeapResources(h) \subseteq held
           /\ \A c \in Range(caches[h]) : CacheResources(c) \subseteq held
    /\ (\A t \in Threads : pc[t] = "idle") =>
           held = (UNION {HeapResources(h) : h \in usable})
                  \cup (UNION {CacheResources(c) :
                                c \in UNION {Range(caches[h]) : h \in usable}})
                  \cup (UNION {{AdminLock(h), ArenaLock(h)} : h \in unlocked})

(* The cache a call finds for a heap is alive, belongs to that heap and to *)
(* the calling thread, although heap and cache addresses are reused and    *)
(* the shortcut is not cleared when another heap goes away; and the        *)
(* exclusive_cache that frees of a heap compare it with is a cache of that *)
(* heap.                                                                   *)
CacheFoundIsOwn ==
    /\ \A t \in Threads, h \in usable :
           LET c == memx_heap_find_cache(t, h)
               mine == {d \in Range(tls_caches[t]) : cache_heap[d] = h}
           IN  IF c = NoCache
               THEN mine = {}
               ELSE /\ mine = {c}
                    /\ CacheResources(c) \subseteq held
                    /\ \A u \in Threads \ {t} : c \notin Range(tls_caches[u])
    /\ \A h \in usable :
           exclusive_cache[h] # NoCache =>
               /\ exclusive_cache[h] \in Range(caches[h])
               /\ cache_heap[exclusive_cache[h]] = h
=============================================================================
