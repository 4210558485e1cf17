------------------------- MODULE MemxHeapLifeProofs -------------------------
(***************************************************************************)
(* Proofs about MemxHeapLife, for every number of threads, heap addresses,  *)
(* cache addresses and size classes: memx_heap_create, the attachment of    *)
(* caches and memx_heap_destroy neither leak nor release twice, and a       *)
(* thread finds only its own live cache.                                    *)
(***************************************************************************)
EXTENDS MemxHeapLife, SequenceTheorems, TLAPS

-----------------------------------------------------------------------------
(***************************************************************************)
(* Linked lists: what they hold, and that they hold it once.                *)
(***************************************************************************)
OnceEach(s) == \A i, j \in 1..Len(s) : s[i] = s[j] => i = j

\* The empty list holds nothing.
LEMMA EmptyList ==
    ASSUME NEW S
    PROVE  << >> \in Seq(S) /\ Range(<< >>) = {} /\ OnceEach(<< >>)
BY DEF Range, OnceEach

\* A list that is not empty holds its first element.
LEMMA ListNotEmpty ==
    ASSUME NEW S, NEW s \in Seq(S)
    PROVE  /\ Range(s) \subseteq S
           /\ Range(s) = {} <=> s = << >>
           /\ \A i \in 1..Len(s) : s[i] \in Range(s)
           /\ \A x \in Range(s) : \E i \in 1..Len(s) : s[i] = x
<1>1. DOMAIN s = 1..Len(s) /\ Len(s) \in Nat /\ \A i \in 1..Len(s) : s[i] \in S
  BY LenProperties, ElementOfSeq
<1>2. s # << >> => Len(s) >= 1
  BY <1>1, EmptySeq
<1>3. \A i \in 1..Len(s) : s[i] \in Range(s)
  BY <1>1 DEF Range
<1>4. \A x \in Range(s) : \E i \in 1..Len(s) : s[i] = x
  BY <1>1 DEF Range
<1>5. s # << >> => Range(s) # {}
  BY <1>1, <1>2, <1>3
<1>6. s = << >> => Range(s) = {}
  BY EmptyList
<1> QED BY <1>1, <1>3, <1>4, <1>5, <1>6

\* memx_heap_create_cache links a cache at the head of a list.
LEMMA Prepended ==
    ASSUME NEW S, NEW s \in Seq(S), NEW x \in S
    PROVE  /\ <<x>> \o s \in Seq(S)
           /\ Range(<<x>> \o s) = {x} \cup Range(s)
           /\ OnceEach(s) /\ x \notin Range(s) => OnceEach(<<x>> \o s)
<1>1. PICK new : new = <<x>> \o s
  OBVIOUS
<1>2. /\ new \in Seq(S)
      /\ Len(new) = Len(s) + 1
      /\ \A i \in 1 .. Len(s) + 1 : new[i] = IF i <= 1 THEN x ELSE s[i - 1]
  <2>1. <<x>> \in Seq(S) /\ Len(<<x>>) = 1 /\ <<x>>[1] = x
    OBVIOUS
  <2> QED BY <1>1, <2>1, ConcatProperties
<1>3. Len(s) \in Nat /\ DOMAIN s = 1..Len(s) /\ DOMAIN new = 1..(Len(s) + 1)
  BY <1>2, LenProperties
<1>4. \A i \in 1..Len(s) : s[i] = new[i + 1] /\ i + 1 \in 1..(Len(s) + 1)
  BY <1>2, <1>3
<1>5. x = new[1] /\ 1 \in 1..(Len(s) + 1)
  BY <1>2, <1>3
<1>6. Range(new) = {x} \cup Range(s)
  <2>1. \A y \in Range(new) : y = x \/ y \in Range(s)
    BY <1>2, <1>3 DEF Range
  <2>2. \A y \in Range(s) : y \in Range(new)
    BY <1>3, <1>4 DEF Range
  <2>3. x \in Range(new)
    BY <1>3, <1>5 DEF Range
  <2> QED BY <2>1, <2>2, <2>3
<1>7. ASSUME OnceEach(s), x \notin Range(s) PROVE OnceEach(new)
  <2>1. \A i \in 1..Len(s) : s[i] # x
    BY <1>3, <1>7 DEF Range
  <2> QED BY <1>2, <1>3, <1>7, <2>1 DEF OnceEach
<1> QED BY <1>1, <1>2, <1>6, <1>7

\* memx_heap_destroy takes the caches from the head of the list.
LEMMA HeadTaken ==
    ASSUME NEW S, NEW s \in Seq(S), s # << >>, OnceEach(s)
    PROVE  /\ Head(s) \in Range(s)
           /\ Tail(s) \in Seq(S)
           /\ Range(Tail(s)) = Range(s) \ {Head(s)}
           /\ OnceEach(Tail(s))
<1>1. PICK rest : rest = Tail(s)
  OBVIOUS
<1>2. /\ Len(s) \in Nat /\ Len(s) >= 1 /\ DOMAIN s = 1..Len(s) /\ Head(s) = s[1]
      /\ rest \in Seq(S) /\ Len(rest) = Len(s) - 1 /\ DOMAIN rest = 1..(Len(s) - 1)
      /\ \A i \in 1..(Len(s) - 1) : rest[i] = s[i + 1]
  BY <1>1, HeadTailProperties, LenProperties, EmptySeq
<1>3. \A i \in 1..Len(s) : i = 1 \/ (i - 1 \in 1..(Len(s) - 1) /\ rest[i - 1] = s[i])
  BY <1>2
<1>4. Range(rest) = Range(s) \ {Head(s)}
  <2>1. \A y \in Range(rest) : y \in Range(s) /\ y # s[1]
    BY <1>2 DEF Range, OnceEach
  <2>2. \A y \in Range(s) : y # s[1] => y \in Range(rest)
    <3> SUFFICES ASSUME NEW i \in 1..Len(s), s[i] # s[1] PROVE s[i] \in Range(rest)
      BY <1>2 DEF Range
    <3>1. i - 1 \in 1..(Len(s) - 1) /\ rest[i - 1] = s[i]
      BY <1>3
    <3> QED BY <1>2, <3>1 DEF Range
  <2> QED BY <1>2, <2>1, <2>2
<1>5. OnceEach(rest)
  BY <1>2 DEF OnceEach
<1> QED BY <1>1, <1>2, <1>4, <1>5 DEF Range

\* memx_heap_thread_detach unlinks a cache anywhere in the thread's list.
LEMMA Unlinked ==
    ASSUME NEW S, NEW s \in Seq(S), OnceEach(s), NEW k \in 1..Len(s)
    PROVE  /\ RemoveAt(s, k) \in Seq(S)
           /\ Range(RemoveAt(s, k)) = Range(s) \ {s[k]}
           /\ OnceEach(RemoveAt(s, k))
<1>1. PICK new : new = RemoveAt(s, k)
  OBVIOUS
<1>2. PICK n : n = Len(s)
  OBVIOUS
<1>3. n \in Nat /\ k \in Nat /\ 1 <= k /\ k <= n /\ DOMAIN s = 1..n /\ \A i \in 1..n : s[i] \in S
  BY <1>2, LenProperties, ElementOfSeq
<1>4. /\ SubSeq(s, 1, k - 1) \in Seq(S)
      /\ Len(SubSeq(s, 1, k - 1)) = k - 1
      /\ \A i \in 1..(k - 1) : SubSeq(s, 1, k - 1)[i] = s[i]
  BY <1>2, <1>3
<1>5. /\ SubSeq(s, k + 1, n) \in Seq(S)
      /\ Len(SubSeq(s, k + 1, n)) = n - k
      /\ \A i \in 1..(n - k) : SubSeq(s, k + 1, n)[i] = s[i + k]
  BY <1>2, <1>3
<1>6. /\ new \in Seq(S)
      /\ Len(new) = n - 1
      /\ \A i \in 1..(n - 1) : new[i] = IF i < k THEN s[i] ELSE s[i + 1]
  <2>1. new = SubSeq(s, 1, k - 1) \o SubSeq(s, k + 1, n)
    BY <1>1, <1>2 DEF RemoveAt
  <2>2. /\ new \in Seq(S)
        /\ Len(new) = n - 1
        /\ \A i \in 1..(n - 1) : new[i] = IF i <= k - 1 THEN SubSeq(s, 1, k - 1)[i]
                                          ELSE SubSeq(s, k + 1, n)[i - (k - 1)]
    <3>1. PICK before \in Seq(S), after \in Seq(S) :
              before = SubSeq(s, 1, k - 1) /\ after = SubSeq(s, k + 1, n)
      BY <1>4, <1>5
    <3>2. /\ new \in Seq(S)
          /\ Len(new) = Len(before) + Len(after)
          /\ \A i \in 1..(Len(before) + Len(after)) :
                new[i] = IF i <= Len(before) THEN before[i] ELSE after[i - Len(before)]
      BY <2>1, <3>1, ConcatProperties
    <3>3. Len(before) = k - 1 /\ Len(after) = n - k /\ (k - 1) + (n - k) = n - 1
      BY <1>3, <1>4, <1>5, <3>1
    <3> QED BY <3>1, <3>2, <3>3
  <2>3. \A i \in 1..(n - 1) : i < k => i <= k - 1 /\ i \in 1..(k - 1)
    BY <1>3
  <2>4. \A i \in 1..(n - 1) : ~(i < k) =>
           ~(i <= k - 1) /\ i - (k - 1) \in 1..(n - k) /\ i - (k - 1) + k = i + 1
    BY <1>3
  <2> QED BY <1>4, <1>5, <2>2, <2>3, <2>4
<1>7. DOMAIN new = 1..(n - 1)
  BY <1>6, LenProperties
<1>8. Range(new) = Range(s) \ {s[k]}
  <2>1. \A y \in Range(new) : y \in Range(s) /\ y # s[k]
    BY <1>2, <1>3, <1>6, <1>7 DEF Range, OnceEach
  <2>2. \A i \in 1..n : i # k => \E j \in 1..(n - 1) : new[j] = s[i]
    <3>1. \A i \in 1..n : i < k => i \in 1..(n - 1) /\ new[i] = s[i]
      BY <1>3, <1>6
    <3>2. \A i \in 1..n : i > k => i - 1 \in 1..(n - 1) /\ new[i - 1] = s[i]
      BY <1>3, <1>6
    <3> QED BY <1>3, <3>1, <3>2
  <2>3. \A y \in Range(s) : y # s[k] => y \in Range(new)
    BY <1>3, <1>7, <2>2 DEF Range
  <2> QED BY <2>1, <2>3
<1>9. OnceEach(new)
  BY <1>2, <1>3, <1>6 DEF OnceEach
<1> QED BY <1>1, <1>6, <1>8, <1>9

-----------------------------------------------------------------------------
(***************************************************************************)
(* Resources.                                                               *)
(***************************************************************************)
\* The memory and the locks of one address are different things.
LEMMA HeapResourcesDiffer ==
    ASSUME NEW h, NEW i
    PROVE  /\ Memory(h) \notin {AdminLock(h), ArenaLock(h), SpanClasses(h), Arena(h), Index(h)}
           /\ Memory(h) # ClassLock(h, i)
           /\ AdminLock(h) \notin {ArenaLock(h), SpanClasses(h), Arena(h), Index(h)}
           /\ AdminLock(h) # ClassLock(h, i)
           /\ ArenaLock(h) \notin {SpanClasses(h), Arena(h), Index(h)}
           /\ ArenaLock(h) # ClassLock(h, i)
           /\ \A j : ClassLock(h, i) = ClassLock(h, j) => i = j
           /\ ClassLock(h, i) \notin {SpanClasses(h), Arena(h), Index(h)}
           /\ SpanClasses(h) \notin {Arena(h), Index(h)}
           /\ Arena(h) # Index(h)
BY DEF Memory, AdminLock, ArenaLock, SpanClasses, Arena, Index, ClassLock

\* Two heaps share no resource.
LEMMA HeapsApart ==
    ASSUME NEW h, NEW g, h # g
    PROVE  HeapResources(h) \cap HeapResources(g) = {}
BY DEF HeapResources, AllLocks, Memory, AdminLock, ArenaLock, SpanClasses, Arena,
       Index, ClassLock

\* Two caches share no resource.
LEMMA CachesApart ==
    ASSUME NEW c, NEW d, c # d
    PROVE  CacheResources(c) \cap CacheResources(d) = {}
BY DEF CacheResources, Memory, RemoteLock

\* A heap and a cache share no resource: calloc gives them different addresses.
LEMMA HeapAndCacheApart ==
    ASSUME NEW h \in Heaps, NEW c \in Caches
    PROVE  HeapResources(h) \cap CacheResources(c) = {}
<1>1. h # c
  BY LifeAssumption
<1> QED BY <1>1 DEF HeapResources, AllLocks, CacheResources, Memory, AdminLock, ArenaLock,
              SpanClasses, Arena, Index, ClassLock, RemoteLock

-----------------------------------------------------------------------------
(***************************************************************************)
(* The inductive invariant.                                                 *)
(*                                                                          *)
(* A heap address is free, in the hands of one thread that builds or        *)
(* destroys a heap there, usable, or free with two locks left alive.  A     *)
(* cache address is free, in the hands of one thread that attaches it, or   *)
(* in the list of one heap.                                                 *)
(***************************************************************************)
Making == {"admin_lock", "arena_lock", "class_locks", "span_classes", "reserve",
           "index", "destroy"}
Attaching == {"remote_lock", "heap_list"}
Labels == {"idle"} \cup Making \cup Attaching

Frames == [heap : Heaps \cup {NoHeap}, cache : Caches \cup {NoCache}, index : Nat]

Made(h) == \E t \in Threads : pc[t] \in Making /\ at[t].heap = h
Taken(c) == \E t \in Threads : pc[t] \in Attaching /\ at[t].cache = c
Listed(c) == \E h \in Heaps : c \in Range(caches[h])

LifeType ==
    /\ usable \subseteq Heaps
    /\ unlocked \subseteq Heaps
    /\ initialized_class_locks \in [Heaps -> 0..SizeMax]
    /\ caches \in [Heaps -> Seq(Caches)]
    /\ exclusive_cache \in [Heaps -> Caches \cup {NoCache}]
    /\ cache_heap \in [Caches -> Heaps \cup {NoHeap}]
    /\ tls_caches \in [Threads -> Seq(Caches)]
    /\ tls_last_cache \in [Threads -> Caches \cup {NoCache}]
    /\ pc \in [Threads -> Labels]
    /\ at \in [Threads -> Frames]

\* What the call a thread is in has hold of: its heap belongs to it alone while
\* it is built or destroyed, its cache while it is attached.
FrameInv ==
    /\ usable \cap unlocked = {}
    /\ \A t \in Threads :
           /\ pc[t] = "idle" => at[t] = NoCall
           /\ pc[t] \in Making => at[t].heap \in Heaps \ (usable \cup unlocked)
           /\ pc[t] \in Attaching => at[t].heap \in usable /\ at[t].cache \in Caches
           /\ pc[t] \in {"admin_lock", "arena_lock"} => at[t].index = 0
           /\ pc[t] = "class_locks" => at[t].index < ClassCount
    /\ \A t, u \in Threads :
           t # u =>
               /\ pc[t] \in Making /\ pc[u] \in Making => at[t].heap # at[u].heap
               /\ pc[t] \in Attaching /\ pc[u] \in Attaching => at[t].cache # at[u].cache

\* initialized_class_locks tells memx_heap_destroy_locks the truth wherever an
\* error return or memx_heap_destroy comes to read it.
LocksInv ==
    /\ \A h \in usable : initialized_class_locks[h] = SizeMax
    /\ \A t \in Threads :
           pc[t] \in Making =>
               initialized_class_locks[at[t].heap] =
                   IF pc[t] \in {"admin_lock", "arena_lock"} THEN 0 ELSE SizeMax

\* The resources a thread has acquired for the heap at h when it is at a label
\* of memx_heap_create or memx_heap_destroy, with index the next class lock.
Acquired(label, h, index) ==
    CASE label = "admin_lock"   -> {Memory(h)}
      [] label = "arena_lock"   -> {Memory(h), AdminLock(h)}
      [] label = "class_locks"  -> {Memory(h), AdminLock(h), ArenaLock(h)}
                                   \cup {ClassLock(h, i) : i \in 0..(index - 1)}
      [] label = "span_classes" -> {Memory(h)} \cup AllLocks(h)
      [] label = "reserve"      -> {Memory(h), SpanClasses(h)} \cup AllLocks(h)
      [] label = "index"        -> {Memory(h), SpanClasses(h), Arena(h)} \cup AllLocks(h)
      [] label = "destroy"      -> HeapResources(h)

HeapHeld ==
    /\ \A h \in usable : HeapResources(h) \subseteq held
    /\ \A t \in Threads :
           pc[t] \in Making =>
               held \cap HeapResources(at[t].heap) =
                   Acquired(pc[t], at[t].heap, at[t].index)
    /\ \A h \in Heaps \ usable :
           ~ Made(h) => held \cap HeapResources(h) =
                            IF h \in unlocked THEN {AdminLock(h), ArenaLock(h)} ELSE {}

CacheHeld ==
    /\ \A h \in Heaps : \A c \in Range(caches[h]) : CacheResources(c) \subseteq held
    /\ \A t \in Threads :
           /\ pc[t] = "remote_lock" =>
                  held \cap CacheResources(at[t].cache) = {Memory(at[t].cache)}
           /\ pc[t] = "heap_list" => CacheResources(at[t].cache) \subseteq held
    /\ \A c \in Caches :
           ~ Listed(c) /\ ~ Taken(c) => held \cap CacheResources(c) = {}

HeldInv ==
    /\ misuse = {}
    /\ held \subseteq (UNION {HeapResources(h) : h \in Heaps})
                      \cup (UNION {CacheResources(c) : c \in Caches})

\* heap->caches: the caches of a heap in use, each in one list and once, and
\* none that a thread is still attaching.
ListInv ==
    /\ \A h \in Heaps :
           /\ Range(caches[h]) # {} =>
                  \/ h \in usable
                  \/ \E t \in Threads : pc[t] = "destroy" /\ at[t].heap = h
           /\ OnceEach(caches[h])
           /\ \A c \in Range(caches[h]) : cache_heap[c] = h /\ ~ Taken(c)
    /\ \A h \in usable :
           exclusive_cache[h] # NoCache => exclusive_cache[h] \in Range(caches[h])
    /\ \A t \in Threads :
           pc[t] \in Making \ {"destroy"} => exclusive_cache[at[t].heap] = NoCache

\* The list of one thread: caches of heaps in use, one per heap, in the heap's
\* list too unless the thread is between the two.
OwnList(t) ==
    /\ OnceEach(tls_caches[t])
    /\ \A c \in Range(tls_caches[t]) :
           /\ cache_heap[c] \in usable
           /\ \/ c \in Range(caches[cache_heap[c]])
              \/ pc[t] = "heap_list" /\ at[t].cache = c
           /\ pc[t] = "remote_lock" => cache_heap[c] # at[t].heap
           /\ \A d \in Range(tls_caches[t]) : cache_heap[c] = cache_heap[d] => c = d
    /\ tls_last_cache[t] # NoCache => tls_last_cache[t] \in Range(tls_caches[t])
    /\ pc[t] = "heap_list" => cache_heap[at[t].cache] = at[t].heap

TlsInv ==
    /\ \A t \in Threads : OwnList(t)
    /\ \A t, u \in Threads :
           t # u => Range(tls_caches[t]) \cap Range(tls_caches[u]) = {}

LifeInv ==
    /\ LifeType
    /\ FrameInv
    /\ LocksInv
    /\ HeapHeld
    /\ CacheHeld
    /\ HeldInv
    /\ ListInv
    /\ TlsInv

-----------------------------------------------------------------------------
(***************************************************************************)
(* Steps on a heap that one thread has in hand.                             *)
(***************************************************************************)
\* No other thread builds or destroys a heap at h.
InHand(t, h) ==
    /\ h \in Heaps \ usable
    /\ \A u \in Threads \ {t} : pc[u] \in Making => at[u].heap # h

\* A step of memx_heap_create or memx_heap_destroy by t touches only the heap
\* at h and what t knows of it.
OnlyHeap(t, h) ==
    /\ \A u \in Threads \ {t} : pc'[u] = pc[u] /\ at'[u] = at[u]
    /\ \A g \in Heaps \ {h} :
           /\ g \in usable' <=> g \in usable
           /\ g \in unlocked' <=> g \in unlocked
           /\ initialized_class_locks'[g] = initialized_class_locks[g]
           /\ exclusive_cache'[g] = exclusive_cache[g]
    /\ \A r : r \notin HeapResources(h) => (r \in held' <=> r \in held)
    /\ pc[t] = "idle" \/ (pc[t] \in Making /\ at[t].heap = h)
    /\ caches' = caches /\ cache_heap' = cache_heap
    /\ tls_caches' = tls_caches /\ tls_last_cache' = tls_last_cache
    /\ misuse' = misuse

\* Where the step leaves t inside the call: what LifeInv asks of the heap.
StillInHand(t, h) ==
    /\ pc'[t] \in Making /\ at'[t].heap = h
    /\ h \notin usable' \cup unlocked'
    /\ pc'[t] \in {"admin_lock", "arena_lock"} => at'[t].index = 0
    /\ pc'[t] = "class_locks" => at'[t].index < ClassCount
    /\ initialized_class_locks'[h] = IF pc'[t] \in {"admin_lock", "arena_lock"} THEN 0 ELSE SizeMax
    /\ held' \cap HeapResources(h) = Acquired(pc'[t], h, at'[t].index)
    /\ pc'[t] # "destroy" => exclusive_cache'[h] = NoCache

\* Where it ends the call: the heap is usable, or gone.
LetGo(t, h) ==
    /\ pc'[t] = "idle" /\ at'[t] = NoCall
    /\ ~(h \in usable' /\ h \in unlocked')
    /\ IF h \in usable'
       THEN /\ HeapResources(h) \subseteq held'
            /\ initialized_class_locks'[h] = SizeMax
            /\ exclusive_cache'[h] = NoCache
       ELSE held' \cap HeapResources(h) =
                IF h \in unlocked' THEN {AdminLock(h), ArenaLock(h)} ELSE {}

\* Such a step keeps the invariant.
LEMMA HeapStep ==
    ASSUME LifeInv, LifeType', NEW t \in Threads, NEW h, InHand(t, h), OnlyHeap(t, h),
           Range(caches[h]) = {} \/ pc'[t] = "destroy",
           StillInHand(t, h) \/ LetGo(t, h)
    PROVE  LifeInv'
<1>1. h \in Heaps /\ h \notin usable /\ NoHeap \notin Heaps
  BY LifeAssumption DEF InHand
<1>2. pc'[t] = "idle" \/ (pc'[t] \in Making /\ at'[t].heap = h)
  BY DEF StillInHand, LetGo
<1>3. \A u \in Threads \ {t} :
         /\ pc'[u] = pc[u] /\ at'[u] = at[u]
         /\ pc[u] \in Making => at[u].heap # h /\ at[u].heap \in Heaps
         /\ pc[u] \in Attaching => at[u].heap # h /\ at[u].heap \in Heaps
  BY <1>1 DEF OnlyHeap, InHand, LifeInv, FrameInv, LifeType
<1>4. "idle" \notin Making \cup Attaching /\ Making \cap Attaching = {}
      /\ "destroy" \in Making /\ {"admin_lock", "arena_lock"} \subseteq Making
      /\ "remote_lock" \in Attaching /\ "heap_list" \in Attaching /\ "class_locks" \in Making
  BY DEF Making, Attaching
<1>5. \A u \in Threads : pc[u] \in Attaching => u # t
  BY <1>4 DEF OnlyHeap
<1>6. \A u \in Threads : pc'[u] \in Attaching => u # t
  BY <1>2, <1>4
<1>7. \A c : Taken(c)' <=> Taken(c)
  BY <1>3, <1>5, <1>6 DEF Taken
<1>8. \A g \in Heaps \ {h} : Made(g)' <=> Made(g)
  BY <1>2, <1>3, <1>4 DEF Made, OnlyHeap
<1>9. Made(h)' <=> pc'[t] \in Making
  BY <1>2, <1>3, <1>4 DEF Made
<1>10. /\ \A g \in Heaps \ {h} :
             /\ g \in usable' <=> g \in usable
             /\ g \in unlocked' <=> g \in unlocked
             /\ initialized_class_locks'[g] = initialized_class_locks[g]
             /\ exclusive_cache'[g] = exclusive_cache[g]
       /\ caches' = caches /\ cache_heap' = cache_heap /\ misuse' = misuse
       /\ tls_caches' = tls_caches /\ tls_last_cache' = tls_last_cache
       /\ \A r : r \notin HeapResources(h) => (r \in held' <=> r \in held)
  BY DEF OnlyHeap
<1>11. \A g \in Heaps \ {h} : held' \cap HeapResources(g) = held \cap HeapResources(g)
  BY <1>10, HeapsApart
<1>12. \A c \in Caches : held' \cap CacheResources(c) = held \cap CacheResources(c)
  BY <1>1, <1>10, HeapAndCacheApart
<1>13. FrameInv'
  <2>1. (usable \cap unlocked = {})'
    <3>1. ~(h \in usable' /\ h \in unlocked')
      BY DEF StillInHand, LetGo
    <3>2. \A g \in Heaps \ {h} : ~(g \in usable' /\ g \in unlocked')
      BY <1>10 DEF LifeInv, FrameInv
    <3> QED BY <3>1, <3>2 DEF LifeType
  <2>2. ASSUME NEW u \in Threads
        PROVE  /\ pc'[u] = "idle" => at'[u] = NoCall
               /\ pc'[u] \in Making => at'[u].heap \in Heaps \ (usable' \cup unlocked')
               /\ pc'[u] \in Attaching => at'[u].heap \in usable' /\ at'[u].cache \in Caches
               /\ pc'[u] \in {"admin_lock", "arena_lock"} => at'[u].index = 0
               /\ pc'[u] = "class_locks" => at'[u].index < ClassCount
    <3>1. CASE u = t
      BY <1>1, <1>4, <3>1 DEF StillInHand, LetGo
    <3>2. CASE u # t
      BY <1>3, <1>10, <3>2 DEF LifeInv, FrameInv
    <3> QED BY <3>1, <3>2
  <2>3. ASSUME NEW u \in Threads, NEW v \in Threads, u # v
        PROVE  /\ pc'[u] \in Making /\ pc'[v] \in Making => at'[u].heap # at'[v].heap
               /\ pc'[u] \in Attaching /\ pc'[v] \in Attaching => at'[u].cache # at'[v].cache
    <3>1. CASE u # t /\ v # t
      BY <1>3, <2>3, <3>1 DEF LifeInv, FrameInv
    <3>2. CASE u = t \/ v = t
      BY <1>2, <1>3, <1>4, <1>6, <2>3, <3>2
    <3> QED BY <3>1, <3>2
  <2> QED BY <2>1, <2>2, <2>3 DEF FrameInv
<1>14. LocksInv'
  <2>1. ASSUME NEW g \in usable' PROVE initialized_class_locks'[g] = SizeMax
    <3>1. g \in Heaps
      BY DEF LifeType
    <3> QED BY <1>10, <3>1 DEF LifeInv, LocksInv, StillInHand, LetGo
  <2>2. ASSUME NEW u \in Threads, pc'[u] \in Making
        PROVE  initialized_class_locks'[at'[u].heap] =
                   IF pc'[u] \in {"admin_lock", "arena_lock"} THEN 0 ELSE SizeMax
    <3>1. CASE u = t
      BY <1>4, <2>2, <3>1 DEF StillInHand, LetGo
    <3>2. CASE u # t
      BY <1>3, <1>10, <2>2, <3>2 DEF LifeInv, LocksInv
    <3> QED BY <3>1, <3>2
  <2> QED BY <2>1, <2>2 DEF LocksInv
<1>15. HeapHeld'
  <2>1. ASSUME NEW g \in usable' PROVE HeapResources(g) \subseteq held'
    <3>1. g \in Heaps
      BY DEF LifeType
    <3>2. CASE g = h
      BY <3>2 DEF StillInHand, LetGo
    <3>3. CASE g # h
      BY <1>10, <1>11, <3>1, <3>3 DEF LifeInv, HeapHeld
    <3> QED BY <3>2, <3>3
  <2>2. ASSUME NEW u \in Threads, pc'[u] \in Making
        PROVE  held' \cap HeapResources(at'[u].heap) =
                   Acquired(pc'[u], at'[u].heap, at'[u].index)
    <3>1. CASE u = t
      BY <1>4, <2>2, <3>1 DEF StillInHand, LetGo
    <3>2. CASE u # t
      BY <1>3, <1>11, <2>2, <3>2 DEF LifeInv, HeapHeld
    <3> QED BY <3>1, <3>2
  <2>3. ASSUME NEW g \in Heaps \ usable', ~ Made(g)'
        PROVE  held' \cap HeapResources(g) =
                   IF g \in unlocked' THEN {AdminLock(g), ArenaLock(g)} ELSE {}
    <3>1. CASE g = h
      BY <1>9, <2>3, <3>1 DEF StillInHand, LetGo
    <3>2. CASE g # h
      BY <1>8, <1>10, <1>11, <2>3, <3>2 DEF LifeInv, HeapHeld
    <3> QED BY <3>1, <3>2
  <2> QED BY <2>1, <2>2, <2>3 DEF HeapHeld
<1>16. \A c : Listed(c)' <=> Listed(c)
  BY <1>10 DEF Listed
<1>17. CacheHeld'
  <2>1. \A g \in Heaps : \A c \in Range(caches'[g]) : CacheResources(c) \subseteq held' /\ c \in Caches
    BY <1>10, <1>12, ListNotEmpty DEF LifeInv, CacheHeld, LifeType
  <2>2. ASSUME NEW u \in Threads, pc'[u] \in Attaching
        PROVE  /\ pc'[u] = "remote_lock" =>
                      held' \cap CacheResources(at'[u].cache) = {Memory(at'[u].cache)}
               /\ pc'[u] = "heap_list" => CacheResources(at'[u].cache) \subseteq held'
    <3>1. u # t /\ pc'[u] = pc[u] /\ at'[u] = at[u] /\ at[u].cache \in Caches
      BY <1>3, <1>6, <2>2 DEF LifeInv, FrameInv
    <3> QED BY <1>12, <2>2, <3>1 DEF LifeInv, CacheHeld
  <2>3. \A c \in Caches :
           ~ Listed(c)' /\ ~ Taken(c)' => held' \cap CacheResources(c) = {}
    BY <1>7, <1>12, <1>16 DEF LifeInv, CacheHeld
  <2> QED BY <1>4, <2>1, <2>2, <2>3 DEF CacheHeld
<1>18. HeldInv'
  <2>1. held' \subseteq held \cup HeapResources(h)
    BY <1>10
  <2>2. HeapResources(h) \subseteq UNION {HeapResources(g) : g \in Heaps}
    BY <1>1
  <2> QED BY <1>10, <2>1, <2>2 DEF LifeInv, HeldInv
<1>19. ListInv'
  <2>1. ASSUME NEW g \in Heaps, Range(caches'[g]) # {}
        PROVE  g \in usable' \/ \E u \in Threads : pc'[u] = "destroy" /\ at'[u].heap = g
    <3>1. CASE g = h
      BY <1>2, <1>4, <1>10, <2>1, <3>1
    <3>2. CASE g # h
      <4>1. g \in usable \/ \E u \in Threads : pc[u] = "destroy" /\ at[u].heap = g
        BY <1>10, <2>1 DEF LifeInv, ListInv
      <4>2. \A u \in Threads : pc[u] = "destroy" /\ at[u].heap = g => u # t
        BY <1>4, <3>2 DEF OnlyHeap
      <4> QED BY <1>3, <1>10, <3>2, <4>1, <4>2
    <3> QED BY <3>1, <3>2
  <2>2. \A g \in Heaps :
           /\ OnceEach(caches'[g])
           /\ \A c \in Range(caches'[g]) : cache_heap'[c] = g /\ ~ Taken(c)'
    BY <1>7, <1>10 DEF LifeInv, ListInv
  <2>3. ASSUME NEW g \in usable', exclusive_cache'[g] # NoCache
        PROVE  exclusive_cache'[g] \in Range(caches'[g])
    <3>1. g \in Heaps
      BY DEF LifeType
    <3>2. CASE g = h
      BY <2>3, <3>2 DEF StillInHand, LetGo
    <3>3. CASE g # h
      BY <1>10, <2>3, <3>1, <3>3 DEF LifeInv, ListInv
    <3> QED BY <3>2, <3>3
  <2>4. ASSUME NEW u \in Threads, pc'[u] \in Making \ {"destroy"}
        PROVE  exclusive_cache'[at'[u].heap] = NoCache
    <3>1. CASE u = t
      BY <1>4, <2>4, <3>1 DEF StillInHand, LetGo
    <3>2. CASE u # t
      BY <1>3, <1>10, <2>4, <3>2 DEF LifeInv, ListInv
    <3> QED BY <3>1, <3>2
  <2> QED BY <2>1, <2>2, <2>3, <2>4 DEF ListInv
<1>20. TlsInv'
  <2>1. \A u \in Threads : pc'[u] \in Attaching \/ pc[u] \in Attaching =>
            pc'[u] = pc[u] /\ at'[u] = at[u]
    BY <1>3, <1>5, <1>6
  <2>2. \A g \in usable : g \in usable'
    BY <1>1, <1>10 DEF LifeInv, LifeType
  <2>3. \A u \in Threads : \A c \in Range(tls_caches[u]) : cache_heap[c] \in usable
    BY DEF LifeInv, TlsInv, OwnList
  <2> QED BY <1>4, <1>10, <2>1, <2>2, <2>3 DEF LifeInv, TlsInv, OwnList
<1> QED BY <1>13, <1>14, <1>15, <1>17, <1>18, <1>19, <1>20 DEF LifeInv

\* What Acquired stands for at each label.
LEMMA AcquiredAt ==
    ASSUME NEW h, NEW i
    PROVE  /\ Acquired("admin_lock", h, i) = {Memory(h)}
           /\ Acquired("arena_lock", h, i) = {Memory(h), AdminLock(h)}
           /\ Acquired("class_locks", h, i) =
                  {Memory(h), AdminLock(h), ArenaLock(h)}
                  \cup {ClassLock(h, j) : j \in 0..(i - 1)}
           /\ Acquired("span_classes", h, i) = {Memory(h)} \cup AllLocks(h)
           /\ Acquired("reserve", h, i) = {Memory(h), SpanClasses(h)} \cup AllLocks(h)
           /\ Acquired("index", h, i) =
                  {Memory(h), SpanClasses(h), Arena(h)} \cup AllLocks(h)
           /\ Acquired("destroy", h, i) = HeapResources(h)
BY DEF Acquired

\* What a thread inside memx_heap_create or memx_heap_destroy may rely on.
LEMMA HandOf ==
    ASSUME LifeInv, NEW t \in Threads, pc[t] \in Making, NEW h, h = at[t].heap
    PROVE  /\ InHand(t, h)
           /\ h \in Heaps /\ h \notin usable /\ h \notin unlocked
           /\ pc[t] # "destroy" => Range(caches[h]) = {} /\ exclusive_cache[h] = NoCache
           /\ held \cap HeapResources(h) = Acquired(pc[t], h, at[t].index)
           /\ initialized_class_locks[h] =
                  IF pc[t] \in {"admin_lock", "arena_lock"} THEN 0 ELSE SizeMax
           /\ at[t] \in Frames
<1>1. h \in Heaps /\ h \notin usable /\ h \notin unlocked
  BY DEF LifeInv, FrameInv
<1>2. \A u \in Threads \ {t} : pc[u] \in Making => at[u].heap # h
  BY DEF LifeInv, FrameInv
<1>3. ASSUME pc[t] # "destroy"
      PROVE  Range(caches[h]) = {} /\ exclusive_cache[h] = NoCache
  <2>1. ~ \E u \in Threads : pc[u] = "destroy" /\ at[u].heap = h
    BY <1>2, <1>3 DEF Making
  <2> QED BY <1>1, <1>3, <2>1 DEF LifeInv, ListInv
<1> QED BY <1>1, <1>2, <1>3 DEF InHand, LifeInv, HeapHeld, LocksInv, LifeType

\* A thread moves on in its call, and what becomes of initialized_class_locks.
Advance(t, label, i) ==
    /\ pc' = [pc EXCEPT ![t] = label]
    /\ at' = [at EXCEPT ![t] = [@ EXCEPT !.index = i]]

Counts(h, n) == initialized_class_locks' = [initialized_class_locks EXCEPT ![h] = n]

\* Taking one more resource of the heap and moving on.
LEMMA AcquireStep ==
    ASSUME LifeInv, NEW t \in Threads, pc[t] \in Making, NEW h, h = at[t].heap,
           NEW r \in HeapResources(h), Acquire(r),
           NEW label \in Making \ {"admin_lock", "destroy"}, NEW i \in Nat,
           Advance(t, label, i),
           label = "class_locks" => i < ClassCount,
           label = "arena_lock" => i = 0,
           pc[t] # "destroy",
           Counts(h, IF label = "arena_lock" THEN 0 ELSE SizeMax),
           Acquired(pc[t], h, at[t].index) \cup {r} = Acquired(label, h, i),
           UNCHANGED <<unlocked, usable, cacheVars, tlsVars>>
    PROVE  LifeInv'
<1>1. /\ InHand(t, h)
      /\ h \in Heaps /\ h \notin usable /\ h \notin unlocked
      /\ Range(caches[h]) = {} /\ exclusive_cache[h] = NoCache
      /\ held \cap HeapResources(h) = Acquired(pc[t], h, at[t].index)
      /\ at[t] \in Frames
  BY HandOf
<1>2. /\ \A u \in Threads \ {t} : pc'[u] = pc[u] /\ at'[u] = at[u]
      /\ pc'[t] = label
      /\ at'[t] \in Frames /\ at'[t].heap = h /\ at'[t].index = i
      /\ pc' \in [Threads -> Labels] /\ at' \in [Threads -> Frames]
  <2>1. label \in Labels /\ pc \in [Threads -> Labels] /\ at \in [Threads -> Frames]
    BY DEF Labels, LifeInv, LifeType
  <2>2. PICK frame : frame = [at[t] EXCEPT !.index = i]
    OBVIOUS
  <2>3. frame \in Frames /\ frame.heap = h /\ frame.index = i
    BY <1>1, <2>2 DEF Frames
  <2>4. at' = [at EXCEPT ![t] = frame] /\ pc' = [pc EXCEPT ![t] = label]
    BY <2>1, <2>2 DEF Advance
  <2> QED BY <2>1, <2>3, <2>4
<1>3. held' = held \cup {r} /\ misuse' = misuse
  BY DEF Acquire
<1>4. LifeType'
  <2>1. (IF label = "arena_lock" THEN 0 ELSE SizeMax) \in 0..SizeMax
    BY LifeAssumption DEF SizeMax
  <2> QED BY <1>1, <1>2, <2>1 DEF Counts, LifeInv, LifeType, cacheVars, tlsVars
<1>5. OnlyHeap(t, h)
  BY <1>2, <1>3 DEF Counts, OnlyHeap, cacheVars, tlsVars, LifeInv, LifeType
<1>6. StillInHand(t, h)
  <2>1. held' \cap HeapResources(h) = Acquired(label, h, i)
    BY <1>1, <1>3
  <2>2. initialized_class_locks'[h] = IF label = "arena_lock" THEN 0 ELSE SizeMax
    BY <1>1 DEF Counts, LifeInv, LifeType
  <2> QED BY <1>1, <1>2, <2>1, <2>2 DEF StillInHand, cacheVars
<1> QED BY <1>1, <1>4, <1>5, <1>6, HeapStep

\* Giving resources of the heap back and returning.
LEMMA ReleaseStep ==
    ASSUME LifeInv, NEW t \in Threads, pc[t] \in Making, NEW h, h = at[t].heap,
           NEW rs, Release(rs), rs \subseteq Acquired(pc[t], h, at[t].index),
           Return(t),
           pc[t] = "destroy" => caches[h] = << >>,
           NEW n \in 0..SizeMax, Counts(h, n),
           NEW left \in BOOLEAN,
           unlocked' = unlocked \cup (IF left THEN {h} ELSE {}),
           Acquired(pc[t], h, at[t].index) \ rs =
               IF left THEN {AdminLock(h), ArenaLock(h)} ELSE {},
           UNCHANGED <<usable, cacheVars, tlsVars>>
    PROVE  LifeInv'
<1>1. /\ InHand(t, h)
      /\ h \in Heaps /\ h \notin usable /\ h \notin unlocked
      /\ pc[t] # "destroy" => Range(caches[h]) = {}
      /\ held \cap HeapResources(h) = Acquired(pc[t], h, at[t].index)
  BY HandOf
<1>2. /\ \A u \in Threads \ {t} : pc'[u] = pc[u] /\ at'[u] = at[u]
      /\ pc'[t] = "idle" /\ at'[t] = NoCall
      /\ pc' \in [Threads -> Labels] /\ at' \in [Threads -> Frames]
  <2>1. "idle" \in Labels /\ pc \in [Threads -> Labels] /\ at \in [Threads -> Frames]
    BY DEF Labels, LifeInv, LifeType
  <2>2. NoCall \in Frames
    BY DEF NoCall, Frames
  <2> QED BY <2>1, <2>2 DEF Return
<1>3. rs \subseteq held /\ rs \subseteq HeapResources(h)
  BY <1>1
<1>4. held' = held \ rs /\ misuse' = misuse
  BY <1>3 DEF Release
<1>5. LifeType'
  BY <1>1, <1>2 DEF Counts, LifeInv, LifeType, cacheVars, tlsVars
<1>6. OnlyHeap(t, h)
  BY <1>2, <1>3, <1>4 DEF Counts, OnlyHeap, cacheVars, tlsVars, LifeInv, LifeType
<1>7. held' \cap HeapResources(h) = IF left THEN {AdminLock(h), ArenaLock(h)} ELSE {}
  BY <1>1, <1>4
<1>8. h \in unlocked' <=> left
  BY <1>1
<1>9. LetGo(t, h)
  BY <1>1, <1>2, <1>7, <1>8 DEF LetGo
<1>10. Range(caches[h]) = {}
  BY <1>1, EmptyList
<1> QED BY <1>1, <1>5, <1>6, <1>9, <1>10, HeapStep

-----------------------------------------------------------------------------
(***************************************************************************)
(* memx_heap_create.                                                        *)
(***************************************************************************)
\* A step that stays in the call leaves the frame as it is.
LEMMA FrameUnchanged ==
    ASSUME LifeInv, NEW t \in Threads, NEW label, Goto(t, label)
    PROVE  /\ at[t].index \in Nat
           /\ Advance(t, label, at[t].index)
<1>1. at \in [Threads -> Frames] /\ at[t] \in Frames
  BY DEF LifeInv, LifeType
<1>2. [at[t] EXCEPT !.index = at[t].index] = at[t] /\ at[t].index \in Nat
  BY <1>1 DEF Frames
<1> QED BY <1>1, <1>2 DEF Advance, Goto

\* Locks an earlier heap left at the address are overwritten, nothing else is.
LEMMA CreateHeapInv ==
    ASSUME LifeInv, NEW t \in Threads, NEW h \in Heaps, CreateHeap(t, h)
    PROVE  LifeInv'
<1>1. /\ pc[t] = "idle" /\ Memory(h) \notin held
      /\ held' = (held \ AllLocks(h)) \cup {Memory(h)}
      /\ unlocked' = unlocked \ {h}
      /\ initialized_class_locks' = [initialized_class_locks EXCEPT ![h] = 0]
      /\ caches' = [caches EXCEPT ![h] = <<>>]
      /\ exclusive_cache' = [exclusive_cache EXCEPT ![h] = NoCache]
      /\ pc' = [pc EXCEPT ![t] = "admin_lock"]
      /\ misuse' = misuse /\ usable' = usable /\ cache_heap' = cache_heap
      /\ tls_caches' = tls_caches /\ tls_last_cache' = tls_last_cache
  BY DEF CreateHeap, tlsVars
<1>2. PICK frame : frame = [NoCall EXCEPT !.heap = h]
  OBVIOUS
<1>3. at' = [at EXCEPT ![t] = frame] /\ frame \in Frames /\ frame.heap = h /\ frame.index = 0
  BY <1>2 DEF CreateHeap, NoCall, Frames
<1>4. /\ pc \in [Threads -> Labels] /\ at \in [Threads -> Frames] /\ "admin_lock" \in Labels
      /\ initialized_class_locks \in [Heaps -> 0..SizeMax] /\ 0 \in 0..SizeMax
      /\ caches \in [Heaps -> Seq(Caches)]
      /\ exclusive_cache \in [Heaps -> Caches \cup {NoCache}]
  BY LifeAssumption DEF LifeInv, LifeType, Labels, Making, SizeMax
<1>5. Memory(h) \in HeapResources(h)
  BY DEF HeapResources
<1>6. h \notin usable
  BY <1>1, <1>5 DEF LifeInv, HeapHeld
<1>7. ASSUME NEW u \in Threads, pc[u] \in Making PROVE at[u].heap # h
  <2>1. Memory(h) \in Acquired(pc[u], h, at[u].index)
    BY <1>5, <1>7, AcquiredAt DEF Making
  <2> QED BY <1>1, <1>5, <1>7, <2>1 DEF LifeInv, HeapHeld
<1>8. ~ Made(h)
  BY <1>7 DEF Made
<1>9. Range(caches[h]) = {}
  BY <1>6, <1>7 DEF LifeInv, ListInv, Making
<1>10. caches[h] = << >>
  BY <1>4, <1>9, ListNotEmpty
<1>11. caches' = caches
  BY <1>1, <1>4, <1>10
<1>12. InHand(t, h)
  BY <1>6, <1>7 DEF InHand
<1>13. held \cap HeapResources(h) \subseteq AllLocks(h)
  <2>1. {AdminLock(h), ArenaLock(h)} \subseteq AllLocks(h)
    BY DEF AllLocks
  <2> QED BY <1>6, <1>8, <2>1 DEF LifeInv, HeapHeld
<1>14. held' \cap HeapResources(h) = {Memory(h)}
  BY <1>1, <1>5, <1>13
<1>15. AllLocks(h) \subseteq HeapResources(h)
  BY DEF HeapResources
<1>16. OnlyHeap(t, h)
  BY <1>1, <1>3, <1>4, <1>5, <1>11, <1>15 DEF OnlyHeap
<1>17. StillInHand(t, h)
  <2>1. pc'[t] = "admin_lock" /\ at'[t].heap = h /\ at'[t].index = 0
    BY <1>1, <1>3, <1>4
  <2>2. "admin_lock" \in Making /\ h \notin usable' \cup unlocked'
    BY <1>1, <1>6 DEF Making
  <2>3. initialized_class_locks'[h] = 0 /\ exclusive_cache'[h] = NoCache
    BY <1>1, <1>4
  <2>4. held' \cap HeapResources(h) = Acquired("admin_lock", h, 0)
    BY <1>14, AcquiredAt
  <2> QED BY <2>1, <2>2, <2>3, <2>4 DEF StillInHand
<1>18. LifeType'
  <2>1. << >> \in Seq(Caches)
    BY EmptyList
  <2> QED BY <1>1, <1>3, <1>4, <2>1 DEF LifeInv, LifeType
<1> QED BY <1>9, <1>12, <1>16, <1>17, <1>18, HeapStep

\* The first two locks; memx_heap_destroy_locks counts on all class locks from
\* then on.
LEMMA InitFirstLocksInv ==
    ASSUME LifeInv, NEW t \in Threads, InitAdminLock(t) \/ InitArenaLock(t)
    PROVE  LifeInv'
<1>1. PICK h : h = at[t].heap
  OBVIOUS
<1>2. pc[t] \in {"admin_lock", "arena_lock"} /\ pc[t] \in Making /\ pc[t] # "destroy"
      /\ UNCHANGED <<unlocked, usable, cacheVars, tlsVars>>
  BY DEF InitAdminLock, InitArenaLock, Making, heapVars
<1>3. at[t].index = 0 /\ 0 < ClassCount
  BY <1>2, LifeAssumption DEF LifeInv, FrameInv
<1>4. h \in Heaps /\ initialized_class_locks[h] = 0
  BY <1>1, <1>2, HandOf
<1>5. CASE InitAdminLock(t)
  <2>1. PICK label : label = "arena_lock"
    OBVIOUS
  <2>2. pc[t] = "admin_lock" /\ Acquire(AdminLock(h)) /\ Goto(t, label)
        /\ UNCHANGED initialized_class_locks
    BY <1>1, <1>5, <2>1 DEF InitAdminLock, heapVars
  <2>3. Counts(h, IF label = "arena_lock" THEN 0 ELSE SizeMax)
    BY <1>4, <2>1, <2>2 DEF Counts, LifeInv, LifeType
  <2>4. Advance(t, label, 0)
    BY <1>3, <2>2, FrameUnchanged
  <2>5. AdminLock(h) \in HeapResources(h)
    BY DEF HeapResources, AllLocks
  <2>6. Acquired(pc[t], h, at[t].index) \cup {AdminLock(h)} = Acquired(label, h, 0)
    BY <2>1, <2>2, AcquiredAt
  <2>7. label \in Making \ {"admin_lock", "destroy"} /\ label # "class_locks"
    BY <2>1 DEF Making
  <2> QED BY <1>1, <1>2, <2>2, <2>3, <2>4, <2>5, <2>6, <2>7, AcquireStep
<1>6. CASE InitArenaLock(t)
  <2>1. PICK label : label = "class_locks"
    OBVIOUS
  <2>2. pc[t] = "arena_lock" /\ Acquire(ArenaLock(h)) /\ Goto(t, label)
        /\ Counts(h, IF label = "arena_lock" THEN 0 ELSE SizeMax)
    BY <1>1, <1>6, <2>1 DEF InitArenaLock, Counts
  <2>3. Advance(t, label, 0)
    BY <1>3, <2>2, FrameUnchanged
  <2>4. ArenaLock(h) \in HeapResources(h)
    BY DEF HeapResources, AllLocks
  <2>5. Acquired(pc[t], h, at[t].index) \cup {ArenaLock(h)} = Acquired(label, h, 0)
    <3>1. {ClassLock(h, j) : j \in 0..(0 - 1)} = {}
      OBVIOUS
    <3> QED BY <2>1, <2>2, <3>1, AcquiredAt
  <2>6. label \in Making \ {"admin_lock", "destroy"} /\ label # "arena_lock"
    BY <2>1 DEF Making
  <2> QED BY <1>1, <1>2, <1>3, <2>2, <2>3, <2>4, <2>5, <2>6, AcquireStep
<1> QED BY <1>5, <1>6

\* One turn of the loop over the class locks.
LEMMA InitClassLockInv ==
    ASSUME LifeInv, NEW t \in Threads, InitClassLock(t)
    PROVE  LifeInv'
<1>1. PICK h : h = at[t].heap
  OBVIOUS
<1>2. PICK k : k = at[t].index
  OBVIOUS
<1>3. PICK label : label = IF k + 1 = ClassCount THEN "span_classes" ELSE "class_locks"
  OBVIOUS
<1>4. /\ pc[t] = "class_locks" /\ pc[t] \in Making /\ pc[t] # "destroy"
      /\ Advance(t, label, k + 1)
      /\ UNCHANGED initialized_class_locks
      /\ Acquire(ClassLock(h, k))
      /\ UNCHANGED <<unlocked, usable, cacheVars, tlsVars>>
  BY <1>1, <1>2, <1>3 DEF InitClassLock, Making, heapVars, Advance
<1>5. k \in Nat /\ k + 1 \in Nat /\ k < ClassCount /\ ClassCount \in Nat
  BY <1>2, <1>4, LifeAssumption DEF LifeInv, FrameInv, LifeType, Frames
<1>6. h \in Heaps /\ initialized_class_locks[h] = SizeMax
  BY <1>1, <1>4, HandOf
<1>7. Counts(h, IF label = "arena_lock" THEN 0 ELSE SizeMax)
  BY <1>3, <1>4, <1>6 DEF Counts, LifeInv, LifeType
<1>8. ClassLock(h, k) \in HeapResources(h)
  BY <1>5 DEF HeapResources, AllLocks
<1>9. 0..((k + 1) - 1) = 0..(k - 1) \cup {k}
  BY <1>5
<1>10. Acquired(pc[t], h, k) \cup {ClassLock(h, k)} =
           {Memory(h), AdminLock(h), ArenaLock(h)}
           \cup {ClassLock(h, j) : j \in 0..((k + 1) - 1)}
  BY <1>4, <1>9, AcquiredAt
<1>11. Acquired(pc[t], h, at[t].index) \cup {ClassLock(h, k)} = Acquired(label, h, k + 1)
  <2>1. CASE k + 1 = ClassCount
    <3>1. {Memory(h), AdminLock(h), ArenaLock(h)}
           \cup {ClassLock(h, j) : j \in 0..((k + 1) - 1)} = {Memory(h)} \cup AllLocks(h)
      BY <2>1 DEF AllLocks
    <3> QED BY <1>2, <1>3, <1>10, <2>1, <3>1, AcquiredAt
  <2>2. CASE k + 1 # ClassCount
    BY <1>2, <1>3, <1>10, <2>2, AcquiredAt
  <2> QED BY <2>1, <2>2
<1>12. /\ label \in Making \ {"admin_lock", "destroy"} /\ label # "arena_lock"
       /\ label = "class_locks" => k + 1 < ClassCount
  BY <1>3, <1>5 DEF Making
<1>13. PICK i \in Nat : i = k + 1
  BY <1>5
<1> QED BY <1>1, <1>4, <1>7, <1>8, <1>11, <1>12, <1>13, AcquireStep

\* The table of span classes, and the arena.
LEMMA AcquireMoreInv ==
    ASSUME LifeInv, NEW t \in Threads, CallocSpanClasses(t) \/ ReserveArena(t)
    PROVE  LifeInv'
<1>1. PICK h : h = at[t].heap
  OBVIOUS
<1>2. pc[t] \in {"span_classes", "reserve"} /\ pc[t] \in Making /\ pc[t] # "destroy"
      /\ UNCHANGED initialized_class_locks
      /\ UNCHANGED <<unlocked, usable, cacheVars, tlsVars>>
  BY DEF CallocSpanClasses, ReserveArena, Making, heapVars
<1>3. h \in Heaps /\ initialized_class_locks[h] = SizeMax
  BY <1>1, <1>2, HandOf
<1>4. Counts(h, SizeMax)
  BY <1>2, <1>3 DEF Counts, LifeInv, LifeType
<1>5. PICK r, label : /\ Acquire(r) /\ Goto(t, label)
                      /\ r \in HeapResources(h)
                      /\ Acquired(pc[t], h, at[t].index) \cup {r} =
                             Acquired(label, h, at[t].index)
                      /\ label \in {"reserve", "index"}
  <2>1. CASE CallocSpanClasses(t)
    <3>1. pc[t] = "span_classes" /\ Acquire(SpanClasses(h)) /\ Goto(t, "reserve")
      BY <1>1, <2>1 DEF CallocSpanClasses
    <3>2. SpanClasses(h) \in HeapResources(h)
      BY DEF HeapResources
    <3>3. Acquired("span_classes", h, at[t].index) \cup {SpanClasses(h)} =
              Acquired("reserve", h, at[t].index)
      BY AcquiredAt
    <3> QED BY <3>1, <3>2, <3>3
  <2>2. CASE ReserveArena(t)
    <3>1. pc[t] = "reserve" /\ Acquire(Arena(h)) /\ Goto(t, "index")
      BY <1>1, <2>2 DEF ReserveArena
    <3>2. Arena(h) \in HeapResources(h)
      BY DEF HeapResources
    <3>3. Acquired("reserve", h, at[t].index) \cup {Arena(h)} =
              Acquired("index", h, at[t].index)
      BY AcquiredAt
    <3> QED BY <3>1, <3>2, <3>3
  <2> QED BY <2>1, <2>2
<1>6. PICK i \in Nat : i = at[t].index /\ Advance(t, label, i)
  BY <1>5, FrameUnchanged
<1>7. /\ label \in Making \ {"admin_lock", "destroy"}
      /\ label # "arena_lock" /\ label # "class_locks"
  BY <1>5 DEF Making
<1> QED BY <1>1, <1>2, <1>4, <1>5, <1>6, <1>7, AcquireStep

\* The index is the last resource, and the heap goes to the caller.
LEMMA PublishHeapInv ==
    ASSUME LifeInv, NEW t \in Threads, PublishHeap(t)
    PROVE  LifeInv'
<1>1. PICK h : h = at[t].heap
  OBVIOUS
<1>2. /\ pc[t] = "index" /\ pc[t] \in Making
      /\ held' = held \cup {Index(h)} /\ misuse' = misuse
      /\ usable' = usable \cup {h}
      /\ pc' = [pc EXCEPT ![t] = "idle"] /\ at' = [at EXCEPT ![t] = NoCall]
      /\ UNCHANGED <<initialized_class_locks, unlocked, cacheVars, tlsVars>>
  BY <1>1 DEF PublishHeap, Acquire, Return, Making
<1>3. /\ InHand(t, h)
      /\ h \in Heaps /\ h \notin usable /\ h \notin unlocked
      /\ Range(caches[h]) = {} /\ exclusive_cache[h] = NoCache
      /\ held \cap HeapResources(h) = Acquired(pc[t], h, at[t].index)
      /\ initialized_class_locks[h] = SizeMax
  BY <1>1, <1>2, HandOf
<1>4. /\ pc \in [Threads -> Labels] /\ at \in [Threads -> Frames]
      /\ "idle" \in Labels /\ NoCall \in Frames
  BY DEF LifeInv, LifeType, Labels, NoCall, Frames
<1>5. HeapResources(h) \subseteq held' /\ Index(h) \in HeapResources(h)
  <2>1. HeapResources(h) = Acquired("index", h, at[t].index) \cup {Index(h)}
    BY AcquiredAt DEF HeapResources
  <2> QED BY <1>2, <1>3, <2>1
<1>6. LifeType'
  BY <1>2, <1>3, <1>4 DEF LifeInv, LifeType, cacheVars, tlsVars
<1>7. OnlyHeap(t, h)
  BY <1>1, <1>2, <1>4, <1>5 DEF OnlyHeap, cacheVars, tlsVars
<1>8. LetGo(t, h)
  BY <1>2, <1>3, <1>4, <1>5 DEF LetGo, cacheVars
<1> QED BY <1>3, <1>6, <1>7, <1>8, HeapStep

\* What memx_heap_destroy_locks destroys.
LEMMA DestroyedLocks ==
    ASSUME NEW h
    PROVE  /\ memx_heap_destroy_locks(h, 0) = {}
           /\ memx_heap_destroy_locks(h, SizeMax) = AllLocks(h)
           /\ \A i \in Nat : 0 < i /\ i < ClassCount =>
                  memx_heap_destroy_locks(h, i) =
                      {AdminLock(h), ArenaLock(h)} \cup {ClassLock(h, j) : j \in 0..(i - 1)}
<1>1. ClassCount \in Nat /\ SizeMax \in Nat /\ SizeMax # 0
      /\ \A i \in Nat : i < ClassCount => i # SizeMax
  BY LifeAssumption DEF SizeMax
<1>2. {j \in 0..(ClassCount - 1) : j < ClassCount} = 0..(ClassCount - 1)
  BY <1>1
<1>3. \A i \in Nat : i < ClassCount => {j \in 0..(ClassCount - 1) : j < i} = 0..(i - 1)
  BY <1>1
<1>4. memx_heap_destroy_locks(h, SizeMax) = AllLocks(h)
  BY <1>1, <1>2 DEF memx_heap_destroy_locks, AllLocks
<1>5. ASSUME NEW i \in Nat, 0 < i, i < ClassCount
      PROVE  memx_heap_destroy_locks(h, i) =
                 {AdminLock(h), ArenaLock(h)} \cup {ClassLock(h, j) : j \in 0..(i - 1)}
  BY <1>1, <1>3, <1>5 DEF memx_heap_destroy_locks
<1> QED BY <1>4, <1>5 DEF memx_heap_destroy_locks

\* The error returns before the class locks give everything back.
LEMMA InitFirstLocksFailInv ==
    ASSUME LifeInv, NEW t \in Threads, InitAdminLockFails(t) \/ InitArenaLockFails(t)
    PROVE  LifeInv'
<1>1. PICK h : h = at[t].heap
  OBVIOUS
<1>2. /\ pc[t] \in {"admin_lock", "arena_lock"} /\ pc[t] \in Making /\ pc[t] # "destroy"
      /\ Return(t)
      /\ UNCHANGED <<initialized_class_locks, unlocked>>
      /\ UNCHANGED <<usable, cacheVars, tlsVars>>
  BY DEF InitAdminLockFails, InitArenaLockFails, Making, heapVars
<1>3. h \in Heaps /\ initialized_class_locks[h] = 0
  BY <1>1, <1>2, HandOf
<1>4. DestroyLocks(h) = {}
  BY <1>3, DestroyedLocks DEF DestroyLocks
<1>5. PICK rs : Release(rs) /\ rs = Acquired(pc[t], h, at[t].index)
  <2>1. CASE InitAdminLockFails(t)
    <3>1. pc[t] = "admin_lock" /\ Release(DestroyLocks(h) \cup {Memory(h)})
      BY <1>1, <2>1 DEF InitAdminLockFails
    <3>2. DestroyLocks(h) \cup {Memory(h)} = Acquired("admin_lock", h, at[t].index)
      BY <1>4, AcquiredAt
    <3> QED BY <3>1, <3>2
  <2>2. CASE InitArenaLockFails(t)
    <3>1. pc[t] = "arena_lock" /\ Release({AdminLock(h), Memory(h)} \cup DestroyLocks(h))
      BY <1>1, <2>2 DEF InitArenaLockFails
    <3>2. {AdminLock(h), Memory(h)} \cup DestroyLocks(h) = Acquired("arena_lock", h, at[t].index)
      BY <1>4, AcquiredAt
    <3> QED BY <3>1, <3>2
  <2> QED BY <2>1, <2>2
<1>6. Counts(h, 0) /\ 0 \in 0..SizeMax
  BY <1>2, <1>3, LifeAssumption DEF Counts, LifeInv, LifeType, SizeMax
<1>7. PICK left \in BOOLEAN : left = FALSE
  OBVIOUS
<1>8. /\ unlocked' = unlocked \cup (IF left THEN {h} ELSE {})
      /\ Acquired(pc[t], h, at[t].index) \ rs =
             IF left THEN {AdminLock(h), ArenaLock(h)} ELSE {}
      /\ rs \subseteq Acquired(pc[t], h, at[t].index)
  BY <1>2, <1>5, <1>7
<1> QED BY <1>1, <1>2, <1>5, <1>6, <1>8, ReleaseStep

\* A class lock that fails: its index tells how many there are to destroy, and
\* 0 keeps the first two locks.
LEMMA InitClassLockFailsInv ==
    ASSUME LifeInv, NEW t \in Threads, InitClassLockFails(t)
    PROVE  LifeInv'
<1>1. PICK h : h = at[t].heap
  OBVIOUS
<1>2. PICK i : i = at[t].index
  OBVIOUS
<1>3. /\ pc[t] = "class_locks" /\ pc[t] \in Making /\ pc[t] # "destroy"
      /\ Return(t)
      /\ Counts(h, i)
      /\ Release({Memory(h)} \cup memx_heap_destroy_locks(h, i))
      /\ unlocked' = unlocked \cup (IF i = 0 THEN {h} ELSE {})
      /\ UNCHANGED <<usable, cacheVars, tlsVars>>
  BY <1>1, <1>2 DEF InitClassLockFails, Making, Counts
<1>4. i \in Nat /\ i < ClassCount /\ i \in 0..SizeMax
  BY <1>2, <1>3, LifeAssumption DEF LifeInv, FrameInv, LifeType, Frames, SizeMax
<1>5. PICK rs : rs = {Memory(h)} \cup memx_heap_destroy_locks(h, i)
  OBVIOUS
<1>6. Acquired(pc[t], h, i) = {Memory(h), AdminLock(h), ArenaLock(h)}
                              \cup {ClassLock(h, j) : j \in 0..(i - 1)}
  BY <1>3, AcquiredAt
<1>7. /\ rs \subseteq Acquired(pc[t], h, i)
      /\ Acquired(pc[t], h, i) \ rs = IF i = 0 THEN {AdminLock(h), ArenaLock(h)} ELSE {}
  <2>1. CASE i = 0
    <3>1. {ClassLock(h, j) : j \in 0..(0 - 1)} = {}
      OBVIOUS
    <3>2. rs = {Memory(h)}
      BY <1>5, <2>1, DestroyedLocks
    <3> QED BY <1>6, <2>1, <3>1, <3>2, HeapResourcesDiffer
  <2>2. CASE i # 0
    BY <1>4, <1>5, <1>6, <2>2, DestroyedLocks
  <2> QED BY <2>1, <2>2
<1>8. PICK left \in BOOLEAN : left <=> i = 0
  OBVIOUS
<1>9. /\ unlocked' = unlocked \cup (IF left THEN {h} ELSE {})
      /\ Acquired(pc[t], h, at[t].index) \ rs =
             IF left THEN {AdminLock(h), ArenaLock(h)} ELSE {}
      /\ rs \subseteq Acquired(pc[t], h, at[t].index)
      /\ Release(rs)
  BY <1>2, <1>3, <1>5, <1>7, <1>8
<1> QED BY <1>1, <1>3, <1>4, <1>9, ReleaseStep

\* The later error returns, and the end of memx_heap_destroy.
LEMMA UnwindInv ==
    ASSUME LifeInv, NEW t \in Threads, CreateFails(t) \/ DestroyHeap(t)
    PROVE  LifeInv'
<1>1. PICK h : h = at[t].heap
  OBVIOUS
<1>2. /\ pc[t] \in {"span_classes", "reserve", "index", "destroy"} /\ pc[t] \in Making
      /\ Return(t)
      /\ Counts(h, 0)
      /\ pc[t] = "destroy" => caches[h] = << >>
      /\ UNCHANGED unlocked
      /\ UNCHANGED <<usable, cacheVars, tlsVars>>
  BY <1>1 DEF CreateFails, DestroyHeap, Making, Counts
<1>3. h \in Heaps /\ initialized_class_locks[h] = SizeMax
  BY <1>1, <1>2, HandOf
<1>4. DestroyLocks(h) = AllLocks(h)
  BY <1>3, DestroyedLocks DEF DestroyLocks
<1>5. PICK rs : Release(rs) /\ rs = Acquired(pc[t], h, at[t].index)
  <2>1. CASE CreateFails(t)
    <3>1. pc[t] \in {"span_classes", "reserve", "index"}
          /\ Release(Unwound(pc[t], h) \cup DestroyLocks(h) \cup {Memory(h)})
      BY <1>1, <2>1 DEF CreateFails
    <3>2. Unwound(pc[t], h) \cup DestroyLocks(h) \cup {Memory(h)} =
              Acquired(pc[t], h, at[t].index)
      <4>1. CASE pc[t] = "span_classes"
        BY <1>4, <4>1, AcquiredAt DEF Unwound
      <4>2. CASE pc[t] = "reserve"
        BY <1>4, <4>2, AcquiredAt DEF Unwound
      <4>3. CASE pc[t] = "index"
        BY <1>4, <4>3, AcquiredAt DEF Unwound
      <4> QED BY <3>1, <4>1, <4>2, <4>3
    <3> QED BY <3>1, <3>2
  <2>2. CASE DestroyHeap(t)
    <3>1. pc[t] = "destroy"
          /\ Release({Index(h), Arena(h), SpanClasses(h), Memory(h)} \cup DestroyLocks(h))
      BY <1>1, <2>2 DEF DestroyHeap
    <3>2. {Index(h), Arena(h), SpanClasses(h), Memory(h)} \cup DestroyLocks(h) =
              Acquired("destroy", h, at[t].index)
      BY <1>4, AcquiredAt DEF HeapResources
    <3> QED BY <3>1, <3>2
  <2> QED BY <2>1, <2>2
<1>6. PICK left \in BOOLEAN : left = FALSE
  OBVIOUS
<1>7. 0 \in 0..SizeMax
  BY LifeAssumption DEF SizeMax
<1>8. /\ unlocked' = unlocked \cup (IF left THEN {h} ELSE {})
      /\ Acquired(pc[t], h, at[t].index) \ rs =
             IF left THEN {AdminLock(h), ArenaLock(h)} ELSE {}
      /\ rs \subseteq Acquired(pc[t], h, at[t].index)
  BY <1>2, <1>5, <1>6
<1> QED BY <1>1, <1>2, <1>5, <1>7, <1>8, ReleaseStep

-----------------------------------------------------------------------------
(***************************************************************************)
(* Steps on a cache that one thread has in hand.                            *)
(***************************************************************************)
\* The cache is in no heap's list, and no other thread knows of it.
Alone(t, c) ==
    /\ c \in Caches
    /\ ~ Listed(c)
    /\ \A u \in Threads \ {t} :
           /\ c \notin Range(tls_caches[u])
           /\ pc[u] \in Attaching => at[u].cache # c

\* calloc gives a thread a cache nobody knows of.
LEMMA FreshCache ==
    ASSUME LifeInv, NEW t \in Threads, NEW c \in Caches, Memory(c) \notin held
    PROVE  Alone(t, c) /\ c \notin Range(tls_caches[t]) /\ ~ Taken(c)
<1>1. Memory(c) \in CacheResources(c)
  BY DEF CacheResources
<1>2. ~ Listed(c)
  BY <1>1 DEF Listed, LifeInv, CacheHeld
<1>3. \A u \in Threads : pc[u] \in Attaching => at[u].cache # c
  <2> SUFFICES ASSUME NEW u \in Threads, pc[u] \in Attaching, at[u].cache = c PROVE FALSE
    OBVIOUS
  <2>1. pc[u] = "remote_lock" \/ pc[u] = "heap_list"
    BY DEF Attaching
  <2> QED BY <1>1, <2>1 DEF LifeInv, CacheHeld
<1>4. \A u \in Threads : c \notin Range(tls_caches[u])
  BY <1>2, <1>3 DEF LifeInv, LifeType, TlsInv, OwnList, Listed, Attaching
<1> QED BY <1>2, <1>3, <1>4 DEF Alone, Taken

\* A thread that attaches a cache is alone with it.
LEMMA AttachedAlone ==
    ASSUME LifeInv, NEW t \in Threads, pc[t] \in Attaching, NEW c, c = at[t].cache
    PROVE  /\ Alone(t, c)
           /\ at[t].heap \in usable /\ at[t].heap \in Heaps
           /\ pc[t] = "remote_lock" =>
                  c \notin Range(tls_caches[t]) /\ held \cap CacheResources(c) = {Memory(c)}
           /\ pc[t] = "heap_list" =>
                  CacheResources(c) \subseteq held /\ cache_heap[c] = at[t].heap
<1>1. c \in Caches /\ at[t].heap \in usable /\ at[t].heap \in Heaps
  BY DEF LifeInv, FrameInv, LifeType
<1>2. ~ Listed(c)
  BY DEF LifeInv, ListInv, Listed, Taken
<1>3. \A u \in Threads \ {t} : pc[u] \in Attaching => at[u].cache # c
  BY DEF LifeInv, FrameInv
<1>4. \A u \in Threads : c \in Range(tls_caches[u]) => pc[u] = "heap_list" /\ at[u].cache = c
  <2> SUFFICES ASSUME NEW u \in Threads, c \in Range(tls_caches[u])
               PROVE  pc[u] = "heap_list" /\ at[u].cache = c
    OBVIOUS
  <2>1. OwnList(u)
    BY DEF LifeInv, TlsInv
  <2>2. cache_heap[c] \in Heaps
    BY <2>1 DEF OwnList, LifeInv, LifeType
  <2> QED BY <1>2, <2>1, <2>2 DEF OwnList, Listed
<1> QED BY <1>1, <1>2, <1>3, <1>4 DEF Alone, LifeInv, CacheHeld, TlsInv, OwnList, Attaching

\* A step of memx_heap_create_cache by t touches only the cache at c.
OnlyCache(t, c) ==
    /\ \A u \in Threads \ {t} :
           /\ pc'[u] = pc[u] /\ at'[u] = at[u]
           /\ tls_caches'[u] = tls_caches[u] /\ tls_last_cache'[u] = tls_last_cache[u]
    /\ \A r : r \notin CacheResources(c) => (r \in held' <=> r \in held)
    /\ misuse' = misuse /\ usable' = usable /\ unlocked' = unlocked
    /\ initialized_class_locks' = initialized_class_locks
    /\ \A d \in Caches \ {c} :
           /\ cache_heap'[d] = cache_heap[d]
           /\ \A g \in Heaps : d \in Range(caches'[g]) <=> d \in Range(caches[g])
    /\ pc[t] = "idle" \/ (pc[t] \in Attaching /\ at[t].cache = c)
    /\ \A g \in Heaps \ usable : exclusive_cache'[g] = exclusive_cache[g]
    /\ Range(tls_caches'[t]) \subseteq Range(tls_caches[t]) \cup {c}

\* What LifeInv asks of the cache and of t after the step.
CacheInHand(t, c) ==
    /\ \/ pc'[t] = "idle" /\ at'[t] = NoCall
       \/ pc'[t] \in Attaching /\ at'[t].cache = c /\ at'[t].heap \in usable
    /\ \A g \in Heaps :
           /\ OnceEach(caches'[g])
           /\ c \in Range(caches'[g]) =>
                  g \in usable /\ cache_heap'[c] = g /\ pc'[t] = "idle"
    /\ \A g \in usable :
           exclusive_cache'[g] # NoCache => exclusive_cache'[g] \in Range(caches'[g])
    /\ Listed(c)' \/ pc'[t] = "heap_list" => CacheResources(c) \subseteq held'
    /\ pc'[t] = "remote_lock" => held' \cap CacheResources(c) = {Memory(c)}
    /\ pc'[t] = "idle" /\ ~ Listed(c)' => held' \cap CacheResources(c) = {}
    /\ OwnList(t)'

\* Such a step keeps the invariant.
LEMMA CacheStep ==
    ASSUME LifeInv, LifeType', NEW t \in Threads, NEW c, Alone(t, c), OnlyCache(t, c),
           CacheInHand(t, c)
    PROVE  LifeInv'
<1>1. "idle" \notin Making \cup Attaching /\ Making \cap Attaching = {}
      /\ {"remote_lock", "heap_list"} = Attaching /\ "destroy" \in Making
      /\ {"admin_lock", "arena_lock", "class_locks"} \subseteq Making
  BY DEF Making, Attaching
<1>2. /\ c \in Caches
      /\ \A u \in Threads \ {t} :
             /\ pc'[u] = pc[u] /\ at'[u] = at[u]
             /\ tls_caches'[u] = tls_caches[u] /\ tls_last_cache'[u] = tls_last_cache[u]
             /\ c \notin Range(tls_caches[u])
             /\ pc[u] \in Attaching => at[u].cache # c
      /\ ~ Listed(c)
  BY DEF Alone, OnlyCache
<1>3. /\ misuse' = misuse /\ usable' = usable /\ unlocked' = unlocked
      /\ initialized_class_locks' = initialized_class_locks
      /\ \A d \in Caches \ {c} :
             /\ cache_heap'[d] = cache_heap[d]
             /\ \A g \in Heaps : d \in Range(caches'[g]) <=> d \in Range(caches[g])
      /\ \A g \in Heaps \ usable : exclusive_cache'[g] = exclusive_cache[g]
      /\ \A r : r \notin CacheResources(c) => (r \in held' <=> r \in held)
      /\ Range(tls_caches'[t]) \subseteq Range(tls_caches[t]) \cup {c}
  BY DEF OnlyCache
<1>4. /\ pc'[t] = "idle" => at'[t] = NoCall
      /\ pc'[t] \notin Making
      /\ pc'[t] \in Attaching => at'[t].cache = c /\ at'[t].heap \in usable
  BY <1>1 DEF CacheInHand
<1>5. pc[t] \notin Making /\ (pc[t] \in Attaching => at[t].cache = c)
  BY <1>1 DEF OnlyCache
<1>6. \A g : Made(g)' <=> Made(g)
  BY <1>2, <1>4, <1>5 DEF Made
<1>7. \A d \in Caches \ {c} : (Taken(d)' <=> Taken(d)) /\ (Listed(d)' <=> Listed(d))
  BY <1>2, <1>3, <1>4, <1>5 DEF Taken, Listed
<1>8. Taken(c)' <=> pc'[t] \in Attaching
  BY <1>2, <1>4 DEF Taken
<1>9. \A g \in Heaps : Range(caches'[g]) \subseteq Caches /\ Range(caches[g]) \subseteq Caches
  BY ListNotEmpty DEF LifeInv, LifeType
<1>10. \A u \in Threads : Range(tls_caches'[u]) \subseteq Caches /\ Range(tls_caches[u]) \subseteq Caches
  BY ListNotEmpty DEF LifeInv, LifeType
<1>11. FrameInv'
  <2>1. ASSUME NEW u \in Threads
        PROVE  /\ pc'[u] = "idle" => at'[u] = NoCall
               /\ pc'[u] \in Making => at'[u].heap \in Heaps \ (usable' \cup unlocked')
               /\ pc'[u] \in Attaching => at'[u].heap \in usable' /\ at'[u].cache \in Caches
               /\ pc'[u] \in {"admin_lock", "arena_lock"} => at'[u].index = 0
               /\ pc'[u] = "class_locks" => at'[u].index < ClassCount
    <3>1. CASE u = t
      BY <1>1, <1>2, <1>3, <1>4, <3>1
    <3>2. CASE u # t
      BY <1>2, <1>3, <3>2 DEF LifeInv, FrameInv
    <3> QED BY <3>1, <3>2
  <2>2. ASSUME NEW u \in Threads, NEW v \in Threads, u # v
        PROVE  /\ pc'[u] \in Making /\ pc'[v] \in Making => at'[u].heap # at'[v].heap
               /\ pc'[u] \in Attaching /\ pc'[v] \in Attaching => at'[u].cache # at'[v].cache
    <3>1. CASE u # t /\ v # t
      BY <1>2, <2>2, <3>1 DEF LifeInv, FrameInv
    <3>2. CASE u = t \/ v = t
      BY <1>2, <1>4, <2>2, <3>2
    <3> QED BY <3>1, <3>2
  <2> QED BY <1>3, <2>1, <2>2 DEF FrameInv, LifeInv
<1>12. LocksInv'
  BY <1>2, <1>3, <1>4 DEF LifeInv, LocksInv
<1>13. \A g \in Heaps : held' \cap HeapResources(g) = held \cap HeapResources(g)
  BY <1>2, <1>3, HeapAndCacheApart
<1>14. HeapHeld'
  <2>1. \A u \in Threads : pc'[u] \in Making =>
           pc'[u] = pc[u] /\ at'[u] = at[u] /\ at[u].heap \in Heaps
    BY <1>2, <1>4 DEF LifeInv, FrameInv
  <2>2. \A g \in usable' : HeapResources(g) \subseteq held'
    BY <1>3, <1>13 DEF LifeInv, LifeType, HeapHeld
  <2>3. ASSUME NEW u \in Threads, pc'[u] \in Making
        PROVE  held' \cap HeapResources(at'[u].heap) =
                   Acquired(pc'[u], at'[u].heap, at'[u].index)
    BY <1>13, <2>1, <2>3 DEF LifeInv, HeapHeld
  <2>4. ASSUME NEW g \in Heaps \ usable', ~ Made(g)'
        PROVE  held' \cap HeapResources(g) =
                   IF g \in unlocked' THEN {AdminLock(g), ArenaLock(g)} ELSE {}
    BY <1>3, <1>6, <1>13, <2>4 DEF LifeInv, HeapHeld
  <2> QED BY <2>2, <2>3, <2>4 DEF HeapHeld
<1>15. \A d \in Caches \ {c} : held' \cap CacheResources(d) = held \cap CacheResources(d)
  BY <1>3, CachesApart
<1>16. CacheHeld'
  <2>1. ASSUME NEW g \in Heaps, NEW d \in Range(caches'[g]) PROVE CacheResources(d) \subseteq held'
    <3>1. CASE d = c
      BY <3>1 DEF CacheInHand, Listed
    <3>2. CASE d # c
      BY <1>3, <1>9, <1>15, <3>2 DEF LifeInv, CacheHeld
    <3> QED BY <3>1, <3>2
  <2>2. ASSUME NEW u \in Threads, pc'[u] \in Attaching
        PROVE  /\ pc'[u] = "remote_lock" =>
                      held' \cap CacheResources(at'[u].cache) = {Memory(at'[u].cache)}
               /\ pc'[u] = "heap_list" => CacheResources(at'[u].cache) \subseteq held'
    <3>1. CASE u = t
      BY <1>4, <2>2, <3>1 DEF CacheInHand
    <3>2. CASE u # t
      <4>1. pc'[u] = pc[u] /\ at'[u] = at[u] /\ at[u].cache \in Caches \ {c}
        BY <1>2, <2>2, <3>2 DEF LifeInv, FrameInv
      <4> QED BY <1>15, <2>2, <4>1 DEF LifeInv, CacheHeld
    <3> QED BY <3>1, <3>2
  <2>3. ASSUME NEW d \in Caches, ~ Listed(d)', ~ Taken(d)'
        PROVE  held' \cap CacheResources(d) = {}
    <3>1. CASE d = c
      BY <1>8, <2>3, <3>1 DEF CacheInHand
    <3>2. CASE d # c
      BY <1>7, <1>15, <2>3, <3>2 DEF LifeInv, CacheHeld
    <3> QED BY <3>1, <3>2
  <2> QED BY <1>1, <2>1, <2>2, <2>3 DEF CacheHeld
<1>17. HeldInv'
  <2>1. held' \subseteq held \cup CacheResources(c)
    BY <1>3
  <2>2. CacheResources(c) \subseteq UNION {CacheResources(d) : d \in Caches}
    BY <1>2
  <2> QED BY <1>3, <2>1, <2>2 DEF LifeInv, HeldInv
<1>18. ListInv'
  <2>1. ASSUME NEW g \in Heaps, NEW d \in Range(caches'[g])
        PROVE  /\ g \in usable' \/ \E u \in Threads : pc'[u] = "destroy" /\ at'[u].heap = g
               /\ cache_heap'[d] = g /\ ~ Taken(d)'
    <3>1. CASE d = c
      BY <1>1, <1>3, <1>8, <3>1 DEF CacheInHand
    <3>2. CASE d # c
      <4>1. d \in Range(caches[g]) /\ d \in Caches \ {c}
        BY <1>3, <1>9, <3>2
      <4>2. g \in usable \/ \E u \in Threads : pc[u] = "destroy" /\ at[u].heap = g
        BY <4>1 DEF LifeInv, ListInv
      <4>3. g \in usable' \/ \E u \in Threads : pc'[u] = "destroy" /\ at'[u].heap = g
        BY <1>1, <1>2, <1>3, <1>5, <4>2
      <4> QED BY <1>3, <1>7, <4>1, <4>3 DEF LifeInv, ListInv
    <3> QED BY <3>1, <3>2
  <2>2. \A u \in Threads : pc'[u] \in Making \ {"destroy"} => exclusive_cache'[at'[u].heap] = NoCache
    BY <1>2, <1>3, <1>4 DEF LifeInv, FrameInv, ListInv
  <2>3. \A g \in usable' : exclusive_cache'[g] # NoCache => exclusive_cache'[g] \in Range(caches'[g])
    BY <1>3 DEF CacheInHand
  <2>4. \A g \in Heaps : OnceEach(caches'[g])
    BY DEF CacheInHand
  <2> QED BY <2>1, <2>2, <2>3, <2>4 DEF ListInv
<1>19. TlsInv'
  <2>1. ASSUME NEW u \in Threads, u # t PROVE OwnList(u)'
    <3>1. OwnList(u)
      BY DEF LifeInv, TlsInv
    <3>2. /\ pc'[u] = pc[u] /\ at'[u] = at[u] /\ tls_caches'[u] = tls_caches[u]
          /\ tls_last_cache'[u] = tls_last_cache[u]
      BY <1>2, <2>1
    <3>3. \A d \in Range(tls_caches[u]) :
             /\ d \in Caches \ {c} /\ cache_heap[d] \in usable /\ cache_heap[d] \in Heaps
             /\ cache_heap'[d] = cache_heap[d]
             /\ d \in Range(caches[cache_heap[d]]) => d \in Range(caches'[cache_heap[d]])
      BY <1>2, <1>3, <1>10, <2>1, <3>1 DEF OwnList, LifeInv, LifeType
    <3>4. pc[u] = "heap_list" => cache_heap'[at[u].cache] = cache_heap[at[u].cache]
      BY <1>1, <1>2, <1>3, <2>1 DEF LifeInv, FrameInv
    <3> QED BY <1>3, <3>1, <3>2, <3>3, <3>4 DEF OwnList
  <2>2. ASSUME NEW u \in Threads, NEW v \in Threads, u # v
        PROVE  Range(tls_caches'[u]) \cap Range(tls_caches'[v]) = {}
    <3>1. Range(tls_caches[u]) \cap Range(tls_caches[v]) = {}
      BY <2>2 DEF LifeInv, TlsInv
    <3>2. CASE u # t /\ v # t
      BY <1>2, <3>1, <3>2
    <3>3. CASE u = t
      BY <1>2, <1>3, <2>2, <3>1, <3>3
    <3>4. CASE v = t
      BY <1>2, <1>3, <2>2, <3>1, <3>4
    <3> QED BY <3>2, <3>3, <3>4
  <2>3. OwnList(t)'
    BY DEF CacheInHand
  <2> QED BY <2>1, <2>2, <2>3 DEF TlsInv
<1> QED BY <1>11, <1>12, <1>14, <1>16, <1>17, <1>18, <1>19 DEF LifeInv

-----------------------------------------------------------------------------
(***************************************************************************)
(* The thread-local list.                                                   *)
(***************************************************************************)
\* The search of the list finds the thread's cache of the heap, if it has one.
LEMMA PositionOf ==
    ASSUME LifeInv, NEW t \in Threads, NEW h
    PROVE  /\ TlsPosition(t, h) \in 0..Len(tls_caches[t])
           /\ TlsPosition(t, h) # 0 =>
                  /\ TlsPosition(t, h) \in 1..Len(tls_caches[t])
                  /\ tls_caches[t][TlsPosition(t, h)] \in Range(tls_caches[t])
                  /\ cache_heap[tls_caches[t][TlsPosition(t, h)]] = h
           /\ TlsPosition(t, h) = 0 => \A c \in Range(tls_caches[t]) : cache_heap[c] # h
<1>1. PICK s : s = tls_caches[t]
  OBVIOUS
<1>2. /\ s \in Seq(Caches) /\ Len(s) \in Nat
      /\ \A i \in 1..Len(s) : s[i] \in Range(s)
      /\ \A c \in Range(s) : \E i \in 1..Len(s) : s[i] = c
  BY <1>1, ListNotEmpty, LenProperties DEF LifeInv, LifeType
<1>3. PICK I : I = {i \in 1..Len(s) : cache_heap[s[i]] = h}
  OBVIOUS
<1>4. TlsPosition(t, h) = IF I # {} THEN Min(I) ELSE 0
  BY <1>1, <1>3 DEF TlsPosition, SelectInSeq
<1>5. \A i, j \in I : i = j
  <2>1. OwnList(t)
    BY DEF LifeInv, TlsInv
  <2>2. \A i, j \in I : s[i] = s[j]
    BY <1>1, <1>2, <1>3, <2>1 DEF OwnList
  <2> QED BY <1>1, <1>3, <2>1, <2>2 DEF OwnList, OnceEach
<1>6. I # {} => Min(I) \in I
  <2> SUFFICES ASSUME NEW i \in I PROVE Min(I) \in I
    OBVIOUS
  <2>1. \A y \in I : i =< y
    BY <1>2, <1>3, <1>5
  <2>2. \E x \in I : \A y \in I : x =< y
    BY <2>1
  <2> QED BY <2>2 DEF Min
<1>7. PICK k : k = TlsPosition(t, h)
  OBVIOUS
<1>8. k # 0 => k \in I
  BY <1>4, <1>6, <1>7
<1>9. k = 0 => I = {}
  <2>1. 0 \notin I
    BY <1>3
  <2> QED BY <1>4, <1>6, <1>7, <2>1
<1>10. /\ k \in 0..Len(s)
       /\ k # 0 => k \in 1..Len(s) /\ s[k] \in Range(s) /\ cache_heap[s[k]] = h
  BY <1>2, <1>3, <1>8
<1>11. k = 0 => \A c \in Range(s) : cache_heap[c] # h
  BY <1>2, <1>3, <1>9
<1> QED BY <1>1, <1>7, <1>10, <1>11

\* So does memx_heap_find_cache, shortcut or not.
LEMMA FoundCache ==
    ASSUME LifeInv, NEW t \in Threads, NEW h, NEW c, c = memx_heap_find_cache(t, h)
    PROVE  /\ c # NoCache => c \in Range(tls_caches[t]) /\ cache_heap[c] = h
           /\ c = NoCache => \A d \in Range(tls_caches[t]) : cache_heap[d] # h
<1>1. PICK i : i = TlsPosition(t, h)
  OBVIOUS
<1>2. c = IF tls_last_cache[t] # NoCache /\ cache_heap[tls_last_cache[t]] = h
          THEN tls_last_cache[t]
          ELSE IF i # 0 THEN tls_caches[t][i] ELSE NoCache
  BY <1>1 DEF memx_heap_find_cache
<1>3. /\ i # 0 => tls_caches[t][i] \in Range(tls_caches[t]) /\ cache_heap[tls_caches[t][i]] = h
      /\ i = 0 => \A d \in Range(tls_caches[t]) : cache_heap[d] # h
  BY <1>1, PositionOf
<1>4. tls_last_cache[t] # NoCache => tls_last_cache[t] \in Range(tls_caches[t])
  BY DEF LifeInv, TlsInv, OwnList
<1>5. NoCache \notin Range(tls_caches[t])
  BY LifeAssumption, ListNotEmpty DEF LifeInv, LifeType
<1> QED BY <1>2, <1>3, <1>4, <1>5

\* What unlinking leaves: the list without the cache of the heap, and no
\* shortcut to it.
LEMMA UnlinkedList ==
    ASSUME LifeInv, NEW t \in Threads, NEW h, TlsPosition(t, h) # 0, Unlink(t, h)
    PROVE  \E c \in Range(tls_caches[t]) :
               /\ cache_heap[c] = h
               /\ tls_caches' \in [Threads -> Seq(Caches)]
               /\ tls_last_cache' \in [Threads -> Caches \cup {NoCache}]
               /\ Range(tls_caches'[t]) = Range(tls_caches[t]) \ {c}
               /\ OnceEach(tls_caches'[t])
               /\ tls_last_cache'[t] # NoCache =>
                      tls_last_cache'[t] \in Range(tls_caches[t]) \ {c}
               /\ \A u \in Threads \ {t} :
                      /\ tls_caches'[u] = tls_caches[u]
                      /\ tls_last_cache'[u] = tls_last_cache[u]
<1>1. PICK i : i = TlsPosition(t, h)
  OBVIOUS
<1>2. PICK s : s = tls_caches[t]
  OBVIOUS
<1>3. PICK c : c = s[i]
  OBVIOUS
<1>4. i \in 1..Len(s) /\ c \in Range(s) /\ cache_heap[c] = h
  BY <1>1, <1>2, <1>3, PositionOf
<1>5. PICK new : new = RemoveAt(s, i)
  OBVIOUS
<1>6. /\ tls_caches' = [tls_caches EXCEPT ![t] = new]
      /\ tls_last_cache' = [tls_last_cache EXCEPT ![t] = IF @ = c THEN NoCache ELSE @]
  BY <1>1, <1>2, <1>3, <1>5 DEF Unlink
<1>7. /\ s \in Seq(Caches) /\ OnceEach(s)
      /\ tls_last_cache[t] # NoCache => tls_last_cache[t] \in Range(s)
  BY <1>2 DEF LifeInv, LifeType, TlsInv, OwnList
<1>8. new \in Seq(Caches) /\ Range(new) = Range(s) \ {c} /\ OnceEach(new)
  BY <1>3, <1>4, <1>5, <1>7, Unlinked
<1> QED BY <1>2, <1>4, <1>6, <1>7, <1>8 DEF LifeInv, LifeType

\* Finding a cache and detaching one change only the thread's own list.
LEMMA OwnListStep ==
    ASSUME LifeInv, NEW t \in Threads,
           tls_caches' \in [Threads -> Seq(Caches)],
           tls_last_cache' \in [Threads -> Caches \cup {NoCache}],
           \A u \in Threads \ {t} : tls_caches'[u] = tls_caches[u] /\ tls_last_cache'[u] = tls_last_cache[u],
           Range(tls_caches'[t]) \subseteq Range(tls_caches[t]),
           OnceEach(tls_caches'[t]),
           tls_last_cache'[t] # NoCache => tls_last_cache'[t] \in Range(tls_caches'[t]),
           UNCHANGED <<held, misuse, heapVars, cacheVars, pc, at>>
    PROVE  LifeInv'
<1>1. /\ held' = held /\ misuse' = misuse /\ initialized_class_locks' = initialized_class_locks
      /\ unlocked' = unlocked /\ usable' = usable /\ caches' = caches
      /\ exclusive_cache' = exclusive_cache /\ cache_heap' = cache_heap
      /\ pc' = pc /\ at' = at
  BY DEF heapVars, cacheVars
<1>2. \A x : (Made(x)' <=> Made(x)) /\ (Taken(x)' <=> Taken(x)) /\ (Listed(x)' <=> Listed(x))
  BY <1>1 DEF Made, Taken, Listed
<1>3. LifeType'
  BY <1>1 DEF LifeInv, LifeType
<1>4. FrameInv' /\ LocksInv'
  BY <1>1 DEF LifeInv, FrameInv, LocksInv
<1>5. HeapHeld'
  BY <1>1, <1>2 DEF LifeInv, HeapHeld
<1>6. CacheHeld'
  BY <1>1, <1>2 DEF LifeInv, CacheHeld
<1>7. HeldInv' /\ ListInv'
  BY <1>1, <1>2 DEF LifeInv, HeldInv, ListInv
<1>8. TlsInv'
  <2>1. \A u \in Threads : Range(tls_caches'[u]) \subseteq Range(tls_caches[u])
    OBVIOUS
  <2>2. ASSUME NEW u \in Threads PROVE OwnList(u)'
    <3>1. OwnList(u)
      BY DEF LifeInv, TlsInv
    <3>2. /\ OnceEach(tls_caches'[u])
          /\ tls_last_cache'[u] # NoCache => tls_last_cache'[u] \in Range(tls_caches'[u])
      BY <3>1 DEF OwnList
    <3> QED BY <1>1, <2>1, <3>1, <3>2 DEF OwnList
  <2>3. \A u, v \in Threads : u # v => Range(tls_caches'[u]) \cap Range(tls_caches'[v]) = {}
    BY <2>1 DEF LifeInv, TlsInv
  <2> QED BY <2>2, <2>3 DEF TlsInv
<1> QED BY <1>3, <1>4, <1>5, <1>6, <1>7, <1>8 DEF LifeInv

\* memx_heap_find_cache updates the shortcut.
LEMMA FindCacheInv ==
    ASSUME LifeInv, NEW t \in Threads, NEW h \in Heaps, FindCache(t, h)
    PROVE  LifeInv'
<1>1. PICK c : c = memx_heap_find_cache(t, h)
  OBVIOUS
<1>2. /\ c # NoCache /\ tls_last_cache' = [tls_last_cache EXCEPT ![t] = c]
      /\ tls_caches' = tls_caches
      /\ UNCHANGED <<held, misuse, heapVars, cacheVars, pc, at>>
  BY <1>1 DEF FindCache
<1>3. c \in Range(tls_caches[t]) /\ c \in Caches
  BY <1>1, <1>2, FoundCache, ListNotEmpty DEF LifeInv, LifeType
<1>4. /\ tls_caches \in [Threads -> Seq(Caches)]
      /\ tls_last_cache \in [Threads -> Caches \cup {NoCache}]
      /\ OnceEach(tls_caches[t])
  BY DEF LifeInv, LifeType, TlsInv, OwnList
<1>5. /\ tls_last_cache' \in [Threads -> Caches \cup {NoCache}]
      /\ tls_last_cache'[t] = c
      /\ \A u \in Threads \ {t} : tls_caches'[u] = tls_caches[u] /\ tls_last_cache'[u] = tls_last_cache[u]
  BY <1>2, <1>3, <1>4
<1>6. /\ tls_caches' \in [Threads -> Seq(Caches)]
      /\ Range(tls_caches'[t]) \subseteq Range(tls_caches[t])
      /\ OnceEach(tls_caches'[t])
      /\ tls_last_cache'[t] # NoCache => tls_last_cache'[t] \in Range(tls_caches'[t])
  BY <1>2, <1>3, <1>4, <1>5
<1> QED BY <1>2, <1>5, <1>6, OwnListStep

\* memx_heap_thread_detach unlinks the thread's cache of the heap.
LEMMA DetachInv ==
    ASSUME LifeInv, NEW t \in Threads, NEW h \in Heaps, Detach(t, h)
    PROVE  LifeInv'
<1>1. TlsPosition(t, h) # 0 /\ Unlink(t, h) /\ UNCHANGED <<held, misuse, heapVars, cacheVars, pc, at>>
  BY DEF Detach
<1>2. PICK c \in Range(tls_caches[t]) :
               /\ cache_heap[c] = h
               /\ tls_caches' \in [Threads -> Seq(Caches)]
               /\ tls_last_cache' \in [Threads -> Caches \cup {NoCache}]
               /\ Range(tls_caches'[t]) = Range(tls_caches[t]) \ {c}
               /\ OnceEach(tls_caches'[t])
               /\ tls_last_cache'[t] # NoCache =>
                      tls_last_cache'[t] \in Range(tls_caches[t]) \ {c}
               /\ \A u \in Threads \ {t} :
                      /\ tls_caches'[u] = tls_caches[u]
                      /\ tls_last_cache'[u] = tls_last_cache[u]
  BY <1>1, UnlinkedList
<1> QED BY <1>1, <1>2, OwnListStep

-----------------------------------------------------------------------------
(***************************************************************************)
(* memx_heap_create_cache.                                                  *)
(***************************************************************************)
\* calloc hands out a cache that no list knows of.
LEMMA CallocCacheInv ==
    ASSUME LifeInv, NEW t \in Threads, NEW h \in Heaps, NEW c \in Caches, CallocCache(t, h, c)
    PROVE  LifeInv'
<1>1. /\ pc[t] = "idle" /\ h \in usable /\ memx_heap_find_cache(t, h) = NoCache
      /\ Memory(c) \notin held /\ held' = held \cup {Memory(c)} /\ misuse' = misuse
      /\ pc' = [pc EXCEPT ![t] = "remote_lock"]
      /\ cache_heap' = [cache_heap EXCEPT ![c] = NoHeap]
      /\ initialized_class_locks' = initialized_class_locks
      /\ unlocked' = unlocked /\ usable' = usable /\ caches' = caches
      /\ exclusive_cache' = exclusive_cache
      /\ tls_caches' = tls_caches /\ tls_last_cache' = tls_last_cache
  BY DEF CallocCache, Acquire, heapVars, tlsVars
<1>2. PICK frame : frame = [NoCall EXCEPT !.heap = h, !.cache = c]
  OBVIOUS
<1>3. at' = [at EXCEPT ![t] = frame] /\ frame \in Frames /\ frame.heap = h /\ frame.cache = c
  BY <1>2 DEF CallocCache, NoCall, Frames
<1>4. /\ pc \in [Threads -> Labels] /\ at \in [Threads -> Frames] /\ "remote_lock" \in Labels
      /\ cache_heap \in [Caches -> Heaps \cup {NoHeap}]
  BY DEF LifeInv, LifeType, Labels, Attaching
<1>5. Alone(t, c) /\ c \notin Range(tls_caches[t]) /\ ~ Taken(c)
  BY <1>1, FreshCache
<1>6. pc'[t] = "remote_lock" /\ at'[t] = frame
      /\ \A u \in Threads \ {t} : pc'[u] = pc[u] /\ at'[u] = at[u]
  BY <1>1, <1>3, <1>4
<1>7. LifeType'
  BY <1>1, <1>3, <1>4 DEF LifeInv, LifeType
<1>8. OnlyCache(t, c)
  BY <1>1, <1>4, <1>6 DEF OnlyCache, CacheResources
<1>9. OwnList(t)'
  <2>1. OwnList(t)
    BY DEF LifeInv, TlsInv
  <2>2. \A d \in Range(tls_caches[t]) : cache_heap[d] # h
    BY <1>1, FoundCache
  <2>3. \A d \in Range(tls_caches[t]) : cache_heap'[d] = cache_heap[d]
    <3>1. Range(tls_caches[t]) \subseteq Caches
      BY ListNotEmpty DEF LifeInv, LifeType
    <3> QED BY <1>1, <1>4, <1>5, <3>1
  <2> QED BY <1>1, <1>3, <1>6, <2>1, <2>2, <2>3 DEF OwnList
<1>10. ~ Listed(c)' /\ \A g \in Heaps : c \notin Range(caches'[g])
  BY <1>1, <1>5 DEF Alone, Listed
<1>11. held' \cap CacheResources(c) = {Memory(c)}
  <2>1. held \cap CacheResources(c) = {}
    BY <1>5 DEF LifeInv, CacheHeld, Alone
  <2> QED BY <1>1, <2>1 DEF CacheResources
<1>12. CacheInHand(t, c)
  <2>1. pc'[t] \in Attaching /\ at'[t].cache = c /\ at'[t].heap \in usable
    BY <1>1, <1>3, <1>6 DEF Attaching
  <2>2. \A g \in Heaps : OnceEach(caches'[g])
    BY <1>1 DEF LifeInv, ListInv
  <2>3. \A g \in usable :
           exclusive_cache'[g] # NoCache => exclusive_cache'[g] \in Range(caches'[g])
    BY <1>1 DEF LifeInv, ListInv
  <2> QED BY <1>6, <1>9, <1>10, <1>11, <2>1, <2>2, <2>3 DEF CacheInHand
<1> QED BY <1>5, <1>7, <1>8, <1>12, CacheStep

\* The cache enters the thread's list.
LEMMA InitRemoteLockInv ==
    ASSUME LifeInv, NEW t \in Threads, InitRemoteLock(t)
    PROVE  LifeInv'
<1>1. PICK h, c : h = at[t].heap /\ c = at[t].cache
  OBVIOUS
<1>2. PICK new : new = <<c>> \o tls_caches[t]
  OBVIOUS
<1>3. /\ pc[t] = "remote_lock" /\ pc[t] \in Attaching
      /\ held' = held \cup {RemoteLock(c)} /\ misuse' = misuse
      /\ pc' = [pc EXCEPT ![t] = "heap_list"] /\ at' = at
      /\ cache_heap' = [cache_heap EXCEPT ![c] = h]
      /\ initialized_class_locks' = initialized_class_locks
      /\ unlocked' = unlocked /\ usable' = usable /\ caches' = caches
      /\ exclusive_cache' = exclusive_cache
      /\ tls_caches' = [tls_caches EXCEPT ![t] = new]
      /\ tls_last_cache' = [tls_last_cache EXCEPT ![t] = c]
  BY <1>1, <1>2 DEF InitRemoteLock, Acquire, Goto, heapVars, Attaching
<1>4. /\ pc \in [Threads -> Labels] /\ at \in [Threads -> Frames] /\ "heap_list" \in Labels
      /\ cache_heap \in [Caches -> Heaps \cup {NoHeap}]
      /\ tls_caches \in [Threads -> Seq(Caches)]
      /\ tls_last_cache \in [Threads -> Caches \cup {NoCache}]
  BY DEF LifeInv, LifeType, Labels, Attaching
<1>5. /\ Alone(t, c) /\ c \in Caches /\ h \in usable /\ h \in Heaps
      /\ c \notin Range(tls_caches[t])
      /\ held \cap CacheResources(c) = {Memory(c)}
  BY <1>1, <1>3, AttachedAlone DEF Alone
<1>6. OwnList(t)
  BY DEF LifeInv, TlsInv
<1>7. new \in Seq(Caches) /\ Range(new) = {c} \cup Range(tls_caches[t]) /\ OnceEach(new)
  BY <1>2, <1>4, <1>5, <1>6, Prepended DEF OwnList
<1>8. /\ pc'[t] = "heap_list" /\ at'[t] = at[t] /\ tls_caches'[t] = new /\ tls_last_cache'[t] = c
      /\ cache_heap'[c] = h /\ \A d \in Caches \ {c} : cache_heap'[d] = cache_heap[d]
      /\ \A u \in Threads \ {t} :
             /\ pc'[u] = pc[u] /\ at'[u] = at[u]
             /\ tls_caches'[u] = tls_caches[u] /\ tls_last_cache'[u] = tls_last_cache[u]
  BY <1>3, <1>4, <1>5
<1>9. LifeType'
  BY <1>3, <1>4, <1>5, <1>7 DEF LifeInv, LifeType
<1>10. OnlyCache(t, c)
  BY <1>1, <1>3, <1>7, <1>8 DEF OnlyCache, CacheResources
<1>11. OwnList(t)'
  <2>1. Range(tls_caches[t]) \subseteq Caches \ {c}
    BY <1>4, <1>5, ListNotEmpty
  <2>2. \A d \in Range(tls_caches[t]) : cache_heap'[d] = cache_heap[d] /\ cache_heap[d] # h
    BY <1>1, <1>3, <1>6, <1>8, <2>1 DEF OwnList
  <2>3. \A d \in Range(new) :
           /\ cache_heap'[d] \in usable'
           /\ \/ d \in Range(caches'[cache_heap'[d]])
              \/ pc'[t] = "heap_list" /\ at'[t].cache = d
    BY <1>1, <1>3, <1>5, <1>6, <1>7, <1>8, <2>2 DEF OwnList
  <2>4. \A d, e \in Range(new) : cache_heap'[d] = cache_heap'[e] => d = e
    BY <1>6, <1>7, <1>8, <2>2 DEF OwnList
  <2>5. tls_last_cache'[t] \in Range(new) /\ cache_heap'[at'[t].cache] = at'[t].heap
        /\ pc'[t] # "remote_lock"
    BY <1>1, <1>7, <1>8
  <2> QED BY <1>7, <1>8, <2>3, <2>4, <2>5 DEF OwnList
<1>12. ~ Listed(c)' /\ \A g \in Heaps : c \notin Range(caches'[g])
  BY <1>3, <1>5 DEF Alone, Listed
<1>13. CacheResources(c) \subseteq held'
  BY <1>3, <1>5 DEF CacheResources
<1>14. CacheInHand(t, c)
  <2>1. pc'[t] \in Attaching /\ at'[t].cache = c /\ at'[t].heap \in usable
    BY <1>1, <1>5, <1>8 DEF Attaching
  <2>2. \A g \in Heaps : OnceEach(caches'[g])
    BY <1>3 DEF LifeInv, ListInv
  <2>3. \A g \in usable :
           exclusive_cache'[g] # NoCache => exclusive_cache'[g] \in Range(caches'[g])
    BY <1>3 DEF LifeInv, ListInv
  <2> QED BY <1>8, <1>11, <1>12, <1>13, <2>1, <2>2, <2>3 DEF CacheInHand
<1> QED BY <1>5, <1>9, <1>10, <1>14, CacheStep

\* The cache without a lock is freed again.
LEMMA InitRemoteLockFailsInv ==
    ASSUME LifeInv, NEW t \in Threads, InitRemoteLockFails(t)
    PROVE  LifeInv'
<1>1. PICK c : c = at[t].cache
  OBVIOUS
<1>2. /\ pc[t] = "remote_lock" /\ pc[t] \in Attaching
      /\ Release({Memory(c)})
      /\ pc' = [pc EXCEPT ![t] = "idle"] /\ at' = [at EXCEPT ![t] = NoCall]
      /\ initialized_class_locks' = initialized_class_locks /\ cache_heap' = cache_heap
      /\ unlocked' = unlocked /\ usable' = usable /\ caches' = caches
      /\ exclusive_cache' = exclusive_cache
      /\ tls_caches' = tls_caches /\ tls_last_cache' = tls_last_cache
  BY <1>1 DEF InitRemoteLockFails, Return, heapVars, cacheVars, tlsVars, Attaching
<1>3. /\ pc \in [Threads -> Labels] /\ at \in [Threads -> Frames]
      /\ "idle" \in Labels /\ NoCall \in Frames
  BY DEF LifeInv, LifeType, Labels, NoCall, Frames
<1>4. /\ Alone(t, c) /\ c \in Caches
      /\ held \cap CacheResources(c) = {Memory(c)}
  BY <1>1, <1>2, AttachedAlone DEF Alone
<1>5. held' = held \ {Memory(c)} /\ misuse' = misuse
  BY <1>2, <1>4 DEF Release
<1>6. /\ pc'[t] = "idle" /\ at'[t] = NoCall
      /\ \A u \in Threads \ {t} : pc'[u] = pc[u] /\ at'[u] = at[u]
  BY <1>2, <1>3
<1>7. LifeType'
  BY <1>2, <1>3 DEF LifeInv, LifeType
<1>8. OnlyCache(t, c)
  BY <1>1, <1>2, <1>5, <1>6 DEF OnlyCache, CacheResources
<1>9. OwnList(t)'
  BY <1>2, <1>6 DEF LifeInv, TlsInv, OwnList
<1>10. ~ Listed(c)' /\ \A g \in Heaps : c \notin Range(caches'[g])
  BY <1>2, <1>4 DEF Alone, Listed
<1>11. held' \cap CacheResources(c) = {}
  BY <1>4, <1>5
<1>12. CacheInHand(t, c)
  BY <1>2, <1>6, <1>9, <1>10, <1>11 DEF CacheInHand, LifeInv, ListInv
<1> QED BY <1>4, <1>7, <1>8, <1>12, CacheStep

\* The cache enters the heap's list; only the first one is exclusive.
LEMMA PublishCacheInv ==
    ASSUME LifeInv, NEW t \in Threads, PublishCache(t)
    PROVE  LifeInv'
<1>1. PICK h, c : h = at[t].heap /\ c = at[t].cache
  OBVIOUS
<1>2. PICK new : new = <<c>> \o caches[h]
  OBVIOUS
<1>3. PICK x : x = IF caches[h] = <<>> THEN c ELSE NoCache
  OBVIOUS
<1>4. /\ pc[t] = "heap_list" /\ pc[t] \in Attaching
      /\ exclusive_cache' = [exclusive_cache EXCEPT ![h] = x]
      /\ caches' = [caches EXCEPT ![h] = new]
      /\ pc' = [pc EXCEPT ![t] = "idle"] /\ at' = [at EXCEPT ![t] = NoCall]
      /\ held' = held /\ misuse' = misuse
      /\ initialized_class_locks' = initialized_class_locks /\ cache_heap' = cache_heap
      /\ unlocked' = unlocked /\ usable' = usable
      /\ tls_caches' = tls_caches /\ tls_last_cache' = tls_last_cache
  BY <1>1, <1>2, <1>3 DEF PublishCache, Return, heapVars, tlsVars, Attaching
<1>5. /\ pc \in [Threads -> Labels] /\ at \in [Threads -> Frames]
      /\ "idle" \in Labels /\ NoCall \in Frames
      /\ caches \in [Heaps -> Seq(Caches)]
      /\ exclusive_cache \in [Heaps -> Caches \cup {NoCache}]
      /\ tls_caches \in [Threads -> Seq(Caches)]
  BY DEF LifeInv, LifeType, Labels, NoCall, Frames
<1>6. /\ Alone(t, c) /\ c \in Caches /\ h \in usable /\ h \in Heaps
      /\ CacheResources(c) \subseteq held /\ cache_heap[c] = h
      /\ c \notin Range(caches[h])
  BY <1>1, <1>4, AttachedAlone DEF Alone, Listed
<1>7. new \in Seq(Caches) /\ Range(new) = {c} \cup Range(caches[h]) /\ OnceEach(new)
  BY <1>2, <1>5, <1>6, Prepended DEF LifeInv, ListInv
<1>8. /\ pc'[t] = "idle" /\ at'[t] = NoCall /\ caches'[h] = new /\ exclusive_cache'[h] = x
      /\ \A g \in Heaps \ {h} : caches'[g] = caches[g] /\ exclusive_cache'[g] = exclusive_cache[g]
      /\ \A u \in Threads \ {t} : pc'[u] = pc[u] /\ at'[u] = at[u]
      /\ x # NoCache => x = c
  BY <1>3, <1>4, <1>5, <1>6
<1>9. LifeType'
  <2>1. x \in Caches \cup {NoCache}
    BY <1>3, <1>6
  <2> QED BY <1>4, <1>5, <1>7, <2>1 DEF LifeInv, LifeType
<1>10. \A d \in Caches \ {c} : \A g \in Heaps : d \in Range(caches'[g]) <=> d \in Range(caches[g])
  BY <1>7, <1>8
<1>11. OnlyCache(t, c)
  BY <1>1, <1>4, <1>6, <1>8, <1>10 DEF OnlyCache
<1>12. OwnList(t)'
  <2>1. OwnList(t)
    BY DEF LifeInv, TlsInv
  <2>2. \A d \in Range(tls_caches[t]) : cache_heap[d] \in usable /\ cache_heap[d] \in Heaps /\ d \in Caches
    BY <1>5, <2>1, ListNotEmpty DEF OwnList, LifeInv, LifeType
  <2>3. ASSUME NEW d \in Range(tls_caches[t]) PROVE d \in Range(caches'[cache_heap[d]])
    <3>1. CASE d = c
      BY <1>6, <1>7, <1>8, <3>1
    <3>2. CASE d # c
      BY <1>1, <1>10, <2>1, <2>2, <3>2 DEF OwnList
    <3> QED BY <3>1, <3>2
  <2> QED BY <1>4, <1>8, <2>1, <2>2, <2>3 DEF OwnList
<1>13. \A g \in Heaps : c \in Range(caches'[g]) => g = h
  BY <1>6, <1>8 DEF Alone, Listed
<1>14. Listed(c)'
  BY <1>6, <1>7, <1>8 DEF Listed
<1>15. \A g \in Heaps : OnceEach(caches'[g])
  BY <1>7, <1>8 DEF LifeInv, ListInv
<1>16. ASSUME NEW g \in usable, exclusive_cache'[g] # NoCache
       PROVE  exclusive_cache'[g] \in Range(caches'[g])
  <2>1. g \in Heaps
    BY DEF LifeInv, LifeType
  <2>2. CASE g = h
    BY <1>7, <1>8, <1>16, <2>2
  <2>3. CASE g # h
    BY <1>8, <1>16, <2>1, <2>3 DEF LifeInv, ListInv
  <2> QED BY <2>2, <2>3
<1>17. CacheInHand(t, c)
  BY <1>4, <1>6, <1>8, <1>12, <1>13, <1>14, <1>15, <1>16 DEF CacheInHand
<1> QED BY <1>6, <1>9, <1>11, <1>17, CacheStep

-----------------------------------------------------------------------------
(***************************************************************************)
(* memx_heap_destroy.                                                       *)
(***************************************************************************)
\* The heap leaves use; no thread has a cache of it any more.
LEMMA DestroyBeginInv ==
    ASSUME LifeInv, NEW t \in Threads, NEW h \in Heaps, DestroyBegin(t, h)
    PROVE  LifeInv'
<1>1. /\ pc[t] = "idle" /\ h \in usable
      /\ \A u \in Threads \ {t} : at[u].heap # h /\ TlsPosition(u, h) = 0
      /\ usable' = usable \ {h}
      /\ pc' = [pc EXCEPT ![t] = "destroy"]
      /\ held' = held /\ misuse' = misuse
      /\ initialized_class_locks' = initialized_class_locks /\ unlocked' = unlocked
      /\ caches' = caches /\ exclusive_cache' = exclusive_cache /\ cache_heap' = cache_heap
  BY DEF DestroyBegin, MayDestroy, cacheVars
<1>2. PICK frame : frame = [NoCall EXCEPT !.heap = h]
  OBVIOUS
<1>3. at' = [at EXCEPT ![t] = frame] /\ frame \in Frames /\ frame.heap = h
  BY <1>2 DEF DestroyBegin, NoCall, Frames
<1>4. /\ pc \in [Threads -> Labels] /\ at \in [Threads -> Frames] /\ "destroy" \in Labels
      /\ tls_caches \in [Threads -> Seq(Caches)]
      /\ tls_last_cache \in [Threads -> Caches \cup {NoCache}]
  BY DEF LifeInv, LifeType, Labels, Making
<1>5. /\ "idle" \notin Making \cup Attaching /\ "destroy" \in Making
      /\ "destroy" \notin Attaching /\ Attaching = {"remote_lock", "heap_list"}
      /\ Making \cap Attaching = {}
  BY DEF Making, Attaching
<1>6. /\ pc'[t] = "destroy" /\ at'[t].heap = h
      /\ \A u \in Threads \ {t} : pc'[u] = pc[u] /\ at'[u] = at[u]
  BY <1>1, <1>3, <1>4
<1>7. /\ tls_caches' \in [Threads -> Seq(Caches)]
      /\ tls_last_cache' \in [Threads -> Caches \cup {NoCache}]
      /\ Range(tls_caches'[t]) \subseteq Range(tls_caches[t])
      /\ \A c \in Range(tls_caches'[t]) : cache_heap[c] # h
      /\ OnceEach(tls_caches'[t])
      /\ tls_last_cache'[t] # NoCache => tls_last_cache'[t] \in Range(tls_caches'[t])
      /\ \A u \in Threads \ {t} :
             tls_caches'[u] = tls_caches[u] /\ tls_last_cache'[u] = tls_last_cache[u]
  <2>1. OwnList(t)
    BY DEF LifeInv, TlsInv
  <2>2. CASE TlsPosition(t, h) = 0
    <3>1. tls_caches' = tls_caches /\ tls_last_cache' = tls_last_cache
      BY <2>2 DEF DestroyBegin, tlsVars
    <3>2. \A c \in Range(tls_caches[t]) : cache_heap[c] # h
      BY <2>2, PositionOf
    <3> QED BY <1>4, <2>1, <3>1, <3>2 DEF OwnList
  <2>3. CASE TlsPosition(t, h) # 0
    <3>1. Unlink(t, h)
      BY <2>3 DEF DestroyBegin
    <3>2. PICK c \in Range(tls_caches[t]) :
               /\ cache_heap[c] = h
               /\ tls_caches' \in [Threads -> Seq(Caches)]
               /\ tls_last_cache' \in [Threads -> Caches \cup {NoCache}]
               /\ Range(tls_caches'[t]) = Range(tls_caches[t]) \ {c}
               /\ OnceEach(tls_caches'[t])
               /\ tls_last_cache'[t] # NoCache =>
                      tls_last_cache'[t] \in Range(tls_caches[t]) \ {c}
               /\ \A u \in Threads \ {t} :
                      /\ tls_caches'[u] = tls_caches[u]
                      /\ tls_last_cache'[u] = tls_last_cache[u]
      BY <2>3, <3>1, UnlinkedList
    <3>3. \A d \in Range(tls_caches[t]) \ {c} : cache_heap[d] # h
      BY <2>1, <3>2 DEF OwnList
    <3> QED BY <3>2, <3>3
  <2> QED BY <2>2, <2>3
<1>8. LifeType'
  BY <1>1, <1>3, <1>4, <1>7 DEF LifeInv, LifeType
<1>9. /\ h \notin unlocked
      /\ \A u \in Threads : pc[u] \in Making => at[u].heap # h /\ u # t
      /\ \A u \in Threads : pc[u] \in Attaching => at[u].heap # h /\ u # t
  BY <1>1, <1>5 DEF LifeInv, FrameInv
<1>10. FrameInv'
  <2>1. ASSUME NEW u \in Threads
        PROVE  /\ pc'[u] = "idle" => at'[u] = NoCall
               /\ pc'[u] \in Making => at'[u].heap \in Heaps \ (usable' \cup unlocked')
               /\ pc'[u] \in Attaching => at'[u].heap \in usable' /\ at'[u].cache \in Caches
               /\ pc'[u] \in {"admin_lock", "arena_lock"} => at'[u].index = 0
               /\ pc'[u] = "class_locks" => at'[u].index < ClassCount
    <3>1. CASE u = t
      BY <1>1, <1>5, <1>6, <1>9, <3>1
    <3>2. CASE u # t
      BY <1>1, <1>6, <1>9, <3>2 DEF LifeInv, FrameInv
    <3> QED BY <3>1, <3>2
  <2>2. ASSUME NEW u \in Threads, NEW v \in Threads, u # v
        PROVE  /\ pc'[u] \in Making /\ pc'[v] \in Making => at'[u].heap # at'[v].heap
               /\ pc'[u] \in Attaching /\ pc'[v] \in Attaching => at'[u].cache # at'[v].cache
    <3>1. CASE u # t /\ v # t
      BY <1>6, <2>2, <3>1 DEF LifeInv, FrameInv
    <3>2. CASE u = t \/ v = t
      BY <1>5, <1>6, <1>9, <2>2, <3>2
    <3> QED BY <3>1, <3>2
  <2> QED BY <1>1, <2>1, <2>2 DEF FrameInv, LifeInv
<1>11. LocksInv'
  BY <1>1, <1>6, <1>9 DEF LifeInv, LocksInv
<1>12. \A g \in Heaps \ {h} : Made(g)' <=> Made(g)
  BY <1>5, <1>6, <1>9 DEF Made
<1>13. Made(h)'
  BY <1>5, <1>6 DEF Made
<1>14. \A c : (Taken(c)' <=> Taken(c)) /\ (Listed(c)' <=> Listed(c))
  BY <1>1, <1>5, <1>6, <1>9 DEF Taken, Listed
<1>15. HeapHeld'
  <2>1. held' \cap HeapResources(h) = Acquired("destroy", h, at'[t].index)
    BY <1>1, AcquiredAt DEF LifeInv, HeapHeld
  <2>2. ASSUME NEW u \in Threads, pc'[u] \in Making
        PROVE  held' \cap HeapResources(at'[u].heap) =
                   Acquired(pc'[u], at'[u].heap, at'[u].index)
    <3>1. CASE u = t
      BY <1>6, <2>1, <3>1
    <3>2. CASE u # t
      BY <1>1, <1>6, <2>2, <3>2 DEF LifeInv, HeapHeld
    <3> QED BY <3>1, <3>2
  <2>3. ASSUME NEW g \in Heaps \ usable', ~ Made(g)'
        PROVE  held' \cap HeapResources(g) =
                   IF g \in unlocked' THEN {AdminLock(g), ArenaLock(g)} ELSE {}
    BY <1>1, <1>12, <1>13, <2>3 DEF LifeInv, HeapHeld
  <2>4. \A g \in usable' : HeapResources(g) \subseteq held'
    BY <1>1 DEF LifeInv, HeapHeld
  <2> QED BY <2>2, <2>3, <2>4 DEF HeapHeld
<1>16. CacheHeld'
  BY <1>1, <1>5, <1>6, <1>14 DEF LifeInv, CacheHeld
<1>17. HeldInv'
  BY <1>1 DEF LifeInv, HeldInv
<1>18. ListInv'
  <2>1. ASSUME NEW g \in Heaps, Range(caches'[g]) # {}
        PROVE  g \in usable' \/ \E u \in Threads : pc'[u] = "destroy" /\ at'[u].heap = g
    <3>1. g \in usable \/ \E u \in Threads : pc[u] = "destroy" /\ at[u].heap = g
      BY <1>1, <2>1 DEF LifeInv, ListInv
    <3> QED BY <1>1, <1>5, <1>6, <1>9, <3>1
  <2>2. \A u \in Threads : pc'[u] \in Making \ {"destroy"} => exclusive_cache'[at'[u].heap] = NoCache
    BY <1>1, <1>6 DEF LifeInv, ListInv
  <2> QED BY <1>1, <1>14, <2>1, <2>2 DEF LifeInv, ListInv
<1>19. TlsInv'
  <2>1. ASSUME NEW u \in Threads PROVE OwnList(u)'
    <3>1. OwnList(u)
      BY DEF LifeInv, TlsInv
    <3>2. /\ Range(tls_caches'[u]) \subseteq Range(tls_caches[u])
          /\ OnceEach(tls_caches'[u])
          /\ tls_last_cache'[u] # NoCache => tls_last_cache'[u] \in Range(tls_caches'[u])
      BY <1>7, <3>1 DEF OwnList
    <3>3. \A c \in Range(tls_caches'[u]) : cache_heap[c] # h
      <4>1. CASE u = t
        BY <1>7, <4>1
      <4>2. CASE u # t
        <5>1. \A c \in Range(tls_caches[u]) : cache_heap[c] # h
          BY <1>1, <4>2, PositionOf
        <5> QED BY <1>7, <4>2, <5>1
      <4> QED BY <4>1, <4>2
    <3>4. pc'[u] \in Attaching \/ pc[u] \in Attaching => pc'[u] = pc[u] /\ at'[u] = at[u]
      BY <1>5, <1>6, <1>9
    <3> QED BY <1>1, <1>5, <3>1, <3>2, <3>3, <3>4 DEF OwnList
  <2>2. \A u \in Threads : Range(tls_caches'[u]) \subseteq Range(tls_caches[u])
    BY <1>7
  <2>3. \A u, v \in Threads : u # v => Range(tls_caches'[u]) \cap Range(tls_caches'[v]) = {}
    BY <2>2 DEF LifeInv, TlsInv
  <2> QED BY <2>1, <2>3 DEF TlsInv
<1> QED BY <1>8, <1>10, <1>11, <1>15, <1>16, <1>17, <1>18, <1>19 DEF LifeInv

\* The caches of the heap are freed one by one.
LEMMA DestroyCacheInv ==
    ASSUME LifeInv, NEW t \in Threads, DestroyCache(t)
    PROVE  LifeInv'
<1>1. PICK h : h = at[t].heap
  OBVIOUS
<1>2. PICK c, rest : c = Head(caches[h]) /\ rest = Tail(caches[h])
  OBVIOUS
<1>3. /\ pc[t] = "destroy" /\ pc[t] \in Making /\ caches[h] # <<>>
      /\ Release(CacheResources(c))
      /\ caches' = [caches EXCEPT ![h] = rest]
      /\ exclusive_cache' = exclusive_cache /\ cache_heap' = cache_heap
      /\ initialized_class_locks' = initialized_class_locks
      /\ unlocked' = unlocked /\ usable' = usable
      /\ tls_caches' = tls_caches /\ tls_last_cache' = tls_last_cache
      /\ pc' = pc /\ at' = at
  BY <1>1, <1>2 DEF DestroyCache, heapVars, tlsVars, Making
<1>4. h \in Heaps /\ h \notin usable
  BY <1>1, <1>3, HandOf
<1>5. caches \in [Heaps -> Seq(Caches)] /\ caches[h] \in Seq(Caches) /\ OnceEach(caches[h])
  BY <1>4 DEF LifeInv, LifeType, ListInv
<1>6. /\ c \in Range(caches[h]) /\ rest \in Seq(Caches)
      /\ Range(rest) = Range(caches[h]) \ {c} /\ OnceEach(rest)
  BY <1>2, <1>3, <1>5, HeadTaken
<1>7. c \in Caches /\ cache_heap[c] = h /\ ~ Taken(c) /\ CacheResources(c) \subseteq held
  BY <1>4, <1>5, <1>6, ListNotEmpty DEF LifeInv, ListInv, CacheHeld
<1>8. held' = held \ CacheResources(c) /\ misuse' = misuse
  BY <1>3, <1>7 DEF Release
<1>9. caches'[h] = rest /\ \A g \in Heaps \ {h} : caches'[g] = caches[g]
  BY <1>3, <1>4, <1>5
<1>10. \A g \in Heaps : c \notin Range(caches'[g])
  <2>1. \A g \in Heaps \ {h} : c \notin Range(caches[g])
    BY <1>7 DEF LifeInv, ListInv
  <2> QED BY <1>6, <1>9, <2>1
<1>11. \A g \in Heaps : \A d : d # c => (d \in Range(caches'[g]) <=> d \in Range(caches[g]))
  BY <1>6, <1>9
<1>12. \A x : (Made(x)' <=> Made(x)) /\ (Taken(x)' <=> Taken(x))
  BY <1>3 DEF Made, Taken
<1>13. \A d : d # c => (Listed(d)' <=> Listed(d))
  BY <1>11 DEF Listed
<1>14. LifeType'
  BY <1>3, <1>4, <1>5, <1>6 DEF LifeInv, LifeType
<1>15. FrameInv' /\ LocksInv'
  BY <1>3 DEF LifeInv, FrameInv, LocksInv
<1>16. \A g \in Heaps : held' \cap HeapResources(g) = held \cap HeapResources(g)
  BY <1>7, <1>8, HeapAndCacheApart
<1>17. HeapHeld'
  <2>1. \A u \in Threads : pc[u] \in Making => at[u].heap \in Heaps
    BY DEF LifeInv, FrameInv
  <2>2. usable \subseteq Heaps
    BY DEF LifeInv, LifeType
  <2> QED BY <1>3, <1>12, <1>16, <2>1, <2>2 DEF LifeInv, HeapHeld
<1>18. \A d \in Caches \ {c} : held' \cap CacheResources(d) = held \cap CacheResources(d)
  BY <1>8, CachesApart
<1>19. CacheHeld'
  <2>1. \A g \in Heaps : \A d \in Range(caches'[g]) : CacheResources(d) \subseteq held'
    <3> SUFFICES ASSUME NEW g \in Heaps, NEW d \in Range(caches'[g])
                 PROVE  CacheResources(d) \subseteq held'
      OBVIOUS
    <3>1. d # c /\ d \in Range(caches[g])
      BY <1>10, <1>11
    <3>2. d \in Caches
      BY <1>5, <3>1, ListNotEmpty
    <3> QED BY <1>18, <3>1, <3>2 DEF LifeInv, CacheHeld
  <2>2. \A u \in Threads : pc[u] \in Attaching => at[u].cache \in Caches \ {c}
    BY <1>7 DEF LifeInv, FrameInv, Taken
  <2>3. \A u \in Threads :
           /\ pc'[u] = "remote_lock" =>
                  held' \cap CacheResources(at'[u].cache) = {Memory(at'[u].cache)}
           /\ pc'[u] = "heap_list" => CacheResources(at'[u].cache) \subseteq held'
    BY <1>3, <1>18, <2>2 DEF LifeInv, CacheHeld, Attaching
  <2>4. ASSUME NEW d \in Caches, ~ Listed(d)', ~ Taken(d)'
        PROVE  held' \cap CacheResources(d) = {}
    <3>1. CASE d = c
      BY <1>8, <3>1
    <3>2. CASE d # c
      BY <1>12, <1>13, <1>18, <2>4, <3>2 DEF LifeInv, CacheHeld
    <3> QED BY <3>1, <3>2
  <2> QED BY <2>1, <2>3, <2>4 DEF CacheHeld
<1>20. HeldInv'
  BY <1>8 DEF LifeInv, HeldInv
<1>21. ListInv'
  <2>1. \A g \in Heaps : OnceEach(caches'[g])
    BY <1>6, <1>9 DEF LifeInv, ListInv
  <2>2. \A g \in Heaps : \A d \in Range(caches'[g]) : d \in Range(caches[g])
    BY <1>10, <1>11
  <2>3. \A g \in usable' : exclusive_cache'[g] # NoCache => exclusive_cache'[g] \in Range(caches'[g])
    BY <1>3, <1>4, <1>9 DEF LifeInv, LifeType, ListInv
  <2>4. \A g \in Heaps :
           /\ Range(caches'[g]) # {} =>
                  g \in usable' \/ \E u \in Threads : pc'[u] = "destroy" /\ at'[u].heap = g
           /\ \A d \in Range(caches'[g]) : cache_heap'[d] = g /\ ~ Taken(d)'
    BY <1>3, <1>12, <2>2 DEF LifeInv, ListInv
  <2>5. \A u \in Threads : pc'[u] \in Making \ {"destroy"} => exclusive_cache'[at'[u].heap] = NoCache
    BY <1>3 DEF LifeInv, ListInv
  <2> QED BY <2>1, <2>3, <2>4, <2>5 DEF ListInv
<1>22. TlsInv'
  <2>1. ASSUME NEW u \in Threads PROVE OwnList(u)'
    <3>1. OwnList(u)
      BY DEF LifeInv, TlsInv
    <3>2. \A d \in Range(tls_caches[u]) : cache_heap[d] \in usable /\ cache_heap[d] \in Heaps \ {h}
      BY <1>4, <3>1 DEF OwnList, LifeInv, LifeType
    <3>3. \A d \in Range(tls_caches[u]) : caches'[cache_heap[d]] = caches[cache_heap[d]]
      BY <1>9, <3>2
    <3> QED BY <1>3, <3>1, <3>3 DEF OwnList
  <2> QED BY <1>3, <2>1 DEF LifeInv, TlsInv
<1> QED BY <1>14, <1>15, <1>17, <1>19, <1>20, <1>21, <1>22 DEF LifeInv

-----------------------------------------------------------------------------
(***************************************************************************)
(* The theorems.                                                            *)
(***************************************************************************)
\* No heap, no cache, no call.
LEMMA LifeInvInit ==
    Init => LifeInv
<1> SUFFICES ASSUME Init PROVE LifeInv
  OBVIOUS
<1> USE DEF Init
<1>1. \A h \in Heaps : Range(caches[h]) = {} /\ OnceEach(caches[h]) /\ caches[h] \in Seq(Caches)
  BY EmptyList
<1>2. \A t \in Threads : Range(tls_caches[t]) = {} /\ OnceEach(tls_caches[t]) /\ tls_caches[t] \in Seq(Caches)
  BY EmptyList
<1>3. "idle" \notin Making \cup Attaching /\ "idle" \in Labels /\ NoCall \in Frames
  BY DEF Making, Attaching, Labels, NoCall, Frames
<1>4. 0 \in 0..SizeMax
  BY LifeAssumption DEF SizeMax
<1>5. LifeType
  BY <1>1, <1>2, <1>3, <1>4, EmptyList DEF LifeType
<1>6. FrameInv /\ LocksInv
  BY <1>3 DEF FrameInv, LocksInv
<1>7. HeapHeld /\ CacheHeld /\ HeldInv
  BY <1>1, <1>3 DEF HeapHeld, CacheHeld, HeldInv, Attaching
<1>8. ListInv
  BY <1>1, <1>3 DEF ListInv
<1>9. TlsInv
  BY <1>2 DEF TlsInv, OwnList
<1> QED BY <1>5, <1>6, <1>7, <1>8, <1>9 DEF LifeInv

\* Every step keeps the invariant.
LEMMA LifeInvNext ==
    LifeInv /\ [Next]_vars => LifeInv'
<1> SUFFICES ASSUME LifeInv, [Next]_vars PROVE LifeInv'
  OBVIOUS
<1>1. CASE UNCHANGED vars
  <2>1. /\ UNCHANGED <<held, misuse, heapVars, cacheVars, pc, at>>
        /\ tls_caches' = tls_caches /\ tls_last_cache' = tls_last_cache
    BY <1>1 DEF vars, tlsVars
  <2>2. \A t \in Threads :
           /\ Range(tls_caches[t]) \subseteq Range(tls_caches[t])
           /\ OnceEach(tls_caches[t])
           /\ tls_last_cache[t] # NoCache => tls_last_cache[t] \in Range(tls_caches[t])
    BY DEF LifeInv, TlsInv, OwnList
  <2>3. CASE Threads # {}
    BY <2>1, <2>2, <2>3, OwnListStep DEF LifeInv, LifeType
  <2>4. CASE Threads = {}
    BY <2>1, <2>4 DEF LifeInv, LifeType, FrameInv, LocksInv, HeapHeld, CacheHeld, HeldInv,
                      ListInv, TlsInv, Made, Taken, Listed, heapVars, cacheVars
  <2> QED BY <2>3, <2>4
<1>2. ASSUME NEW t \in Threads, Create(t) PROVE LifeInv'
  BY <1>2, CreateHeapInv, InitFirstLocksInv, InitFirstLocksFailInv, InitClassLockInv,
     InitClassLockFailsInv, AcquireMoreInv, PublishHeapInv, UnwindInv DEF Create
<1>3. ASSUME NEW t \in Threads, Attach(t) PROVE LifeInv'
  BY <1>3, FindCacheInv, DetachInv, CallocCacheInv, InitRemoteLockInv,
     InitRemoteLockFailsInv, PublishCacheInv DEF Attach
<1>4. ASSUME NEW t \in Threads, Destroy(t) PROVE LifeInv'
  BY <1>4, DestroyBeginInv, DestroyCacheInv, UnwindInv DEF Destroy
<1> QED BY <1>1, <1>2, <1>3, <1>4 DEF Next

\* The invariant holds in every reachable state: each heap address and each
\* cache address is in one hand, and exactly the resources of its stage exist.
THEOREM LifeInvariant == Spec => []LifeInv
BY LifeInvInit, LifeInvNext, PTL DEF Spec

\* Creations that fail at any step and destructions leak nothing and release
\* nothing twice, but for the two locks memx_heap_destroy_locks skips.
THEOREM LifeResourcesExact == Spec => []ResourcesExact
<1>1. ASSUME LifeInv PROVE ResourcesExact
  <2>1. misuse = {} /\ usable \subseteq Heaps /\ unlocked \subseteq Heaps /\ usable \cap unlocked = {}
    BY <1>1 DEF LifeInv, HeldInv, LifeType, FrameInv
  <2>2. \A h \in usable : /\ HeapResources(h) \subseteq held
                          /\ \A c \in Range(caches[h]) : CacheResources(c) \subseteq held
    BY <1>1, <2>1 DEF LifeInv, HeapHeld, CacheHeld
  <2>3. ASSUME \A t \in Threads : pc[t] = "idle"
        PROVE  held = (UNION {HeapResources(h) : h \in usable})
                      \cup (UNION {CacheResources(c) :
                                    c \in UNION {Range(caches[h]) : h \in usable}})
                      \cup (UNION {{AdminLock(h), ArenaLock(h)} : h \in unlocked})
    <3>1. /\ \A h : ~ Made(h)
          /\ \A c : ~ Taken(c)
      BY <2>3 DEF Made, Taken, Making, Attaching
    <3>2. \A h \in Heaps : Range(caches[h]) # {} => h \in usable
      BY <1>1, <2>3 DEF LifeInv, ListInv
    <3>3. ASSUME NEW h \in unlocked PROVE {AdminLock(h), ArenaLock(h)} \subseteq held
      <4>1. held \cap HeapResources(h) = {AdminLock(h), ArenaLock(h)}
        BY <1>1, <2>1, <3>1, <3>3 DEF LifeInv, HeapHeld
      <4> QED BY <4>1
    <3>4. ASSUME NEW r \in held
          PROVE  \/ \E h \in usable : r \in HeapResources(h)
                 \/ \E h \in usable : \E c \in Range(caches[h]) : r \in CacheResources(c)
                 \/ \E h \in unlocked : r \in {AdminLock(h), ArenaLock(h)}
      <4>1. \/ \E h \in Heaps : r \in HeapResources(h)
            \/ \E c \in Caches : r \in CacheResources(c)
        BY <1>1, <3>4 DEF LifeInv, HeldInv
      <4>2. ASSUME NEW h \in Heaps, r \in HeapResources(h), h \notin usable
            PROVE  h \in unlocked /\ r \in {AdminLock(h), ArenaLock(h)}
        <5>1. held \cap HeapResources(h) =
                  IF h \in unlocked THEN {AdminLock(h), ArenaLock(h)} ELSE {}
          BY <1>1, <3>1, <4>2 DEF LifeInv, HeapHeld
        <5> QED BY <3>4, <4>2, <5>1
      <4>3. ASSUME NEW c \in Caches, r \in CacheResources(c)
            PROVE  \E h \in usable : c \in Range(caches[h])
        <5>1. Listed(c)
          BY <1>1, <3>1, <3>4, <4>3 DEF LifeInv, CacheHeld
        <5> QED BY <3>2, <5>1 DEF Listed
      <4> QED BY <4>1, <4>2, <4>3
    <3> QED BY <2>2, <3>3, <3>4
  <2> QED BY <2>1, <2>2, <2>3 DEF ResourcesExact
<1> QED BY <1>1, LifeInvariant, PTL

\* The cache a call finds is alive, of the heap it asked for and the thread's
\* own, whatever addresses were reused; and exclusive_cache is a cache of its
\* heap.
THEOREM LifeCacheFoundIsOwn == Spec => []CacheFoundIsOwn
<1>1. ASSUME LifeInv PROVE CacheFoundIsOwn
  <2>1. ASSUME NEW t \in Threads, NEW h \in usable
        PROVE  LET c == memx_heap_find_cache(t, h)
                   mine == {d \in Range(tls_caches[t]) : cache_heap[d] = h}
               IN  IF c = NoCache
                   THEN mine = {}
                   ELSE /\ mine = {c}
                        /\ CacheResources(c) \subseteq held
                        /\ \A u \in Threads \ {t} : c \notin Range(tls_caches[u])
    <3>0. PICK c : c = memx_heap_find_cache(t, h)
      OBVIOUS
    <3> DEFINE mine == {d \in Range(tls_caches[t]) : cache_heap[d] = h}
    <3>1. /\ c # NoCache => c \in Range(tls_caches[t]) /\ cache_heap[c] = h
          /\ c = NoCache => \A d \in Range(tls_caches[t]) : cache_heap[d] # h
      BY <1>1, <3>0, FoundCache
    <3>2. OwnList(t)
      BY <1>1 DEF LifeInv, TlsInv
    <3>3. c = NoCache => mine = {}
      BY <3>1
    <3>4. c # NoCache => mine = {c}
      BY <3>1, <3>2 DEF OwnList
    <3>5. c # NoCache => CacheResources(c) \subseteq held
      <4>1. h \in Heaps
        BY <1>1 DEF LifeInv, LifeType
      <4>2. c # NoCache => c \in Range(caches[h]) \/ (pc[t] = "heap_list" /\ at[t].cache = c)
        BY <3>1, <3>2 DEF OwnList
      <4> QED BY <1>1, <4>1, <4>2 DEF LifeInv, CacheHeld
    <3>6. c # NoCache => \A u \in Threads \ {t} : c \notin Range(tls_caches[u])
      BY <1>1, <3>1 DEF LifeInv, TlsInv
    <3> QED BY <3>0, <3>3, <3>4, <3>5, <3>6
  <2>2. \A h \in usable :
           exclusive_cache[h] # NoCache =>
               /\ exclusive_cache[h] \in Range(caches[h])
               /\ cache_heap[exclusive_cache[h]] = h
    BY <1>1 DEF LifeInv, LifeType, ListInv
  <2> QED BY <2>1, <2>2 DEF CacheFoundIsOwn
<1> QED BY <1>1, LifeInvariant, PTL
=============================================================================
