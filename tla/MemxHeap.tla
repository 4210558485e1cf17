------------------------------- MODULE MemxHeap -------------------------------
(***************************************************************************)
(* Small allocations of the MEMX heap (src/memx/src/allocator/heap.c):      *)
(* per-thread caches over central bins over spans of the arena.             *)
(*                                                                          *)
(* A step is a critical section, or the thread-private code between two of  *)
(* them.  remote_lock and admin_lock are never held together with another   *)
(* lock, so their sections are single steps; class_locks and arena_lock     *)
(* nest (class -> arena, when a refill creates a span) and are variables.   *)
(*                                                                          *)
(* The program obeys the API: it passes to memx_heap_free_unchecked only a  *)
(* pointer it holds, gives up a pointer it frees, and detaches a thread     *)
(* only outside a heap call.  It may pass any block address to the checked  *)
(* memx_heap_free, stale and doubly freed ones included.                    *)
(***************************************************************************)
EXTENDS Integers, Sequences, FiniteSets, SequencesExt

CONSTANTS
    Threads,
    Caches,          \* records memx_heap_create_cache may allocate (a bound)
    NoCache,         \* NULL
    ClassCount,      \* MEMX_HEAP_CLASS_COUNT
    SpanCapacity,    \* spans in the arena
    BlocksPerSpan,   \* block_count of a span
    CacheLimit,      \* config.cache_limit
    CacheBatch,      \* config.cache_batch
    CountMax,        \* UINT32_MAX, the largest count a chunk header can hold
    NoBlock,         \* NULL
    Unlocked         \* a mutex nobody holds

\* What memx_heap_create accepts.
ASSUME HeapAssumption ==
    /\ NoCache \notin Caches
    /\ Unlocked \notin Threads
    /\ ClassCount \in Nat \ {0}
    /\ SpanCapacity \in Nat \ {0}
    /\ BlocksPerSpan \in Nat \ {0}
    /\ CountMax \in Nat \ {0}
    /\ CacheLimit \in Nat /\ CacheLimit >= 2
    /\ CacheBatch \in 1 .. CountMax
    /\ NoBlock \notin Nat

Classes == 0 .. ClassCount - 1
Spans == 0 .. SpanCapacity - 1
Blocks == 0 .. SpanCapacity * BlocksPerSpan - 1
BlockOf(span, i) == span * BlocksPerSpan + i
SpanOf(b) == b \div BlocksPerSpan

VARIABLES
    tls,               \* the cache each thread finds in its TLS
    caches,            \* records linked from heap->caches
    exclusive_cache,
    accepting_remote,  \* per cache
    local,             \* per cache and class: the hot segment
    spare,             \* ... and the segment behind it
    remote,            \* ... blocks freed by other threads, newest first
    central,           \* per class: a stack of chunks
    central_count,
    next_span,
    span_classes,
    state,             \* header state of each block: 1 allocated, 0 free
    owner,             \* header link.owner, set when a block is allocated
    class_lock,        \* holder of each class lock
    arena_lock,
    pc, cls, blk, to,  \* per thread: where it is, its class, block, cache
    pending,           \* per thread: the remote list it is draining
    program            \* blocks the program holds

shared == <<caches, exclusive_cache, accepting_remote>>
lists == <<local, spare, remote>>
bins == <<central, central_count>>
arena == <<next_span, span_classes>>
headers == <<state, owner>>
locks == <<class_lock, arena_lock>>
frame == <<pc, cls, blk, to, pending>>
vars == <<tls, shared, lists, bins, arena, headers, locks, frame, program>>

(***************************************************************************)
(* A segment is a linked list with the tail pointer and the count the code  *)
(* keeps beside it; a central chunk has the same three parts, its count in  *)
(* the requested_size field of its first header.                            *)
(***************************************************************************)
EmptySegment == [blocks |-> <<>>, tail |-> NoBlock, count |-> 0]
Segments == [blocks : Seq(Blocks), tail : Blocks \cup {NoBlock}, count : Nat]

Locations == {"idle", "pop", "drain", "lock", "locked", "claim", "carve",
              "failed", "cas", "route", "remote", "central", "detach"}

VariablesTyped ==
    /\ tls \in [Threads -> Caches \cup {NoCache}]
    /\ caches \subseteq Caches
    /\ exclusive_cache \in Caches \cup {NoCache}
    /\ accepting_remote \in [Caches -> BOOLEAN]
    /\ local \in [Caches -> [Classes -> Segments]]
    /\ spare \in [Caches -> [Classes -> Segments]]
    /\ remote \in [Caches -> [Classes -> Seq(Blocks)]]
    /\ central \in [Classes -> Seq(Segments)]
    /\ central_count \in [Classes -> Int]
    /\ next_span \in 0 .. SpanCapacity
    /\ span_classes \in [Spans -> Classes]
    /\ state \in [Blocks -> {0, 1}]
    /\ owner \in [Blocks -> Caches \cup {NoCache}]
    /\ class_lock \in [Classes -> Threads \cup {Unlocked}]
    /\ arena_lock \in Threads \cup {Unlocked}
    /\ pc \in [Threads -> Locations]
    /\ cls \in [Threads -> Classes]
    /\ blk \in [Threads -> Blocks \cup {NoBlock}]
    /\ to \in [Threads -> Caches \cup {NoCache}]
    /\ pending \in [Threads -> Seq(Blocks)]
    /\ program \subseteq Blocks

Init ==
    /\ tls = [t \in Threads |-> NoCache]
    /\ caches = {}
    /\ exclusive_cache = NoCache
    /\ accepting_remote = [k \in Caches |-> FALSE]
    /\ local = [k \in Caches |-> [c \in Classes |-> EmptySegment]]
    /\ spare = [k \in Caches |-> [c \in Classes |-> EmptySegment]]
    /\ remote = [k \in Caches |-> [c \in Classes |-> <<>>]]
    /\ central = [c \in Classes |-> <<>>]
    /\ central_count = [c \in Classes |-> 0]
    /\ next_span = 0
    /\ span_classes = [s \in Spans |-> 0]
    /\ state = [b \in Blocks |-> 0]
    /\ owner = [b \in Blocks |-> NoCache]
    /\ class_lock = [c \in Classes |-> Unlocked]
    /\ arena_lock = Unlocked
    /\ pc = [t \in Threads |-> "idle"]
    /\ cls = [t \in Threads |-> 0]
    /\ blk = [t \in Threads |-> NoBlock]
    /\ to = [t \in Threads |-> NoCache]
    /\ pending = [t \in Threads |-> <<>>]
    /\ program = {}

Goto(t, l) == pc' = [pc EXCEPT ![t] = l]

\* A call returns; the locals of its frame are gone.
Done(t) ==
    /\ pc' = [pc EXCEPT ![t] = "idle"]
    /\ cls' = [cls EXCEPT ![t] = 0]
    /\ blk' = [blk EXCEPT ![t] = NoBlock]
    /\ to' = [to EXCEPT ![t] = NoCache]
    /\ pending' = [pending EXCEPT ![t] = <<>>]

-----------------------------------------------------------------------------
(***************************************************************************)
(* Central bins.                                                            *)
(***************************************************************************)

\* tail->link.next = NULL: the chunk ends at the tail it was given.
CutAt(segment) ==
    LET ends == {i \in DOMAIN segment.blocks : segment.blocks[i] = segment.tail}
    IN  IF ends = {} THEN segment
        ELSE [blocks |-> SubSeq(segment.blocks, 1,
                            CHOOSE i \in ends : \A j \in ends : j <= i),
              tail |-> segment.tail,
              count |-> segment.count]

\* memx_heap_push_central_chunk_locked for each of chunks in turn, which
\* hold count blocks together.
memx_heap_push_central_chunks(c, chunks, count) ==
    /\ central' = [central EXCEPT ![c] = Reverse(chunks) \o @]
    /\ central_count' = [central_count EXCEPT ![c] = @ + count]

Single(b) == [blocks |-> <<b>>, tail |-> b, count |-> 1]
Singles(blocks) == [i \in DOMAIN blocks |-> Single(blocks[i])]

(***************************************************************************)
(* The chunks memx_heap_create_span_locked carves, in the order it pushes   *)
(* them.  Each is built by prepending, so it runs from its highest block    *)
(* down to its tail.                                                        *)
(***************************************************************************)
ChunkLimit == IF CacheBatch < CacheLimit THEN CacheBatch ELSE CacheLimit

CarvedChunk(span, j) ==
    LET lo == (j - 1) * ChunkLimit
        hi == IF j * ChunkLimit < BlocksPerSpan THEN j * ChunkLimit
                                                ELSE BlocksPerSpan
    IN  [blocks |-> [i \in 1 .. hi - lo |-> BlockOf(span, hi - i)],
         tail |-> BlockOf(span, lo),
         count |-> hi - lo]

CarvedChunks(span) ==
    [j \in 1 .. (BlocksPerSpan + ChunkLimit - 1) \div ChunkLimit |->
        CarvedChunk(span, j)]

-----------------------------------------------------------------------------
(***************************************************************************)
(* The thread cache.                                                        *)
(***************************************************************************)
Push(segment, b) ==
    [blocks |-> <<b>> \o segment.blocks,
     tail |-> IF segment.blocks = <<>> THEN b ELSE segment.tail,
     count |-> segment.count + 1]

\* Mutant: popping the last block leaves the tail pointer.
PopKeepsTail(segment) ==
    [blocks |-> Tail(segment.blocks),
     tail |-> segment.tail,
     count |-> segment.count - 1]

Pop(segment) ==
    [blocks |-> Tail(segment.blocks),
     tail |-> IF Len(segment.blocks) = 1 THEN NoBlock ELSE segment.tail,
     count |-> segment.count - 1]

\* Mutant: only the sum of both segments is held against the limit.
TrimBySum(hot, cold) ==
    \/ hot.count >= CountMax
    \/ cold.count > CacheLimit - hot.count

\* Mutant: the hot segment may outgrow the count of a chunk header.
TrimIgnoresCountMax(hot, cold) ==
    \/ hot.count >= CacheLimit \div 2
    \/ cold.count > CacheLimit - hot.count

\* The condition of memx_heap_trim_cache on the two segments.
memx_heap_trim_needed(hot, cold) ==
    \/ hot.count >= CacheLimit \div 2
    \/ hot.count >= CountMax
    \/ cold.count > CacheLimit - hot.count

\* The condition under which memx_heap_flush_excess_slow gives the old spare
\* back; otherwise it is overwritten.
FlushesSpare(cold) ==
    /\ cold.blocks # <<>>
    /\ cold.tail # NoBlock
    /\ cold.count # 0
    /\ cold.count <= CountMax

(***************************************************************************)
(* Pushing a block on the hot segment of cache k, then memx_heap_trim_cache *)
(* and, when needed, memx_heap_flush_excess_slow under the class lock.      *)
(***************************************************************************)
PushAndTrim(k, c, b) ==
    LET hot == Push(local[k][c], b)
        cold == spare[k][c]
    IN  IF memx_heap_trim_needed(hot, cold)
        THEN /\ spare' = [spare EXCEPT ![k][c] = hot]
             /\ local' = [local EXCEPT ![k][c] = EmptySegment]
             /\ IF FlushesSpare(cold)
                THEN /\ class_lock[c] = Unlocked
                     /\ memx_heap_push_central_chunks(
                            c, <<CutAt(cold)>>, cold.count)
                ELSE UNCHANGED bins
        ELSE /\ local' = [local EXCEPT ![k][c] = hot]
             /\ UNCHANGED <<spare, bins>>

-----------------------------------------------------------------------------
(***************************************************************************)
(* memx_heap_malloc for a small class.                                      *)
(***************************************************************************)

\* The thread has a cache.
Malloc(t, c) ==
    /\ pc[t] = "idle"
    /\ tls[t] # NoCache
    /\ Goto(t, "pop")
    /\ cls' = [cls EXCEPT ![t] = c]
    /\ UNCHANGED <<tls, shared, lists, bins, arena, headers, locks,
                   blk, to, pending, program>>

\* Mutant: a cache created when no other is exclusive becomes exclusive.
MallocReelects(t, c, k) ==
    /\ pc[t] = "idle"
    /\ tls[t] = NoCache
    /\ k \notin caches
    /\ tls' = [tls EXCEPT ![t] = k]
    /\ accepting_remote' = [accepting_remote EXCEPT ![k] = TRUE]
    /\ exclusive_cache' = IF exclusive_cache = NoCache THEN k ELSE NoCache
    /\ caches' = caches \cup {k}
    /\ Goto(t, "pop")
    /\ cls' = [cls EXCEPT ![t] = c]
    /\ UNCHANGED <<lists, bins, arena, headers, locks, blk, to, pending, program>>

(***************************************************************************)
(* memx_heap_create_cache: a fresh record, published under admin_lock.  The *)
(* first cache of the heap becomes the exclusive one, any later one ends    *)
(* that for good.                                                           *)
(***************************************************************************)
MallocNewCache(t, c, k) ==
    /\ pc[t] = "idle"
    /\ tls[t] = NoCache
    /\ k \notin caches
    /\ tls' = [tls EXCEPT ![t] = k]
    /\ accepting_remote' = [accepting_remote EXCEPT ![k] = TRUE]
    /\ exclusive_cache' = IF caches = {} THEN k ELSE NoCache
    /\ caches' = caches \cup {k}
    /\ Goto(t, "pop")
    /\ cls' = [cls EXCEPT ![t] = c]
    /\ UNCHANGED <<lists, bins, arena, headers, locks, blk, to, pending, program>>

\* calloc or pthread_mutex_init fails: malloc returns NULL.
MallocNoCache(t) ==
    /\ pc[t] = "idle"
    /\ tls[t] = NoCache
    /\ UNCHANGED vars

\* memx_heap_allocate_small takes the first block of the hot segment.
AllocateSmall(t) ==
    LET k == tls[t]
        c == cls[t]
        b == Head(local[k][c].blocks)
    IN  /\ pc[t] = "pop"
        /\ local[k][c].blocks # <<>>
        /\ local' = [local EXCEPT ![k][c] = Pop(@)]
        /\ owner' = [owner EXCEPT ![b] = k]
        /\ state' = [state EXCEPT ![b] = 1]
        /\ program' = program \cup {b}
        /\ Done(t)
        /\ UNCHANGED <<tls, shared, spare, remote, bins, arena, locks>>

\* memx_heap_refill: memx_heap_adopt_spare when the hot segment is dry.
AdoptSpare(t) ==
    LET k == tls[t]
        c == cls[t]
    IN  /\ pc[t] = "pop"
        /\ local[k][c].blocks = <<>>
        /\ spare[k][c].blocks # <<>>
        /\ local' = [local EXCEPT ![k][c] = spare[k][c]]
        /\ spare' = [spare EXCEPT ![k][c] = EmptySegment]
        /\ UNCHANGED <<tls, shared, remote, bins, arena, headers, locks,
                       frame, program>>

\* memx_heap_drain_remote takes the remote list under remote_lock ...
DrainTake(t) ==
    LET k == tls[t]
        c == cls[t]
    IN  /\ pc[t] = "pop"
        /\ local[k][c].blocks = <<>>
        /\ spare[k][c].blocks = <<>>
        /\ pending' = [pending EXCEPT ![t] = remote[k][c]]
        /\ remote' = [remote EXCEPT ![k][c] = <<>>]
        /\ Goto(t, "drain")
        /\ UNCHANGED <<tls, shared, local, spare, bins, arena, headers, locks,
                       cls, blk, to, program>>

\* ... and pushes it block by block, trimming after each.
DrainPush(t) ==
    /\ pc[t] = "drain"
    /\ pending[t] # <<>>
    /\ PushAndTrim(tls[t], cls[t], Head(pending[t]))
    /\ pending' = [pending EXCEPT ![t] = Tail(@)]
    /\ UNCHANGED <<tls, shared, remote, arena, headers, locks, pc, cls, blk, to,
                   program>>

DrainEnd(t) ==
    LET k == tls[t]
        c == cls[t]
    IN  /\ pc[t] = "drain"
        /\ pending[t] = <<>>
        /\ Goto(t, IF local[k][c].blocks = <<>> /\ spare[k][c].blocks = <<>>
                   THEN "lock" ELSE "pop")
        /\ UNCHANGED <<tls, shared, lists, bins, arena, headers, locks,
                       cls, blk, to, pending, program>>

LockClass(t) ==
    /\ pc[t] = "lock"
    /\ class_lock[cls[t]] = Unlocked
    /\ class_lock' = [class_lock EXCEPT ![cls[t]] = t]
    /\ Goto(t, "locked")
    /\ UNCHANGED <<tls, shared, lists, bins, arena, headers, arena_lock,
                   cls, blk, to, pending, program>>

\* The thread moves the top chunk of the bin to its hot segment.
RefillChunk(t) ==
    LET k == tls[t]
        c == cls[t]
        chunk == Head(central[c])
        hot == local[k][c]
    IN  /\ pc[t] = "locked"
        /\ central[c] # <<>>
        /\ central' = [central EXCEPT ![c] = Tail(@)]
        /\ central_count' = [central_count EXCEPT ![c] = @ - chunk.count]
        /\ local' = [local EXCEPT ![k][c] =
                [blocks |-> CutAt(chunk).blocks \o hot.blocks,
                 tail |-> IF hot.blocks = <<>> THEN chunk.tail ELSE hot.tail,
                 count |-> hot.count + chunk.count]]
        /\ class_lock' = [class_lock EXCEPT ![c] = Unlocked]
        /\ Goto(t, "pop")
        /\ UNCHANGED <<tls, shared, spare, remote, arena, headers, arena_lock,
                       cls, blk, to, pending, program>>

\* memx_heap_claim_span takes arena_lock inside the class lock.
LockArena(t) ==
    /\ pc[t] = "locked"
    /\ central[cls[t]] = <<>>
    /\ arena_lock = Unlocked
    /\ arena_lock' = t
    /\ Goto(t, "claim")
    /\ UNCHANGED <<tls, shared, lists, bins, arena, headers, class_lock,
                   cls, blk, to, pending, program>>

\* Mutant: one span too many.
ClaimOnePastEnd(t) ==
    /\ pc[t] = "claim"
    /\ next_span <= SpanCapacity
    /\ next_span' = next_span + 1
    /\ blk' = [blk EXCEPT ![t] = BlockOf(next_span, 0)]
    /\ arena_lock' = Unlocked
    /\ Goto(t, "carve")
    /\ UNCHANGED <<tls, shared, lists, bins, span_classes, headers, class_lock,
                   cls, to, pending, program>>

ClaimSpan(t) ==
    /\ pc[t] = "claim"
    /\ next_span < SpanCapacity
    /\ span_classes' = [span_classes EXCEPT ![next_span] = cls[t]]
    /\ next_span' = next_span + 1
    /\ blk' = [blk EXCEPT ![t] = BlockOf(next_span, 0)]
    /\ arena_lock' = Unlocked
    /\ Goto(t, "carve")
    /\ UNCHANGED <<tls, shared, lists, bins, headers, class_lock, cls, to,
                   pending, program>>

\* Mutant: an error return without unlocking.
ClaimFailLocked(t) ==
    /\ pc[t] = "claim"
    /\ Goto(t, "failed")
    /\ UNCHANGED <<tls, shared, lists, bins, arena, headers, locks,
                   cls, blk, to, pending, program>>

\* The arena is used up, or commit or memx_insert failed.
ClaimFail(t) ==
    /\ pc[t] = "claim"
    /\ arena_lock' = Unlocked
    /\ Goto(t, "failed")
    /\ UNCHANGED <<tls, shared, lists, bins, arena, headers, class_lock,
                   cls, blk, to, pending, program>>

\* The new span, still private to the holder of the class lock, is carved.
Carve(t) ==
    LET span == SpanOf(blk[t])
    IN  /\ pc[t] = "carve"
        /\ state' = [b \in Blocks |-> IF SpanOf(b) = span THEN 0 ELSE state[b]]
        /\ memx_heap_push_central_chunks(
                cls[t], CarvedChunks(span), BlocksPerSpan)
        /\ blk' = [blk EXCEPT ![t] = NoBlock]
        /\ Goto(t, "locked")
        /\ UNCHANGED <<tls, shared, lists, arena, owner, locks,
                       cls, to, pending, program>>

\* malloc returns NULL.
RefillFail(t) ==
    /\ pc[t] = "failed"
    /\ class_lock' = [class_lock EXCEPT ![cls[t]] = Unlocked]
    /\ Done(t)
    /\ UNCHANGED <<tls, shared, lists, bins, arena, headers, arena_lock, program>>

-----------------------------------------------------------------------------
(***************************************************************************)
(* Freeing.                                                                 *)
(***************************************************************************)

\* Mutant: the unchecked free leaves the header state alone.
FreeKeepsState(t, b) ==
    /\ pc[t] = "idle"
    /\ b \in program
    /\ program' = program \ {b}
    /\ cls' = [cls EXCEPT ![t] = span_classes[SpanOf(b)]]
    /\ blk' = [blk EXCEPT ![t] = b]
    /\ Goto(t, "route")
    /\ UNCHANGED <<tls, shared, lists, bins, arena, headers, locks, to, pending>>

\* memx_heap_free_unchecked: no lookup and no test of the header.
FreeUnchecked(t, b) ==
    /\ pc[t] = "idle"
    /\ b \in program
    /\ program' = program \ {b}
    /\ state' = [state EXCEPT ![b] = 0]
    /\ cls' = [cls EXCEPT ![t] = span_classes[SpanOf(b)]]
    /\ blk' = [blk EXCEPT ![t] = b]
    /\ Goto(t, "route")
    /\ UNCHANGED <<tls, shared, lists, bins, arena, owner, locks, to, pending>>

\* memx_heap_free finds the block through the index, under arena_lock.
FreeLookup(t, b) ==
    /\ pc[t] = "idle"
    /\ arena_lock = Unlocked
    /\ SpanOf(b) < next_span
    /\ cls' = [cls EXCEPT ![t] = span_classes[SpanOf(b)]]
    /\ blk' = [blk EXCEPT ![t] = b]
    /\ Goto(t, "cas")
    /\ UNCHANGED <<tls, shared, lists, bins, arena, headers, locks, to, pending,
                   program>>

\* Mutant: a plain store instead of the compare-and-swap.
FreeStores(t) ==
    /\ pc[t] = "cas"
    /\ state' = [state EXCEPT ![blk[t]] = 0]
    /\ program' = program \ {blk[t]}
    /\ Goto(t, "route")
    /\ UNCHANGED <<tls, shared, lists, bins, arena, owner, locks,
                   cls, blk, to, pending>>

\* memx_heap_release_small_checked: only one caller can take state from 1 to 0.
FreeCas(t) ==
    LET b == blk[t]
    IN  /\ pc[t] = "cas"
        /\ IF state[b] = 1
           THEN /\ state' = [state EXCEPT ![b] = 0]
                /\ program' = program \ {b}
                /\ Goto(t, "route")
                /\ UNCHANGED <<cls, blk, to, pending>>
           ELSE /\ Done(t)
                /\ UNCHANGED <<state, program>>
        /\ UNCHANGED <<tls, shared, lists, bins, arena, owner, locks>>

\* The owner memx_heap_route_small works with.
RouteOwner(t) ==
    IF tls[t] # NoCache /\ tls[t] = exclusive_cache THEN tls[t]
                                                    ELSE owner[blk[t]]

RouteLocal(t) ==
    /\ pc[t] = "route"
    /\ tls[t] # NoCache
    /\ RouteOwner(t) = tls[t]
    /\ PushAndTrim(tls[t], cls[t], blk[t])
    /\ Done(t)
    /\ UNCHANGED <<tls, shared, remote, arena, headers, locks, program>>

\* Another thread owns the block: its cache is remembered, then locked.
RouteAway(t) ==
    /\ pc[t] = "route"
    /\ tls[t] = NoCache \/ RouteOwner(t) # tls[t]
    /\ to' = [to EXCEPT ![t] = RouteOwner(t)]
    /\ Goto(t, IF RouteOwner(t) = NoCache THEN "central" ELSE "remote")
    /\ UNCHANGED <<tls, shared, lists, bins, arena, headers, locks, cls, blk,
                   pending, program>>

\* Mutant: accepting_remote is not read.
RouteRemoteAlways(t) ==
    /\ pc[t] = "remote"
    /\ remote' = [remote EXCEPT ![to[t]][cls[t]] = <<blk[t]>> \o @]
    /\ Done(t)
    /\ UNCHANGED <<tls, shared, local, spare, bins, arena, headers, locks, program>>

RouteRemote(t) ==
    /\ pc[t] = "remote"
    /\ IF accepting_remote[to[t]]
       THEN /\ remote' = [remote EXCEPT ![to[t]][cls[t]] = <<blk[t]>> \o @]
            /\ Done(t)
       ELSE /\ Goto(t, "central")
            /\ UNCHANGED <<remote, cls, blk, to, pending>>
    /\ UNCHANGED <<tls, shared, local, spare, bins, arena, headers, locks, program>>

RouteCentral(t) ==
    /\ pc[t] = "central"
    /\ class_lock[cls[t]] = Unlocked
    /\ memx_heap_push_central_chunks(cls[t], <<Single(blk[t])>>, 1)
    /\ Done(t)
    /\ UNCHANGED <<tls, shared, lists, arena, headers, locks, program>>

-----------------------------------------------------------------------------
(***************************************************************************)
(* memx_heap_thread_detach: the cache leaves the TLS, stops accepting and   *)
(* absorbs its remote lists under remote_lock, then gives every block to    *)
(* the central bins, one class lock after the other.                        *)
(***************************************************************************)
Absorb(segment, blocks) ==
    [blocks |-> Reverse(blocks) \o segment.blocks,
     tail |-> segment.tail,
     count |-> segment.count + Len(blocks)]

Detach(t) ==
    LET k == tls[t]
    IN  /\ pc[t] = "idle"
        /\ k # NoCache
        /\ tls' = [tls EXCEPT ![t] = NoCache]
        /\ accepting_remote' = [accepting_remote EXCEPT ![k] = FALSE]
        /\ local' = [local EXCEPT ![k] =
                [c \in Classes |-> Absorb(local[k][c], remote[k][c])]]
        /\ remote' = [remote EXCEPT ![k] = [c \in Classes |-> <<>>]]
        /\ to' = [to EXCEPT ![t] = k]
        /\ cls' = [cls EXCEPT ![t] = 0]
        /\ Goto(t, "detach")
        /\ UNCHANGED <<caches, exclusive_cache, spare, bins, arena, headers,
                       locks, blk, pending, program>>

DetachClass(t) ==
    LET k == to[t]
        c == cls[t]
        blocks == local[k][c].blocks \o spare[k][c].blocks
    IN  /\ pc[t] = "detach"
        /\ class_lock[c] = Unlocked
        /\ memx_heap_push_central_chunks(c, Singles(blocks), Len(blocks))
        /\ local' = [local EXCEPT ![k][c] = EmptySegment]
        /\ spare' = [spare EXCEPT ![k][c] = EmptySegment]
        /\ IF c + 1 < ClassCount
           THEN cls' = [cls EXCEPT ![t] = c + 1] /\ UNCHANGED <<pc, blk, to, pending>>
           ELSE Done(t)
        /\ UNCHANGED <<tls, shared, remote, arena, headers, locks, program>>

-----------------------------------------------------------------------------
\* The program calls the heap from thread t.
Call(t) ==
    \/ \E c \in Classes : Malloc(t, c)
    \/ \E c \in Classes, k \in Caches : MallocNewCache(t, c, k)
    \/ MallocNoCache(t)
    \/ \E b \in Blocks : FreeUnchecked(t, b)
    \/ \E b \in Blocks : FreeLookup(t, b)
    \/ Detach(t)

\* Thread t goes on inside a call.
Step(t) ==
    \/ AllocateSmall(t)
    \/ AdoptSpare(t)
    \/ DrainTake(t)
    \/ DrainPush(t)
    \/ DrainEnd(t)
    \/ LockClass(t)
    \/ RefillChunk(t)
    \/ LockArena(t)
    \/ ClaimSpan(t)
    \/ ClaimFail(t)
    \/ Carve(t)
    \/ RefillFail(t)
    \/ FreeCas(t)
    \/ RouteLocal(t)
    \/ RouteAway(t)
    \/ RouteRemote(t)
    \/ RouteCentral(t)
    \/ DetachClass(t)

Next == \E t \in Threads : Call(t) \/ Step(t)

Spec == Init /\ [][Next]_vars

\* Inside a call every thread is scheduled; nobody has to make another call.
FairSpec == Spec /\ \A t \in Threads : WF_vars(Step(t))

-----------------------------------------------------------------------------
(***************************************************************************)
(* Properties.                                                              *)
(***************************************************************************)
Positions(blocks, b) == {i \in DOMAIN blocks : blocks[i] = b}

Detaching(k) == \E t \in Threads : pc[t] = "detach" /\ to[t] = k

\* Threads that carry block b between two places.
Carrying(b) ==
    {t \in Threads : pc[t] \in {"route", "remote", "central"} /\ blk[t] = b}

\* Where block b is found in a list: the kind of list, its class, the list and
\* the position in it.
Listed(b) ==
    UNION {
        UNION {{<<"local", c, k, i>> : i \in Positions(local[k][c].blocks, b)} :
            k \in Caches, c \in Classes},
        UNION {{<<"spare", c, k, i>> : i \in Positions(spare[k][c].blocks, b)} :
            k \in Caches, c \in Classes},
        UNION {{<<"remote", c, k, i>> : i \in Positions(remote[k][c], b)} :
            k \in Caches, c \in Classes},
        UNION {UNION {{<<"central", c, n, i>> :
                            i \in Positions(central[c][n].blocks, b)} :
                    n \in DOMAIN central[c]} : c \in Classes},
        UNION {{<<"pending", cls[t], t, i>> : i \in Positions(pending[t], b)} :
            t \in Threads}}

\* The places block b is found in, the hands of threads and of the program
\* included.
Found(b) ==
    Listed(b)
    \cup {<<"carried", t>> : t \in Carrying(b)}
    \cup {<<"program">> : held \in program \cap {b}}

\* Blocks of spans whose carving is complete.
Carved == {b \in Blocks :
    /\ SpanOf(b) < next_span
    /\ ~\E t \in Threads : pc[t] = "carve" /\ SpanOf(blk[t]) = SpanOf(b)}

\* No block is lost and none is handed out twice: through refills, remote
\* frees, spare flushes, detaches and double frees, every carved block is in
\* exactly one place, nothing is found of a span that is not carved, and the
\* lists of a class hold blocks of that class only.
BlocksConserved ==
    \A b \in Blocks :
        /\ Cardinality(Found(b)) = IF b \in Carved THEN 1 ELSE 0
        /\ \A place \in Listed(b) : place[2] = span_classes[SpanOf(b)]

\* The header state tells the checked free the truth: a block is marked
\* allocated exactly while the program holds it.  The assertion in
\* memx_heap_allocate_small rests on this.
StateTracksProgram == \A b \in Blocks : state[b] = 1 <=> b \in program

\* The tail pointer and the count beside a list describe the list.
Sound(segment) ==
    /\ segment.count = Len(segment.blocks)
    /\ segment.tail = IF segment.blocks = <<>> THEN NoBlock
                                               ELSE Last(segment.blocks)

\* Lists are spliced by their tail and counted without a walk, so a stale tail
\* or count would lose or duplicate blocks: tail and count are right in every
\* cache that is not being detached and in every central chunk.
SegmentsSound ==
    /\ \A k \in Caches, c \in Classes :
            ~Detaching(k) => Sound(local[k][c]) /\ Sound(spare[k][c])
    /\ \A c \in Classes : \A i \in 1 .. Len(central[c]) : Sound(central[c][i])

\* cache_limit bounds the two segments of a cache together, although refills
\* take whole chunks and a drain pushes a whole remote queue, and a thread about
\* to push a block has room for it, which is the assertion of
\* memx_heap_trim_cache.
CacheBounded ==
    /\ \A k \in Caches, c \in Classes :
            ~Detaching(k) => local[k][c].count + spare[k][c].count <= CacheLimit
    /\ \A t \in Threads, c \in Classes :
            (tls[t] # NoCache /\ ~(pc[t] = "pop" /\ cls[t] = c)) =>
                local[tls[t]][c].count < CacheLimit

\* Type invariant: spans are claimed within the arena, links lead to blocks, and
\* the counts of chunks and of spare segments fit their 32 bits whatever the
\* cache limit, so that a flush never overwrites a spare it could not count.
TypeOK ==
    /\ VariablesTyped
    /\ \A k \in Caches, c \in Classes :
            ~Detaching(k) => spare[k][c].count <= CountMax
    /\ \A c \in Classes : \A i \in 1 .. Len(central[c]) :
            central[c][i].count \in 1 .. CountMax

\* The fast path of memx_heap_route_small does not read the block: while a
\* thread holds the exclusive cache, every block in use belongs to it.
ExclusiveOwnsAll ==
    \A t \in Threads :
        (tls[t] # NoCache /\ tls[t] = exclusive_cache) =>
            \A b \in Blocks :
                (b \in program \/ Carrying(b) # {}) => owner[b] = tls[t]

\* A detached cache keeps nothing: no late remote free lands in a list nobody
\* will drain, whatever the order of the free and the detach.
NothingStranded ==
    \A k \in Caches :
        (~\E t \in Threads : tls[t] = k) =>
            \A c \in Classes :
                /\ remote[k][c] = <<>>
                /\ ~Detaching(k) => /\ local[k][c].blocks = <<>>
                                    /\ spare[k][c].blocks = <<>>

AllIdle == \A t \in Threads : pc[t] = "idle"
Completion == \E t \in Threads : pc[t] # "idle" /\ pc'[t] = "idle"

\* The locks never wedge the heap: calls keep returning, or there comes a time
\* when no thread is inside one.
CallsReturn == []<><<Completion>>_vars \/ <>[]AllIdle
=============================================================================
