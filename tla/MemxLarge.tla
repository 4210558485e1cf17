------------------------------ MODULE MemxLarge ------------------------------
(***************************************************************************)
(* Large allocations of the MEMX heap (src/memx/src/allocator/heap.c): one  *)
(* mapping each, found again by address in a chained hash table that grows  *)
(* and shrinks, and the live and peak byte counters.  Activity statistics   *)
(* are on (config.collect_activity_statistics).                             *)
(*                                                                          *)
(* The table is touched only under admin_lock, so each of those sections is *)
(* one step.  The mapping is made before and released after the section,    *)
(* and the counters are separate atomic operations, so other threads run in *)
(* between.                                                                 *)
(*                                                                          *)
(* The program gives up a pointer when it passes it to free or to realloc.  *)
(* A pointer the heap does not know may be passed to the checked free.      *)
(***************************************************************************)
EXTENDS Integers, Sequences, FiniteSets, SequencesExt

CONSTANTS
    Threads,
    Addresses,     \* where the system may place a mapping
    NoAddress,     \* NULL
    Hash,          \* the mixed address, before it is masked
    Sizes,         \* request sizes
    MinBuckets     \* MEMX_HEAP_LARGE_MIN_BUCKETS

ASSUME LargeAssumption ==
    /\ IsFiniteSet(Threads)
    /\ NoAddress \notin Addresses
    /\ Hash \in [Addresses -> Nat]
    /\ Sizes \subseteq Nat \ {0}
    /\ MinBuckets \in Nat \ {0}

VARIABLES
    mapped,               \* addresses the system has mapped
    requested_size,       \* of the record at each address
    large_buckets,        \* the records chained in each bucket; <<>> when the
                          \* table is NULL
    large_count,
    live_requested,       \* live_requested_bytes
    peak_live,            \* peak_live_requested_bytes
    program,              \* pointers the program holds
    pc, ptr, amount, other, seen   \* per thread: its frame

table == <<large_buckets, large_count, requested_size>>
counts == <<live_requested, peak_live>>
frame == <<pc, ptr, amount, other, seen>>
vars == <<mapped, table, counts, program, frame>>

large_bucket_count == Len(large_buckets)

Init ==
    /\ mapped = {}
    /\ requested_size = [a \in Addresses |-> 0]
    /\ large_buckets = <<>>
    /\ large_count = 0
    /\ live_requested = 0
    /\ peak_live = 0
    /\ program = {}
    /\ pc = [t \in Threads |-> "idle"]
    /\ ptr = [t \in Threads |-> NoAddress]
    /\ amount = [t \in Threads |-> 0]
    /\ other = [t \in Threads |-> NoAddress]
    /\ seen = [t \in Threads |-> 0]

Goto(t, l) == pc' = [pc EXCEPT ![t] = l]

\* The other pointer of a realloc, which the call gives back.
Kept(t) == {other[t]} \ {NoAddress}

\* The call returns: the thread's frame is gone.
Done(t) ==
    /\ pc' = [pc EXCEPT ![t] = "idle"]
    /\ ptr' = [ptr EXCEPT ![t] = NoAddress]
    /\ amount' = [amount EXCEPT ![t] = 0]
    /\ other' = [other EXCEPT ![t] = NoAddress]
    /\ seen' = [seen EXCEPT ![t] = 0]

-----------------------------------------------------------------------------
(***************************************************************************)
(* The table.  Buckets are numbered from 1 here.  A record is a member of   *)
(* its chain: where in the chain it is makes no difference to any caller.   *)
(***************************************************************************)
memx_heap_large_bucket(a, count) == 1 + (Hash[a] % count)

\* Mutant: the records stay in the bucket the old table had them in.
RehashByOldBucket(buckets, count) ==
    [b \in 1 .. count |-> IF b <= Len(buckets) THEN buckets[b] ELSE {}]

\* The records in all chains of a table.
Records(buckets) == UNION Range(buckets)

\* The walk over the old chains, each record put into its new chain.
memx_heap_large_rehash_locked(buckets, count) ==
    [b \in 1 .. count |->
        {a \in Records(buckets) : memx_heap_large_bucket(a, count) = b}]

\* The table memx_heap_large_reserve_locked leaves when it succeeds.
memx_heap_large_reserve_locked ==
    IF large_count < large_bucket_count THEN large_buckets
    ELSE memx_heap_large_rehash_locked(large_buckets,
            IF large_bucket_count = 0 THEN MinBuckets
                                      ELSE large_bucket_count * 2)

Pushed(buckets, a) ==
    [buckets EXCEPT ![memx_heap_large_bucket(a, Len(buckets))] = @ \cup {a}]

\* memx_heap_find_large_locked: only the chain of a's bucket is searched.
memx_heap_find_large_locked(a) ==
    /\ large_bucket_count # 0
    /\ a \in large_buckets[memx_heap_large_bucket(a, large_bucket_count)]

(***************************************************************************)
(* Tables memx_heap_large_shrink_locked may leave when count records are in *)
(* buckets: a failed rehash keeps the old one.                              *)
(***************************************************************************)
memx_heap_large_shrink_locked(buckets, count) ==
    IF count = 0 THEN {<<>>}
    ELSE IF Len(buckets) > MinBuckets /\ count <= Len(buckets) \div 4
    THEN {buckets, memx_heap_large_rehash_locked(buckets, Len(buckets) \div 2)}
    ELSE {buckets}

-----------------------------------------------------------------------------
(***************************************************************************)
(* memx_heap_allocate_large.                                                *)
(***************************************************************************)

\* The record and the mapping, both private to the thread.
MapLarge(t, a, size) ==
    /\ a \notin mapped
    /\ mapped' = mapped \cup {a}
    /\ ptr' = [ptr EXCEPT ![t] = a]
    /\ amount' = [amount EXCEPT ![t] = size]
    /\ Goto(t, "mapped")
    /\ UNCHANGED <<table, counts, seen>>

Allocate(t, a, size) ==
    /\ pc[t] = "idle"
    /\ MapLarge(t, a, size)
    /\ UNCHANGED <<other, program>>

\* calloc or mmap fails: NULL.
AllocateFails(t) ==
    /\ pc[t] = "idle"
    /\ UNCHANGED vars

\* The section under admin_lock: room is made, the record is published.
Publish(t) ==
    /\ pc[t] = "mapped"
    /\ large_buckets' = Pushed(memx_heap_large_reserve_locked, ptr[t])
    /\ large_count' = large_count + 1
    /\ requested_size' = [requested_size EXCEPT ![ptr[t]] = amount[t]]
    /\ Goto(t, "count")
    /\ UNCHANGED <<mapped, counts, program, ptr, amount, other, seen>>

\* The rehash cannot allocate: the mapping is released, NULL is returned, and
\* a realloc that asked for it leaves the old allocation with the caller.
PublishFails(t) ==
    /\ pc[t] = "mapped"
    /\ large_count >= large_bucket_count
    /\ Goto(t, "unwind")
    /\ UNCHANGED <<mapped, table, counts, program, ptr, amount, other, seen>>

\* Mutant: the unwinding forgets the mapping.
UnwindKeepsMapping(t) ==
    /\ pc[t] = "unwind"
    /\ program' = program \cup Kept(t)
    /\ Done(t)
    /\ UNCHANGED <<mapped, table, counts>>

Unwind(t) ==
    /\ pc[t] = "unwind"
    /\ mapped' = mapped \ {ptr[t]}
    /\ program' = program \cup Kept(t)
    /\ Done(t)
    /\ UNCHANGED <<table, counts>>

\* memx_heap_add_live_counted: the fetch_add, then memx_heap_update_peak.
AddLive(t) ==
    /\ pc[t] = "count"
    /\ live_requested' = live_requested + amount[t]
    /\ amount' = [amount EXCEPT ![t] = live_requested + amount[t]]
    /\ Goto(t, "peak")
    /\ UNCHANGED <<mapped, table, peak_live, program, ptr, other, seen>>

PeakLoad(t) ==
    /\ pc[t] = "peak"
    /\ seen' = [seen EXCEPT ![t] = peak_live]
    /\ Goto(t, "cas")
    /\ UNCHANGED <<mapped, table, counts, program, ptr, amount, other>>

\* After the peak is settled the pointer is returned to the program, or a
\* realloc goes on to free the old allocation, its replacement in hand.
Returned(t) ==
    IF other[t] = NoAddress
    THEN program' = program \cup {ptr[t]} /\ Done(t)
    ELSE /\ Goto(t, "size")
         /\ ptr' = [ptr EXCEPT ![t] = other[t]]
         /\ other' = [other EXCEPT ![t] = ptr[t]]
         /\ amount' = [amount EXCEPT ![t] = 0]
         /\ seen' = [seen EXCEPT ![t] = 0]
         /\ UNCHANGED program

\* Mutant: load, compare and store instead of the compare-and-swap.
PeakStore(t) ==
    /\ pc[t] = "cas"
    /\ peak_live' = IF amount[t] > seen[t] THEN amount[t] ELSE peak_live
    /\ Returned(t)
    /\ UNCHANGED <<mapped, table, live_requested>>

\* One evaluation of the loop condition; the weak exchange may also fail
\* without reason, which leaves everything as it is.
PeakCas(t) ==
    /\ pc[t] = "cas"
    /\ IF amount[t] > seen[t] /\ peak_live # seen[t]
       THEN /\ seen' = [seen EXCEPT ![t] = peak_live]
            /\ UNCHANGED <<program, pc, ptr, amount, other, peak_live>>
       ELSE /\ peak_live' = IF amount[t] > seen[t] THEN amount[t] ELSE peak_live
            /\ Returned(t)
    /\ UNCHANGED <<mapped, table, live_requested>>

-----------------------------------------------------------------------------
(***************************************************************************)
(* memx_heap_free on a pointer outside the arena.                           *)
(***************************************************************************)
Free(t, a) ==
    /\ pc[t] = "idle"
    /\ a \in program
    /\ program' = program \ {a}
    /\ ptr' = [ptr EXCEPT ![t] = a]
    /\ Goto(t, "size")
    /\ UNCHANGED <<mapped, table, counts, amount, other, seen>>

\* A pointer the table does not hold is refused.
FreeUnknown(t, a) ==
    /\ pc[t] = "idle"
    /\ ~memx_heap_find_large_locked(a)
    /\ UNCHANGED vars

\* The section under admin_lock: the record is unlinked, the table may shrink.
\* When it is not found the free fails, and a realloc frees its replacement.
Unlink(t) ==
    LET a == ptr[t]
        b == memx_heap_large_bucket(a, large_bucket_count)
    IN  /\ pc[t] = "size"
        /\ IF memx_heap_find_large_locked(a)
           THEN /\ large_buckets' \in memx_heap_large_shrink_locked(
                        [large_buckets EXCEPT ![b] = @ \ {a}],
                        large_count - 1)
                /\ large_count' = large_count - 1
                /\ Goto(t, "sub")
                /\ UNCHANGED <<requested_size, ptr, amount, other, seen>>
           ELSE /\ IF Kept(t) = {}
                   THEN Done(t)
                   ELSE /\ ptr' = [ptr EXCEPT ![t] = other[t]]
                        /\ other' = [other EXCEPT ![t] = NoAddress]
                        /\ UNCHANGED <<pc, amount, seen>>
                /\ UNCHANGED table
        /\ UNCHANGED <<mapped, counts, program>>

\* The record is private again: its size leaves the live count ...
SubLive(t) ==
    /\ pc[t] = "sub"
    /\ live_requested' = live_requested - requested_size[ptr[t]]
    /\ Goto(t, "release")
    /\ UNCHANGED <<mapped, table, peak_live, program, ptr, amount, other, seen>>

\* ... and the mapping and the record go.
Release(t) ==
    /\ pc[t] = "release"
    /\ mapped' = mapped \ {ptr[t]}
    /\ requested_size' = [requested_size EXCEPT ![ptr[t]] = 0]
    /\ program' = program \cup Kept(t)
    /\ Done(t)
    /\ UNCHANGED <<large_buckets, large_count, counts>>

-----------------------------------------------------------------------------
(***************************************************************************)
(* memx_heap_realloc of a large allocation.                                 *)
(***************************************************************************)

\* memx_heap_resize_in_place: a request that is not larger only changes the
\* record; the difference leaves the live count after the lock is released.
ResizeInPlace(t, a, size) ==
    /\ pc[t] = "idle"
    /\ a \in program
    /\ memx_heap_find_large_locked(a)
    /\ size <= requested_size[a]
    /\ requested_size' = [requested_size EXCEPT ![a] = size]
    /\ amount' = [amount EXCEPT ![t] = requested_size[a] - size]
    /\ ptr' = [ptr EXCEPT ![t] = a]
    /\ program' = program \ {a}
    /\ Goto(t, "discount")
    /\ UNCHANGED <<mapped, large_buckets, large_count, counts, other, seen>>

Discount(t) ==
    /\ pc[t] = "discount"
    /\ live_requested' = live_requested - amount[t]
    /\ program' = program \cup {ptr[t]}
    /\ Done(t)
    /\ UNCHANGED <<mapped, table, peak_live>>

\* A larger request allocates, copies and frees the old allocation.
Grow(t, a, new, size) ==
    /\ pc[t] = "idle"
    /\ a \in program
    /\ memx_heap_find_large_locked(a)
    /\ size > requested_size[a]
    /\ program' = program \ {a}
    /\ other' = [other EXCEPT ![t] = a]
    /\ MapLarge(t, new, size)

-----------------------------------------------------------------------------
AllIdle == \A t \in Threads : pc[t] = "idle"

\* The large part of memx_heap_destroy, when no thread uses the heap: every
\* record found through the table is released with its mapping.
Destroy ==
    /\ AllIdle
    /\ mapped' = mapped \ Records(large_buckets)
    /\ large_buckets' = <<>>
    /\ large_count' = 0
    /\ requested_size' = [a \in Addresses |-> 0]
    /\ live_requested' = 0
    /\ peak_live' = 0
    /\ program' = {}
    /\ UNCHANGED frame

Call(t) ==
    \/ \E a \in Addresses, size \in Sizes : Allocate(t, a, size)
    \/ AllocateFails(t)
    \/ \E a \in Addresses : Free(t, a)
    \/ \E a \in Addresses : FreeUnknown(t, a)
    \/ \E a \in Addresses, size \in Sizes : ResizeInPlace(t, a, size)
    \/ \E a, new \in Addresses, size \in Sizes : Grow(t, a, new, size)

Step(t) ==
    \/ Publish(t)
    \/ PublishFails(t)
    \/ Unwind(t)
    \/ AddLive(t)
    \/ PeakLoad(t)
    \/ PeakCas(t)
    \/ Unlink(t)
    \/ SubLive(t)
    \/ Release(t)
    \/ Discount(t)

Next == Destroy \/ \E t \in Threads : Call(t) \/ Step(t)

Spec == Init /\ [][Next]_vars

-----------------------------------------------------------------------------
(***************************************************************************)
(* Properties.                                                              *)
(***************************************************************************)
Linked == Records(large_buckets)

\* Records a thread has unlinked and not yet released, or not yet published.
Private(t) ==
    IF pc[t] \in {"mapped", "unwind", "sub", "release"} THEN {ptr[t]} ELSE {}

\* Every allocation the program holds is found by its address, whatever
\* growing, shrinking and failing to do so the table went through: a record is
\* in exactly one chain, that of its bucket, and large_count counts them.
LargeIndexExact ==
    /\ \A a \in program : memx_heap_find_large_locked(a)
    /\ Cardinality(Linked) = large_count
    /\ \A b, c \in 1 .. large_bucket_count :
           b # c => large_buckets[b] \cap large_buckets[c] = {}
    /\ \A a \in Linked : memx_heap_find_large_locked(a)
    /\ large_count <= large_bucket_count
    /\ large_count = 0 => large_bucket_count = 0

\* A mapping is released once, when nothing refers to it any more: what the
\* system has mapped is what the table holds and what threads hold privately,
\* and no two of them hold the same.
MappingsConserved ==
    /\ mapped = Linked \cup (UNION {Private(t) : t \in Threads})
    /\ \A t \in Threads : Private(t) \cap Linked = {}
    /\ \A t, u \in Threads : t # u => Private(t) \cap Private(u) = {}

SumSizes(addresses) == SumFunctionOnSet(requested_size, addresses)

\* What each thread has changed and not yet told live_requested_bytes.
Unaccounted == [t \in Threads |->
    CASE pc[t] = "count" -> -amount[t]
      [] pc[t] = "sub" -> requested_size[ptr[t]]
      [] pc[t] = "discount" -> amount[t]
      [] OTHER -> 0]

\* The part of memx_heap_get_stats about large allocations.
memx_heap_get_stats ==
    [live_requested_bytes |-> live_requested,
     peak_live_requested_bytes |-> peak_live,
     active_large_allocations |-> large_count,
     large_index_buckets |-> large_bucket_count]

Quiescent == \A t \in Threads : pc[t] = "idle"

\* live_requested_bytes is the sum of the sizes of the allocations, up to the
\* updates threads are about to make, and never drops below zero, where the
\* unsigned counter would wrap.
LiveSummed ==
    /\ live_requested >= 0
    /\ live_requested = SumSizes(Linked) + SumFunctionOnSet(Unaccounted, Threads)
    /\ Quiescent =>
           /\ memx_heap_get_stats.live_requested_bytes = SumSizes(program)
           /\ memx_heap_get_stats.peak_live_requested_bytes >= SumSizes(program)

\* The peak covers the live bytes once the threads that raised them have
\* finished memx_heap_update_peak, in any order.
PeakCovers ==
    (\A t \in Threads : pc[t] \notin {"peak", "cas"}) => peak_live >= live_requested

\* The snapshot of a quiescent heap counts what the program holds, and a table
\* exists exactly while it holds something.
CountsProgram ==
    Quiescent =>
        /\ memx_heap_get_stats.active_large_allocations = Cardinality(program)
        /\ memx_heap_get_stats.large_index_buckets = 0 <=> program = {}

\* What memx_heap_get_stats tells of large allocations is the truth, however
\* the counters' separate atomic operations interleave.
LiveExact == LiveSummed /\ PeakCovers /\ CountsProgram
=============================================================================
