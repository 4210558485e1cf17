# Verification of MEMX

TLA+ models of the MEMX library (`src/memx`): an index that maps addresses to
owner handles, a thread-caching heap allocator built on it, and the programs around
them that have logic of their own: the malloc interposer, the trace validator and the
comparison indexes. TLC checks the
models on small instances; TLAPS proves every safety property that the runs check, of all of them, for
every instance. What is only model-checked is liveness. `PROJECT.json` lists the components, the runs, the source lines
behind every definition, the hazards and the theorems.

## 1. Inventory of the system

| Component | State it keeps | Operations | What is hard | Correct when |
|---|---|---|---|---|
| Ownership index (`memx.c`, `memx.h`) | directory of one-word descriptors (EMPTY, UNIFORM inline handle, DENSE table), sparse leaves, region counters, flat table or frozen overlay | create, destroy, insert, remove, lookup, optimize, optimize_overlay, views, stats | metadata allocation may fail at any region of a mutation; the last region of the address space has no representable end; representation changes | a mutation happens entirely or not at all; every lookup path gives the same answer; no block is leaked; statistics are true |
| Configuration (`memx_validate_config`, `memx_index_create`) | geometry fields | create | shifts, bases and products that wrap; six unwinding returns | what is accepted can be used, what is refused leaves nothing |
| Heap, small blocks (`heap.c`) | per-thread caches of two segments per class, remote queues, central bins of chunks, spans of the arena, block states | malloc, checked and unchecked free, thread_detach | remote frees race detaches; racing double frees; the exclusive-cache shortcut; lists spliced by tail and count; nested locks | every block is in exactly one place; a cache no thread has keeps nothing; limits hold; calls return |
| Heap, large blocks | chained hash table of mappings, live and peak counters | malloc, free, realloc, destroy | table grows and shrinks under live blocks and may fail to; counters outside the lock | each mapping is found and released once; counters are exact |
| Heap and cache lifetimes | locks, arena, side table, index, thread-local cache list and its one-entry shortcut | heap_create, find/create cache, detach, heap_destroy | any acquisition fails; addresses are reused while a thread keeps a pointer | nothing is leaked or released twice; the cache found is the caller's own |
| Size classes, spans, realloc decisions | class table, side table | malloc, aligned_alloc, calloc, realloc, usable_size, block lookup | leading-zero arithmetic, leftovers at span ends, overflow of calloc | smallest class that fits; pointers map back to their blocks |
| OS mappings (`os_linux.c`, `memx_overlay_allocate`) | mapped and writable address ranges, the cached huge-page size | reserve, commit, large_allocate, release, overlay map/protect, probe | alignment and guard pages at the ends of the address space; racing probes | payloads are aligned and inside; nothing stays mapped |
| Malloc interposer (`memx_malloc_shim.c`) | bootstrap arena and its bump counter, the published heap, `pthread_once`, a thread-local busy flag | malloc, calloc, realloc, free, aligned allocations, usable_size | the heap calls the functions it serves; first use races; ownership is decided by address | no byte is handed out twice, the heap is not re-entered, pointers go back where they came from, calls return |
| Allocation traces (`trace.c`, `memx_trace_replay.c`) | loaded events, the oracle's hash table, statistics, the two replayed indexes | read, validate, validate_lifecycle, calculate_stats, replay | tombstones in a table that never rehashes; failures in the middle of a load; rounding of the covered range | oracle and index agree on every accepted trace; a load is all or nothing |
| Baseline indexes (`baselines.c`) | flat, two-level and radix tables, the leaf cache, allocation counters | create, set, lookup, cached lookup, destroy, size reports | a set that fails half way; cached leaves; geometries that are no power of two | they answer like a map and report what they hold |
| Benchmark drivers, fuzz drivers, tools | see `PROJECT.json` | | | not modelled, section 8 |

How they interact. The heap owns one bounded index over its arena and calls
`memx_insert` once per span under `arena_lock` and `memx_lookup_address` on the
checked paths; it never removes. Threads share a heap through three lock domains (class
locks, of which one at a time may be held while `arena_lock` is taken;
`arena_lock`; `admin_lock`), through each cache's `remote_lock`, and through atomics
(block state, `exclusive_cache`, counters, the huge-page cache). The index itself is
not synchronised: its callers serialise mutations against everything else. The interposer
puts one heap behind the allocation functions of a process and is called back by it; the
trace replayer compares both kinds of index with an oracle of its own. There is
no persistence and no message passing, so there are no crash or delivery
behaviours; failure means an allocation, a lock or a mapping that cannot be had.

## 2. Modules

| Module | Models | State and actions |
|---|---|---|
| `MemxAddress` | range checks and region arithmetic of `memx.c` | operators on words `0..WordMax`; addresses keep their width, so the end of the last region wraps as in C |
| `MemxMap` | abstract specification of the index | a function from granules to handles; a mutation begins, is applied to its whole range at one point or fails, and returns |
| `MemxIndex` | `memx.c` | descriptors, leaves, tables, counters, `live` words of metadata; one action per region of the prepare and commit loops, each with its out-of-memory alternative; conversion, destroy and views; the inlined lookups of `memx.h` and `memx_bench.c` beside the checked one. Refines `MemxMap` (`ImplementsMap`) |
| `MemxConfig` | `memx_validate_config`, `memx_index_create` | one step per allocation and per group of guards; sizes modulo the word |
| `MemxHeap` | small blocks of `heap.c` | one step per critical section or per thread-private stretch between two; `class_lock` and `arena_lock` are variables because they nest |
| `MemxLarge` | large blocks, live and peak counters, `memx_heap_get_stats` of them | mapping, locked section and each atomic operation are separate steps; a bucket is the set of its records, since a search follows a chain to its end whatever its order |
| `MemxHeapLife` | `memx_heap_create`, `_destroy`, caches of several heaps | a set of resources in existence; one step per acquisition with its error return; heap and cache addresses are reused |
| `MemxClasses` | class arithmetic, configuration checks of the heap, span geometry, block lookup, realloc decisions | the real class table, header sizes and alignment; extends `MemxConfig`, whose steps are taken for the index over the arena of every accepted heap, wherever the arena was placed |
| `MemxPowers` | `1 << k` | a recursive function, because the provers know nothing of `^` |
| `MemxMapping` | `os_linux.c`, overlay reservation, arena commit | sets of mapped and writable bytes; `mmap` may place a mapping at any free page |
| `MemxShim` | `memx_malloc_shim.c` | per thread a stack of the calls it is in, so that the heap can call the shim from inside; the load and the exchange of the bump counter are separate steps. The heap is the abstract one that `MemxHeap` and `MemxLarge` justify |
| `MemxTrace` | `trace.c`, `memx_trace_replay.c` | one action per line of a file, and per event every pass over it; instantiates `MemxMap` for the two replayed indexes and `MemxConfig` for the configuration the replay derives |
| `MemxBaselines` | `baselines.c` | an action per create, set and destroy, and one per allocation in them that may fail |
| `MemxHandles` | what the two share | words, handles and `MEMX_HANDLE_INVALID` |
| `MCMemx*` | instances | values for sets, symmetry |
| `MemxArithmetic` | | lemmas the proofs share: induction, division, powers of two, sums over finite sets |
| `MemxHeapProofs` | | proofs about `MemxHeap`: lists, limits and ownership of caches; then the blocks (section 5) |
| `MemxIndexProofs` | | proofs about `MemxIndex`: its invariant, that it implements `MemxMap`, its statistics |
| `MemxGeometryProofs` | | proofs about `MemxConfig` and `MemxClasses` |
| `MemxHeapLifeProofs`, `MemxLargeProofs`, `MemxMappingProofs` | | proofs about the modules they are named after |
| `MemxBenchProofs` | | proofs about the programs in `bench/`, in three parts: `MemxShim`, `MemxTrace`, `MemxBaselines` |

A definition with the name of a source function models that function; a comment
beginning with "Mutant" marks a deliberately wrong variant used to show that a
property can fail.

Contracts of the callers, taken from the headers, are guards: unchecked free and realloc
get live pointers, and no other call on the same block runs beside them; a heap is destroyed after the other threads have detached; index
calls do not overlap. The checked free accepts any block address, stale ones too.

## 3. Runs

Most run in at most a minute with two workers, `large`, `classes` and `shim` in about 90 seconds,
`trace` in two and a half minutes.

| Run | Instance | Shows |
|---|---|---|
| `index_sparse` | sparse directory over a whole 3-bit space, two leaves of two regions of two granules | mutations are atomic under every allocation failure and always return; `DescriptorsSound`: a region whose leaf is absent or pruned is empty and the region without an end is never UNIFORM; statistics count what exists |
| `index_bounded` | three regions of two granules away from address 0, overlay pages of four handles, an inline handle 0 and a handle that needs a table | refinement through flat and overlay conversion; the five unchecked lookups agree with the checked one; byte and page statistics equal what is allocated, pages that tables share or straddle counted once |
| `config` | every configuration over a 4-bit word, where a sparse directory may resolve all bits of the word, as its limit of 32 bits allows on a 32-bit target; what a smaller limit accepts is accepted here too | accepted configurations satisfy `UsableConfig`, the assumption of the index model, and no size wraps, but for `region_count` where its shift is as wide as the word; refusals free everything |
| `heap_threads` | 2 threads, 3 caches, 3 blocks in uneven chunks, limit 2 | no block lost or duplicated, block state agrees with the program, the exclusive shortcut is safe, no block stranded in a detached cache, tails and counts of spliced lists true, a cache with more blocks within reach than its limit stays within it |
| `heap_progress` | 2 threads, 2 classes, an arena that runs out, chunk counts that saturate (UINT32_MAX scaled to 1) below the cache limit of 4 | calls return; `TypeOK`: spans are claimed within the arena and no count outgrows its width |
| `large` | 2 threads, 4 addresses, up to 4 buckets | index exact through growth, shrinking and failures; mappings conserved; live bytes never wrap, the peak covers them, and in a quiescent heap the reported figures are exact |
| `heap_life` | 2 threads, 2 heaps, 3 caches, 2 class locks | every unwinding is exact; no stale cache is found |
| `classes` | every request of 0..8300 bytes, every span shift, arenas of two spans at three addresses, 9 sizes of realloc | class arithmetic equals the class table; checked lookup accepts exactly the payload addresses; accepted heaps can serve every class, and `memx_index_create` refuses their arena only for lack of memory; reallocs keep data and counters |
| `mapping` | a 6-bit address space, pages of 2 bytes | placement, guards, trimming and commits exact wherever the system puts a mapping; racing probes agree |
| `shim` | 2 threads, an arena of 28 bytes with heap blocks on both sides of it, sizes that fit and that wrap, alignments that are valid and not | `ArenaSound`, `NeverReentered`, `RoutedToOwner`; every call returns |
| `trace` | a 4-bit word, addresses up to its last bytes, up to 3 inserted granules in tables of 2 to 8 slots, a hash under which neighbours collide, headers that are valid and not, pointers of 2 bytes, a sparse index of 3 bits, indexes that run out of memory or are refused | the oracle is an exact map and always has an empty slot; replay of an accepted trace counts no failure on an index that gets its memory; what `align_coverage` derives holds everything mapped and passes the creation of the index but for two named guards (section 6); loads are atomic |
| `baselines` | all 256 configurations over a 3-bit word, valid and not, up to 7 entries, a cache of 2 leaves, two handles | every structure answers like a map for every address; sizes are exact through failures and destroy gives all back; the exception is a two-level table whose `root_count` wraps (section 6) |

Why the bounds are enough. A mutation of the index treats regions one by one and
only the first and the last may be partial: two regions (three where pages are shared)
and two granules give every combination of empty, uniform and dense with whole and
partial. In the heap, a race involves a block, its owner and one other
thread; three caches let a thread detach and come back while its old cache still
owns blocks; three blocks with uneven chunks fill, splice and flush both segments and exceed the limit of two. In the
shim, one nested allocation per heap call reaches every combination of an outer
and a nested call, and the arena holds two or three blocks before it is full. The oracle's table is
sized at twice the granules inserted, so it is as full with three as it ever gets. The
proofs remove these bounds for the properties of section 5. Caches and
addresses are finite pools, which also bounds the number of attaches in
`heap_threads`; `heap_life` reuses them. `classes` uses the real constants, since
that is what can be wrong there; only the word (17 bits) and the arena are small.

Deadlock is checked in every run but `config`, whose behaviours end when the create
returns.

## 4. Fairness

`index_sparse` assumes weak fairness of `LoopStep`, the step of a mutation that has
begun: the loop is sequential code that nothing blocks. `heap_progress` assumes weak
fairness of `Step(t)` for each thread that is inside a call: a scheduled
thread keeps executing, and a mutex that stays free is eventually taken. Threads
are never obliged to start a call. `CallsReturn` therefore says that
calls keep completing or all threads are eventually outside; it does not claim
that one thread cannot be overtaken at a mutex, which POSIX does not promise.

`shim` assumes weak fairness of `Step(t)`, a thread inside a call: its program points wait
only for `pthread_once`, and the arena's exchange is retried on a counter that only grows, so
here every call of every thread returns. A weak exchange may also fail without
reason; the hardware does not let that go on for ever, and the model has no such failures.

## 5. Proofs

Every theorem is `Spec => []P` (or a refinement) and holds for every value of the
constants that satisfies the module's assumption. Each rests on an
inductive invariant, most of whose parts TLC checked on an instance before they were proved, on a lemma per
action that the action preserves it, and on a last lemma that it implies the property.

**`MemxHeapProofs`** (from `HeapAssumption`: what `memx_heap_create` accepts, and that
the null values are distinct) proves `HeapInvariant`; `HeapTypes`: `TypeOK`, including that
spans are claimed inside the arena and no chunk outgrows its 32-bit count; `HeapSegmentsSound`: the tail and count beside each
list describe it; `HeapCacheBounded`: `cache_limit` bounds both segments together and a push has room; `HeapNothingStranded`: a cache that no thread has holds no block.
None of these is inductive alone. `HeapInv` adds: `OwnershipInv`, a cache belongs to one
thread, through its TLS or while that thread detaches it, and accepts remote
frees only while it has one (otherwise another thread's step could
change it, or a late remote free land in it); `FrameInv`, the locals a program point
needs are set; `CentralInv`, chunks in the bins are sound and no longer than a
cache may take; `CacheInv`, both segments of a cache not being detached are sound
and within the limits; `RoomInv`, except just before the pop a hot segment
has room for one block more, which is what lets a free push before it trims;
`RefillInv`, a thread that refills has two empty segments, so a chunk may replace
them; `DetachInv` and `AbandonedInv`, the classes a detach has passed are
empty, and so is all of a cache nobody has.

The second half of the module proves, on top of it, `HeapBlocksConserved`, `HeapStateTracksProgram` and
`HeapExclusiveOwnsAll`. "No block is in two lists" would need a comparison of every pair of the lists
a step touches; instead `BlockInv` says that there is a function `at` from blocks to places such that
each list holds exactly the blocks `at` puts there, each once and of the list's class. A
step then is a change of `at`. The other parts tie the header state, the owner recorded in
the header and the block in a thread's hand to that place: two threads never carve the
same span, and the exclusive cache is the only cache of its heap, so every block in use was allocated through it.

**`MemxIndexProofs`** (from `UsableConfig` and assumptions on the handles) first carries the address arithmetic over to
*cells*, granules counted from 0, where the wrapped end of the last region is no special case. `IndexInv` has:
`LoopInv`, a loop stands at the start of its range or of a region; `ContentInv`, what the preflight
found stays true in front of the loop; `ReadyInv`, each region the prepare loop has passed can be committed
without an allocation, which makes the error returns of the commit loops unreachable and a mutation
atomic; `EdgeInv`, the granule whose end is no word is never mapped, which keeps the last region from becoming UNIFORM;
`CountInv`, `dense_regions` and `uniform_regions` count the descriptors, so that `dense_regions` at the number of
regions, the condition of `memx_index_optimize`, does mean that every region has a table to copy; `ModeInv`, the flat and overlay mirrors exist when they are read.
It proves `IndexDescriptorsSound` and `IndexViewsAgree`.
Then it proves `IndexImplementsMap`: under the mapping of `MemxIndex` (the abstract map is what the
checked lookup returns in each cell, and a call has taken effect in all of its range once its commit loop has begun) every
action is one abstract step or a stutter.
Its last part proves `IndexTypeOK`, by which the counters of regions and leaves never leave the numbers there are of each (they do
not wrap below 0), and `IndexStatsMatch`. `StatsInv` adds to `IndexInv`: `LeafInv`, `leaf_count` is the number of
present leaves; `BlockInv`, `live` is the sum of the words of the index, directory, leaves, tables and overlay that exist, at every step of
a conversion too; `PrivateInv`, `private_pages` is the number of overlay pages that converted tables touch. The last is the
interesting one: tables may be smaller than a page or straddle two, and the code counts for each table only the pages behind the
last one of the table before. `PagesExact` shows by induction over the regions of the conversion that this counts each page once. The
descriptors of a sparse index are counted by a bijection from leaf and row to region.

**`MemxGeometryProofs`** has two parts. On `MemxConfig`, for every word width, pointer size, limit on the bits of a sparse directory and configuration: `ConfigInv` says what the
guards passed so far have established and which blocks exist at each stage. From it follow
`ConfigRefusalLeavesNothing`, `ConfigGeometryExact` (no shift, sum or product wrapped, `ShiftDefined` excepted: where `memx.c:469` shifts by the width of
the word, `region_count` may be anything, and the two levels of the directory still reach every region) and
`ConfigAcceptedIsUsable`: what is accepted satisfies `UsableConfig`, which is what `MemxIndexProofs` assumes. On `MemxClasses`: `ClassesRequestServed` shows
the leading-zero arithmetic of `memx_heap_class_for_size` equal to a search of the class table, by cases on the bit width
of the size; `ClassesBlocksFound`, that the checked lookup is a bijection from the offsets it accepts to the
blocks carved; `ClassesReallocExact`, the counters and contents of reallocs; `ClassesAcceptedHeapServes`, that the
index refuses the arena of an accepted heap for lack of memory only; and `ClassesIndexUsable`, that this index satisfies `UsableConfig`,
which joins the heap's configuration to the proofs about the index. `ClassesInv` is the conjunction of `AcceptInv`, `IndexCallInv` (the
state of the call of `memx_index_create` is one that `ConfigInv` describes for this arena), `SpanInv`, `ResizeInv` and two of the
properties. The attempt to prove `AcceptedHeapServes` found a guard missing in the model: `memx_os_reserve` refuses a size
that leaves no room to align it, without which the arena of an accepted heap may reach the end of the address space; `Reservable` is that guard.

**`MemxHeapLifeProofs`** proves `LifeResourcesExact` and `LifeCacheFoundIsOwn`. `LifeInv` gives every heap address and
every cache address one hand: free, in one creating or destroying call, or in use; says which resources a heap or a
cache has at each stage of that call; and keeps the thread's list, the heap's list and `cache_heap`
consistent, which is why the shortcut `tls_last_cache` cannot outlive its cache although addresses
are reused. `LifeAssumption` includes `Heaps \cap Caches = {}`: both are addresses of objects that `calloc` has
returned and that exist at the same time.

**`MemxLargeProofs`** proves `LargeIndexFindsAll`, `LargeMappingsConserved` and `LargeLiveExact`, for any
hash and minimal table size and any finite set of threads. `TableInv`: each record is in the bucket of its address for the
present table size (`Placed`), and the table has room. `OwnInv` partitions: a mapping is linked in the table or private to one
thread between the mapping and the locked section; a linked record is the program's or in one thread's frame.
`PeakInv`: the peak covers the live bytes *or* a thread inside `memx_heap_update_peak` is about to raise it that far. The live counter is
a sum over the records and over what each thread has counted but not linked, or unlinked but not yet subtracted; that a step moves
one term from one sum to the other is a lemma about sums over finite sets in `MemxArithmetic`.

**`MemxBenchProofs`, the interposer,** proves `ShimArenaSound`, `ShimNeverReentered` and `ShimRoutedToOwner`. A thread's
stack has one of three shapes: the program's call alone; a malloc that `realloc` made to replace an arena block; or a
call of the heap on top of either (`Alone`, `Replacing`, `Nested`). `ShimInv` says for each what the frames may be doing: a nested
call is at `enter`, `arena` or `cas` only, so never in the heap. `BusyInv` ties `shim_busy` to the outer call,
`OnceInv` puts one thread in `shim_init` and the heap behind it, `CasInv` says that what an exchange commits was not refused
for the value it compares, `ArenaInv` lays the blocks one behind the other below the counter, and `PtrInv` gives each pointer
one place: the program, the heap's own, or one outer call; everything the heap keeps for itself is the arena's. The arithmetic
lemmas (`NotRefused`) show that no sum of `bootstrap_alloc` wraps once its tests have passed. The assumption says
of the constants that sizes are words, the arena lies in the address space and heap blocks lie outside it.

**`MemxMappingProofs`** proves `MappingPlacementSound`, `MappingNothingLeft` and `MappingProbesAgree`, for every word width,
every request and every free place that `mmap` may choose. What it turns on is that rounding wraps and that
the smaller of two powers of two divides the larger (`PowersDivide`): a huge page is whole pages, a span is whole pages, so
each trimmed edge is on a page. That needs an induction, which `MemxArithmetic` provides: `LeastElement` takes the least element of a set of numbers from
the library's `WFMin`, `Induction` states induction for a set instead of a predicate, and `Pow2` is
shown to double with it. `MappingInv` says of each kind of range how it lies in its mapping: the overlay a page away from both ends,
the arena at the start of a mapping trimmed to it, committed up to `rounded`, with room below the top of the address space so that no commit target wraps;
of the probe, that a thread past its publication finds a size published, and then uses that one. The assumptions are what the code has
tested by then: page, span and alignment are powers of two (`heap.c:984-986`, `heap.c:1184`), a span is a page or more, requests are nonzero words.

**`MemxBenchProofs`, the traces,** proves `TraceOracleExact`, `TraceStatsExact` and `TraceLoadAtomic`, for every word width, geometry,
least capacity, trace and hash *function*: nothing is assumed of `Hash` but that its values are numbers. `TraceInv` has three parts. `LoadInv`
counts the event buffers by the two traces that may have one; `LoadAtomic` follows from it and the actions. `QuietInv` says that no pass has begun before the column
line. `JudgeInv` is about a file whose events are being accepted, and its core is `SoundTable`: each live granule has one slot, and the
probes from its hash to that slot pass no empty one. So a search that ends at an empty slot has proved the granule absent. An
insertion keeps that because it takes the first tombstone of the path or its end, a removal because it leaves a tombstone, never an empty slot. An event changes
several slots, one granule at a time; `Changed` is therefore a recursive function, and an induction over the granules of the event carries
`SoundTable` and the entries through it. That the table cannot fill is a count: only an insertion uses up an empty slot, so the
empty ones and the granules inserted are together at least the capacity, which is at least twice all granules the file inserts.
`MapInv` equates the entries with the map of the bounded index, `ReplayInv` says that each index has followed unless it ran out of memory or, the sparse one, an address lay beyond it, and
`StatsFit` that the live figure is the number of mapped bytes, each between the minimum and the maximum. Last, `align_coverage`
is shown to round to whole regions around them without wrapping, which is what `memx_validate_config` asks of a bounded index, and
the sizes `memx_index_create` derives from it not to wrap unless a region has more granules than a table may have or
fewer bytes than a pointer. From
`TraceAssumption`: addresses, sizes and header values are words or numbers, and the invalid handle is no handle.

**`MemxBenchProofs`, the baselines,** proves `BaselineLookupsAgree` and `BaselineAccountingExact`, for every word width, configuration,
page size and cache size. `BaselineInv` says where entry `i` is: at `i` in the flat table; in leaf `i \div leaf_count`, place
`i % leaf_count`, in the other two, the tree finding that leaf by another quotient and remainder. A leaf or middle that is missing stands for entries never set,
so a set that fails half way changes no answer; the counters are the numbers of leaves and middles that exist, so the reported sizes are
those of the blocks; and a key in the cache names a leaf that exists, which no set replaces. The two-level part holds under `RootsFit`, the sum of
`baselines.c:211` stays within a word; without it `BaselineInv` claims of that table only what needs no root, and `Undefined`, an
access past the root, is reached from nowhere else. The arithmetic is that two
indexes with equal quotients and remainders are equal (no set of one entry is seen at another), that each quotient is inside its array also when the
number of entries is no power of two, and that `entry_bits` exists (by `LeastElement`). `BaselineAssumption` says that
bases and sizes are words and that page, structure and cache have a size.

Only model-checked: liveness (`CallsReturn` of the heap and the shim, `CallReturns` of the index), because it rests on fairness and `ENABLED`,
which the installed provers do not treat. Every invariant and every safety or refinement property of the runs in section 3 is proved.

## 6. Observations

* If the first class lock cannot be initialised, `initialized_class_locks` is 0 and
  `memx_heap_destroy_locks` returns without destroying `admin_lock` and
  `arena_lock`, which exist. `ResourcesExact` names this as its one exception. With default
  attributes glibc's `pthread_mutex_init` does not fail, so it has no effect there.
* The error returns inside the commit loops of `memx_insert` and `memx_remove` are
  dead code: everything that can fail happens in the prepare loops, and `ImplementsMap` fails as
  soon as a preparation leaves out a table the commit needs.
* `central_count` is maintained and never read.
* Where `size_t` has 32 bits, a sparse directory of 32 bits and regions of one byte shifts by the
  full width at `memx.c:469`, which C leaves undefined; only statistics use the result. `GeometryExact` names this
  exception, and `config` reaches it.
* `baselines.c:211` rounds the number of two-level leaves up with a sum that wraps for a `managed_size` near
  SIZE_MAX and granules of one byte, which `baseline_config_valid` accepts. `root_count` is then 0: a table is created
  where `calloc` of no bytes succeeds, `set` and `lookup` index past its root for addresses of the range, and
  `destroy` frees no leaf. `BaselinesAgree` and `AccountingExact` name this exception, and `baselines` reaches it; the benchmark asks for no such size.
* A trace that validates may have a geometry `memx_index_create` refuses: regions of more granules than a table
  may have, or a directory of regions smaller than a pointer that is too large for a word. `StatsExact` names both;
  the replay then ends with an error.
* The shim's `free` and `realloc` set and clear `shim_busy` without testing it. That is sound only
  because everything the heap keeps for itself was allocated while the flag was set, hence in the arena
  (`NeverReentered` and `RoutedToOwner` together).
* `docs/trace-format.md:52` lists headers as required. The reader starts from
  `memx_trace_init` and accepts a file that leaves them out, with the default shifts.
* The sparse replay always resolves 48 address bits: a valid trace with higher addresses is
  replayed with failures (`OracleExact` names this exception).

## 7. Abstractions

Payload contents, magic numbers, activity counters other than live and peak,
and memory ordering below mutexes and the named atomics are left out; atomics are
sequentially consistent steps. Handles are model values split into inline and full-width
ones. Hash values are given by a function. Sizes of metadata in `MemxIndex` are in
words; `memx_index_stats` saturates its sums at SIZE_MAX, which memory really
obtained does not reach. Huge-page advice has no modelled effect.

In `MemxTrace` a line is what it was parsed to; the passes over the events, which the program
makes one after the other, advance together, which no pass can tell since each only
reads the events. An index of the replay is followed to its first failure, which is all that the program reports of it: an
insert or removal that finds no memory, an address that is not resolved. The bounded one is followed also where the program would end before the
replay, because no range could be derived or no memory found to create an index; the sparse one only if `memx_index_create` accepts its
configuration. In `MemxBaselines` sizes are in words, sums do not saturate, and the leaf a cache entry points to is named by
its key, since leaves do not move while the tree exists. In `MemxShim` the contents that realloc copies are left
out.

## 8. Not modelled, and the plan

Not modelled: the timing drivers `heap_bench.c`, `large_heap_bench.c`, `allocator_patterns.c`,
`allocator_workload.c` and the rest of `memx_bench.c` (single-threaded, deterministic clients that keep
nothing the library depends on); `memx_trace_write_file` and the splitting of lines into fields;
tallies of events, threads and cache activity; the fuzz drivers and Python tools;
`memx_os_decommit` (no caller in the library); `memx_status_string` and the like. A checked realloc
that races a free of the same block is left out because `docs/allocator.md` makes it an error of the caller.

Done first, because everything else rests on it: the index with its abstract map, the
small-block heap with its proofs, then configuration, large blocks, mappings,
lifetimes and class arithmetic; after that the interposer, traces and baselines; then the proofs. Left: a module that composes `MemxHeap` with the index,
with `ClaimSpan` as a `memx_insert` that may fail, and the lookup of the checked free.
