---------------------------- MODULE MemxBaselines ----------------------------
(***************************************************************************)
(* The structures the index is measured against                             *)
(* (src/memx/bench/baselines.c): a flat table, a two-level table and a      *)
(* three-level radix tree whose lower levels are allocated by the first set *)
(* that needs them, and a cache of radix leaves.  One of them exists at a   *)
(* time; sets, failing allocations, lookups and cached lookups come in any  *)
(* order.                                                                   *)
(*                                                                          *)
(* Leaves are never moved or freed while the tree exists, and an entry of   *)
(* the cache gets its key together with a leaf that exists, so its key      *)
(* names the leaf it points to.  Sizes are in words: a handle, a pointer    *)
(* and baseline_radix_middle_t have one each.                               *)
(*                                                                          *)
(* The root of the two-level table is sized in a sum that may wrap.  An     *)
(* access outside it is undefined behaviour, after which nothing is known.  *)
(***************************************************************************)
EXTENDS MemxHandles, FiniteSets

CONSTANTS
    Bases, Spans, Shifts,   \* base, managed_size, granule_shift of callers
    CacheEntries,  \* 16
    StructWords,   \* of each map object
    PageWords

ASSUME BaselineAssumption ==
    /\ WordBits \in Nat \ {0}
    /\ Bases \subseteq Words /\ Spans \subseteq Words /\ Shifts \subseteq Nat
    /\ Invalid \notin Handles
    /\ CacheEntries \in Nat \ {0}
    /\ StructWords \in Nat \ {0} /\ PageWords \in Nat \ {0}

VARIABLES
    config,
    kind,       \* "none", which structure exists, or "undefined"
    root,       \* its entries, leaves or middles
    allocated,  \* allocated_leaves and allocated_middles
    cache,
    live,       \* words and pages of the blocks allocated and not freed
    truth       \* what has been set successfully

BaselineVars == <<config, kind, root, allocated, cache, live, truth>>

\* NULL: a leaf or a middle that is not there has no entries.
Missing == [j \in {} |-> Invalid]

-----------------------------------------------------------------------------
(***************************************************************************)
(* Geometry.                                                                *)
(***************************************************************************)
Configs == [base : Bases, managed_size : Spans, granule_shift : Shifts]

GranuleSize == Pow2[config.granule_shift]
entry_count == config.managed_size \div GranuleSize

baseline_config_valid ==
    /\ config.managed_size # 0
    /\ config.granule_shift < WordBits
    /\ config.base % GranuleSize = 0
    /\ config.managed_size % GranuleSize = 0
    /\ config.managed_size <= WordMax - config.base

\* Bits of the largest entry index.
entry_bits == CHOOSE k \in 0 .. WordBits :
                /\ Pow2[k] >= entry_count
                /\ k > 0 => Pow2[k - 1] < entry_count

leaf_bits == entry_bits \div (IF kind = "two_level" THEN 2 ELSE 3)
middle_bits == entry_bits \div 3
root_bits == entry_bits - 2 * middle_bits

leaf_count == Pow2[leaf_bits]
middle_count == Pow2[middle_bits]

\* root_count of the two-level table with leaves of n entries, and of the tree.
TwoLevelRoots(n) == Wrapped(entry_count + n - 1) \div n
RadixRoots == Pow2[root_bits]

\* The sum that rounds the number of leaves up stays within a word.
RootsFit == entry_count + Pow2[entry_bits \div 2] - 1 <= WordMax

\* baseline_index: whether there is an entry for the address, and which.
baseline_index(a) ==
    /\ a >= config.base
    /\ a - config.base < config.managed_size
    /\ (a - config.base) \div GranuleSize < entry_count

Index(a) == (a - config.base) \div GranuleSize

\* root_index, middle_index and leaf_index of entry i.
Low(i) == i % leaf_count
Middle(i) == (i \div leaf_count) % middle_count
TwoLevelRoot(i) == i \div leaf_count
RadixRoot(i) == i \div (leaf_count * middle_count)

-----------------------------------------------------------------------------
(***************************************************************************)
(* Blocks, and the reported sizes.                                          *)
(***************************************************************************)
baseline_page_account(words) ==
    ((words + PageWords - 1) \div PageWords) * PageWords

BlockOf(words) == [words |-> words, pages |-> baseline_page_account(words)]
Plus(x, y) == [words |-> x.words + y.words, pages |-> x.pages + y.pages]
Times(n, x) == [words |-> n * x.words, pages |-> n * x.pages]
NoBlocks == [words |-> 0, pages |-> 0]

LeafBlock == BlockOf(leaf_count)
MiddleBlocks == Plus(BlockOf(1), BlockOf(middle_count))

RootBlocks(roots) == Plus(BlockOf(StructWords), BlockOf(roots))

\* What baseline_X_bytes and baseline_X_page_accounted_bytes report.
baseline_flat_bytes == BlockOf(StructWords + entry_count)

baseline_two_level_bytes ==
    Plus(RootBlocks(TwoLevelRoots(leaf_count)), Times(allocated.leaves, LeafBlock))

baseline_radix_bytes ==
    Plus(RootBlocks(RadixRoots),
         Plus(Times(allocated.middles, MiddleBlocks), Times(allocated.leaves, LeafBlock)))

-----------------------------------------------------------------------------
(***************************************************************************)
(* Lookups.                                                                 *)
(***************************************************************************)
baseline_flat_lookup_assume_mapped(a) == root[Index(a)]

baseline_flat_lookup(a) == IF baseline_index(a) THEN root[Index(a)] ELSE Invalid

baseline_two_level_lookup(a) ==
    LET leaf == root[TwoLevelRoot(Index(a))]
    IN  IF baseline_index(a) /\ leaf # Missing THEN leaf[Low(Index(a))] ELSE Invalid

\* The leaf in which entry i of the tree is, Missing when it is not allocated.
RadixLeaf(i) ==
    IF root[RadixRoot(i)] = Missing THEN Missing ELSE root[RadixRoot(i)][Middle(i)]

baseline_radix_lookup(a) ==
    IF baseline_index(a) /\ RadixLeaf(Index(a)) # Missing
    THEN RadixLeaf(Index(a))[Low(Index(a))]
    ELSE Invalid

LeafKey(i) == i \div leaf_count
NoKey == -1   \* SIZE_MAX

\* Whether the entry of its slot answers for entry i; keys name leaves.
CacheHit(i) == cache[LeafKey(i) % CacheEntries] = LeafKey(i)

\* The leaf with a key, as the entry points to it.
CachedLeaf(key) == RadixLeaf(key * leaf_count)

\* Mutant: an entry answers for every leaf that shares its slot.
CachedBySlot(a) ==
    LET slot == LeafKey(Index(a)) % CacheEntries
    IN  IF baseline_index(a) /\ cache[slot] # NoKey
        THEN CachedLeaf(cache[slot])[Low(Index(a))]
        ELSE baseline_radix_lookup(a)

baseline_radix_cached_lookup(a) ==
    IF baseline_index(a) /\ CacheHit(Index(a))
    THEN CachedLeaf(LeafKey(Index(a)))[Low(Index(a))]
    ELSE baseline_radix_lookup(a)

-----------------------------------------------------------------------------
baseline_radix_cache_init == [slot \in 0 .. (CacheEntries - 1) |-> NoKey]
NoneAllocated == [leaves |-> 0, middles |-> 0]
FreshLeaf == [j \in 0 .. (leaf_count - 1) |-> Invalid]
FreshMiddle == [m \in 0 .. (middle_count - 1) |-> Missing]
NullRoots(roots) == [r \in 0 .. (roots - 1) |-> Missing]

BaselineInit ==
    /\ config \in Configs
    /\ kind = "none"
    /\ root = Missing
    /\ allocated = NoneAllocated
    /\ cache = baseline_radix_cache_init
    /\ live = NoBlocks
    /\ truth = Missing

\* The structure k exists, with nothing set.
Created(k) ==
    /\ kind = "none"
    /\ baseline_config_valid
    /\ kind' = k
    /\ truth' = [i \in 0 .. (entry_count - 1) |-> Invalid]
    /\ UNCHANGED <<config, allocated, cache>>

baseline_flat_create ==
    /\ Created("flat")
    /\ root' = [i \in 0 .. (entry_count - 1) |-> Invalid]
    /\ live' = BlockOf(StructWords + entry_count)

baseline_two_level_create ==
    LET roots == TwoLevelRoots(Pow2[entry_bits \div 2])
    IN  /\ Created("two_level")
        /\ root' = NullRoots(roots)
        /\ live' = RootBlocks(roots)

baseline_radix_create ==
    /\ Created("radix")
    /\ root' = NullRoots(RadixRoots)
    /\ live' = RootBlocks(RadixRoots)

\* A refused configuration, the first allocation or the second one fails; a
\* map object without its root is freed.
CreateFails == kind = "none" /\ UNCHANGED BaselineVars

\* Entry i is set, in the blocks that exist already or in new ones.
SetEntry(i, value) ==
    /\ truth' = [truth EXCEPT ![i] = value]
    /\ UNCHANGED <<config, kind, cache>>

baseline_flat_set(a, value) ==
    /\ kind = "flat"
    /\ baseline_index(a)
    /\ root' = [root EXCEPT ![Index(a)] = value]
    /\ SetEntry(Index(a), value)
    /\ UNCHANGED <<allocated, live>>

\* The place of an address is inside the root of the two-level table.
InRoot(a) == TwoLevelRoot(Index(a)) \in DOMAIN root

\* A set or a lookup reads past the root.
TwoLevelOutside(a) ==
    /\ kind = "two_level"
    /\ baseline_index(a)
    /\ ~InRoot(a)
    /\ kind' = "undefined"
    /\ UNCHANGED <<config, root, allocated, cache, live, truth>>

Undefined == kind = "undefined" /\ UNCHANGED BaselineVars

\* The leaf, or a fresh one, with the value in it; the fresh one is counted.
LeafWith(leaf, i, value) ==
    [(IF leaf = Missing THEN FreshLeaf ELSE leaf) EXCEPT ![Low(i)] = value]

baseline_two_level_set(a, value) ==
    LET i == Index(a)
        leaf == root[TwoLevelRoot(i)]
    IN  /\ kind = "two_level"
        /\ baseline_index(a) /\ InRoot(a)
        /\ root' = [root EXCEPT ![TwoLevelRoot(i)] = LeafWith(leaf, i, value)]
        /\ IF leaf = Missing
           THEN /\ allocated' = [allocated EXCEPT !.leaves = @ + 1]
                /\ live' = Plus(live, LeafBlock)
           ELSE UNCHANGED <<allocated, live>>
        /\ SetEntry(i, value)

\* The leaf cannot be allocated: 0 is returned.
TwoLevelLeafFails(a) ==
    /\ kind = "two_level"
    /\ baseline_index(a) /\ InRoot(a)
    /\ root[TwoLevelRoot(Index(a))] = Missing
    /\ UNCHANGED BaselineVars

baseline_radix_set(a, value) ==
    LET i == Index(a)
        noMiddle == root[RadixRoot(i)] = Missing
        noLeaf == RadixLeaf(i) = Missing
        middle == IF noMiddle THEN FreshMiddle ELSE root[RadixRoot(i)]
    IN  /\ kind = "radix"
        /\ baseline_index(a)
        /\ root' = [root EXCEPT ![RadixRoot(i)] =
               [middle EXCEPT ![Middle(i)] = LeafWith(RadixLeaf(i), i, value)]]
        /\ allocated' = [leaves |-> allocated.leaves + (IF noLeaf THEN 1 ELSE 0),
                         middles |-> allocated.middles + (IF noMiddle THEN 1 ELSE 0)]
        /\ live' = Plus(live, Plus(IF noLeaf THEN LeafBlock ELSE NoBlocks,
                                   IF noMiddle THEN MiddleBlocks ELSE NoBlocks))
        /\ SetEntry(i, value)

\* Mutant: the middle object is kept although its leaves are not there.
MiddleFailsLeaks(a) ==
    /\ kind = "radix"
    /\ baseline_index(a)
    /\ root[RadixRoot(Index(a))] = Missing
    /\ live' = Plus(live, BlockOf(1))
    /\ UNCHANGED <<config, kind, root, allocated, cache, truth>>

\* The middle, or its array of leaves, cannot be allocated: it is given back.
MiddleFails(a) ==
    /\ kind = "radix"
    /\ baseline_index(a)
    /\ root[RadixRoot(Index(a))] = Missing
    /\ UNCHANGED BaselineVars

\* The leaf cannot be allocated: a middle made for it stays in the tree.
RadixLeafFails(a) ==
    LET i == Index(a)
    IN  /\ kind = "radix"
        /\ baseline_index(a)
        /\ RadixLeaf(i) = Missing
        /\ IF root[RadixRoot(i)] = Missing
           THEN /\ root' = [root EXCEPT ![RadixRoot(i)] = FreshMiddle]
                /\ allocated' = [allocated EXCEPT !.middles = @ + 1]
                /\ live' = Plus(live, MiddleBlocks)
           ELSE UNCHANGED <<root, allocated, live>>
        /\ UNCHANGED <<config, kind, cache, truth>>

\* What baseline_radix_cached_lookup does to the cache; a leaf that is missing
\* is not entered.
CacheMiss(a) ==
    /\ kind = "radix"
    /\ baseline_index(a)
    /\ ~CacheHit(Index(a))
    /\ RadixLeaf(Index(a)) # Missing
    /\ cache' = [cache EXCEPT ![LeafKey(Index(a)) % CacheEntries] = LeafKey(Index(a))]
    /\ UNCHANGED <<config, kind, root, allocated, live, truth>>

\* The blocks are freed; a cache is initialised again before it is used with
\* another tree.
Destroyed(k, freed) ==
    /\ kind = k
    /\ live' = [words |-> live.words - freed.words, pages |-> live.pages - freed.pages]
    /\ kind' = "none"
    /\ root' = Missing
    /\ allocated' = NoneAllocated
    /\ cache' = baseline_radix_cache_init
    /\ truth' = Missing
    /\ UNCHANGED config

baseline_flat_destroy == Destroyed("flat", BlockOf(StructWords + entry_count))

Present == {r \in DOMAIN root : root[r] # Missing}

\* The leaves of the tree, each with its root and its place in the middle.
PresentLeaves ==
    {p \in Present \X (0 .. (middle_count - 1)) : root[p[1]][p[2]] # Missing}

baseline_two_level_destroy ==
    Destroyed("two_level", Plus(RootBlocks(Cardinality(DOMAIN root)),
                                Times(Cardinality(Present), LeafBlock)))

baseline_radix_destroy ==
    Destroyed("radix", Plus(RootBlocks(Cardinality(DOMAIN root)),
                            Plus(Times(Cardinality(Present), MiddleBlocks),
                                 Times(Cardinality(PresentLeaves), LeafBlock))))

BaselineNext ==
    \/ baseline_flat_create \/ baseline_two_level_create \/ baseline_radix_create
    \/ CreateFails
    \/ \E a \in Words, value \in Handles :
          \/ baseline_flat_set(a, value)
          \/ baseline_two_level_set(a, value)
          \/ baseline_radix_set(a, value)
    \/ \E a \in Words :
          \/ TwoLevelLeafFails(a) \/ MiddleFails(a) \/ RadixLeafFails(a)
          \/ TwoLevelOutside(a)
          \/ CacheMiss(a)
    \/ Undefined
    \/ baseline_flat_destroy \/ baseline_two_level_destroy \/ baseline_radix_destroy

BaselineSpec == BaselineInit /\ [][BaselineNext]_BaselineVars

-----------------------------------------------------------------------------
(***************************************************************************)
(* Properties.                                                              *)
(***************************************************************************)

\* Every structure answers like a plain map for every address, inside the
\* configured range and outside, also with one entry or a count that is no
\* power of two and whichever sets have failed half way; and a cached lookup
\* like an uncached one, whichever leaves have taken each other's slot.  The
\* exception is a two-level table whose root_count wrapped, and only there is
\* anything accessed outside an array.
BaselinesAgree ==
    /\ kind = "undefined" => ~RootsFit
    /\ \A a \in Words :
        LET inside == a \in config.base .. (config.base + config.managed_size - 1)
            answer == IF inside THEN truth[Index(a)] ELSE Invalid
        IN  CASE kind = "flat" -> /\ baseline_flat_lookup(a) = answer
                                  /\ inside => baseline_flat_lookup_assume_mapped(a) = answer
              [] kind = "two_level" ->
                    RootsFit \/ ~inside => baseline_two_level_lookup(a) = answer
              [] kind = "radix" -> /\ baseline_radix_lookup(a) = answer
                                   /\ baseline_radix_cached_lookup(a) = answer
              [] OTHER -> TRUE

\* The sizes the benchmark compares are those of the blocks that exist, per
\* word and per page, also after allocations have failed, and destroying a
\* structure gives back every block; unless the program has left the arrays of
\* a two-level table whose root_count wrapped.
AccountingExact ==
    kind # "undefined" =>
        live = CASE kind = "flat" -> baseline_flat_bytes
                 [] kind = "two_level" -> baseline_two_level_bytes
                 [] kind = "radix" -> baseline_radix_bytes
                 [] OTHER -> NoBlocks
=============================================================================
