------------------------------ MODULE MemxConfig ------------------------------
(***************************************************************************)
(* memx_index_create (src/memx/src/memx.c): validation of the caller's      *)
(* configuration, the geometry computed from it, and the unwinding of every *)
(* error return.  Every configuration of a small word is tried.             *)
(*                                                                          *)
(* Sizes are words: sums and products are taken modulo 2^WordBits.  A shift *)
(* that is not below the word width is refused before it is used, but for   *)
(* one: the shift that gives region_count of a sparse directory, which is   *)
(* undefined when the directory resolves all bits of a word.  That needs    *)
(* SparseBitsMax to be the word width, as it is on 32-bit targets.          *)
(***************************************************************************)
EXTENDS Integers, MemxPowers

CONSTANTS
    WordBits,       \* width of uintptr_t and of size_t
    WordBytes,      \* sizeof(memx_region_t), of a handle and of a pointer
    SparseBitsMax   \* 32: the most bits a two-level directory may resolve

ASSUME WordAssumption ==
    /\ WordBits \in Nat \ {0}
    /\ WordBytes \in Nat \ {0}
    /\ SparseBitsMax \in Nat \ {0}

WordMax == Pow2[WordBits] - 1
Words == 0 .. WordMax
Wrapped(n) == n % Pow2[WordBits]

(***************************************************************************)
(* memx_config_t.  enums_valid stands for the range tests of policy and     *)
(* hint_mode, callbacks for which of the allocator's two are supplied.      *)
(***************************************************************************)
Configs(directories, bases, sizes, bits) ==
    {c \in [directory : directories,
            region_shift : 0 .. WordBits,
            granule_shift : 0 .. WordBits,
            base_address : bases,
            managed_size : sizes,
            address_bits : bits,
            enums_valid : BOOLEAN,
            callbacks : {"none", "one", "both"}] :
        c.enums_valid \/ c.callbacks = "none"}

Inputs == Configs({"BOUNDED"}, Words, Words, {WordBits})
            \cup Configs({"SPARSE", "OTHER"}, {0, 1}, {0}, 0 .. WordBits + 1)

VARIABLES
    config,
    index,      \* the geometry fields of the index
    live,       \* metadata blocks allocated and not freed
    pc,
    status

vars == <<config, index, live, pc, status>>

NoGeometry == [granules_per_region |-> 0, region_count |-> 0,
               sparse_root_count |-> 0, sparse_leaf_count |-> 0,
               directory_bytes |-> 0, dense_bytes |-> 0]

Init ==
    /\ config \in Inputs
    /\ index = NoGeometry
    /\ live = 0
    /\ pc = "call"
    /\ status = "OK"

memx_shift_valid(shift) == shift < WordBits
memx_is_aligned(value, shift) == value % Pow2[shift] = 0

\* Mutant: only the size of the managed range has to be aligned.
BaseNotAligned(c) ==
    /\ c.managed_size # 0
    /\ memx_is_aligned(c.managed_size, c.region_shift)
    /\ c.managed_size <= WordMax - c.base_address

\* The BOUNDED branch of memx_validate_config accepts.
BoundedRangeValid(c) ==
    /\ c.managed_size # 0
    /\ memx_is_aligned(c.base_address, c.region_shift)
    /\ memx_is_aligned(c.managed_size, c.region_shift)
    /\ c.managed_size <= WordMax - c.base_address

SparseRangeValid(c) ==
    /\ c.base_address = 0
    /\ c.address_bits \in 1 .. WordBits
    /\ c.address_bits > c.region_shift

memx_validate_config(c) ==
    CASE \/ ~memx_shift_valid(c.region_shift)
         \/ ~memx_shift_valid(c.granule_shift)
         \/ c.region_shift < c.granule_shift
         \/ ~c.enums_valid
         \/ c.callbacks = "one"
         \/ c.directory \notin {"BOUNDED", "SPARSE"} -> "INVALID_ARGUMENT"
      [] OTHER ->
            IF c.directory = "BOUNDED"
            THEN IF BoundedRangeValid(c) THEN "OK" ELSE "INVALID_ARGUMENT"
            ELSE IF ~SparseRangeValid(c) THEN "INVALID_ARGUMENT"
            ELSE IF c.address_bits - c.region_shift > SparseBitsMax
                 THEN "UNSUPPORTED" ELSE "OK"

Return(result, blocks) ==
    /\ status' = result
    /\ live' = blocks
    /\ pc' = "returned"

Validate ==
    /\ pc = "call"
    /\ LET result == memx_validate_config(config)
       IN  IF result = "OK"
           THEN /\ pc' = "validated"
                /\ config' = [config EXCEPT !.callbacks = "both"]
                /\ UNCHANGED <<live, status>>
           ELSE Return(result, 0) /\ UNCHANGED config
    /\ UNCHANGED index

\* The index object; a misaligned one is given back at once.
AllocateIndex ==
    /\ pc = "validated"
    /\ \/ pc' = "allocated" /\ live' = 1 /\ UNCHANGED status
       \/ Return("OUT_OF_MEMORY", 0)
    /\ UNCHANGED <<config, index>>

(***************************************************************************)
(* The fields memx_index_create derives from an accepted configuration.     *)
(***************************************************************************)
Geometry(c) ==
    LET sparse_region_bits == c.address_bits - c.region_shift
        sparse_leaf_bits == sparse_region_bits \div 2
        granules == Pow2[c.region_shift - c.granule_shift]
        bounded == c.directory = "BOUNDED"
        slots == IF bounded THEN c.managed_size \div Pow2[c.region_shift]
                 ELSE Pow2[sparse_region_bits - sparse_leaf_bits]
    IN  [granules_per_region |-> granules,
         region_count |-> IF bounded THEN slots ELSE Pow2[sparse_region_bits],
         sparse_root_count |-> IF bounded THEN 0 ELSE slots,
         sparse_leaf_count |-> IF bounded THEN 0 ELSE Pow2[sparse_leaf_bits],
         directory_bytes |-> Wrapped(slots * WordBytes),
         dense_bytes |-> Wrapped(WordBytes + (granules - 1) * WordBytes)]

\* (size_t)1 << sparse_region_bits is whatever the build makes of it when it
\* shifts by the width of a word.
ShiftDefined(c) == c.directory = "SPARSE" => c.address_bits - c.region_shift < WordBits

\* What region_count may come out as.
RegionCounts(c) == IF ShiftDefined(c) THEN {Geometry(c).region_count} ELSE Words

DirectorySlots(g) ==
    IF config.directory = "BOUNDED" THEN g.region_count ELSE g.sparse_root_count

\* Mutant: the byte size of a bounded directory is not guarded.
OnlyTableGuarded(g) ==
    IF g.granules_per_region > WordMax \div WordBytes THEN "UNSUPPORTED" ELSE "OK"

\* The overflow guards that stand before the directory is allocated.
GeometryStatus(g) ==
    IF g.granules_per_region > WordMax \div WordBytes THEN "UNSUPPORTED"
    ELSE IF DirectorySlots(g) > WordMax \div WordBytes THEN "OUT_OF_MEMORY"
    ELSE "OK"

\* Mutant: the guards return without giving the index back.
GuardsKeepIndex ==
    /\ pc = "allocated"
    /\ GeometryStatus(Geometry(config)) # "OK"
    /\ Return(GeometryStatus(Geometry(config)), live)
    /\ UNCHANGED <<config, index>>

\* A guard fails: the index object is freed.
RefuseGeometry ==
    /\ pc = "allocated"
    /\ GeometryStatus(Geometry(config)) # "OK"
    /\ Return(GeometryStatus(Geometry(config)), live - 1)
    /\ UNCHANGED <<config, index>>

\* The bounded directory or the sparse root.
AllocateDirectory ==
    /\ pc = "allocated"
    /\ GeometryStatus(Geometry(config)) = "OK"
    /\ \/ /\ pc' = "directory"
          /\ \E n \in RegionCounts(config) :
                index' = [Geometry(config) EXCEPT !.region_count = n]
          /\ live' = live + 1
          /\ UNCHANGED status
       \/ Return("OUT_OF_MEMORY", live - 1) /\ UNCHANGED index
    /\ UNCHANGED config

\* The last guard is about the size of a dense table.
Publish ==
    /\ pc = "directory"
    /\ IF Wrapped((index.granules_per_region - 1) * WordBytes)
            > WordMax - WordBytes
       THEN Return("OUT_OF_MEMORY", live - 2)
       ELSE Return("OK", live)
    /\ UNCHANGED <<config, index>>

Next == Validate \/ AllocateIndex \/ RefuseGeometry \/ AllocateDirectory \/ Publish

Spec == Init /\ [][Next]_vars

-----------------------------------------------------------------------------
Created == pc = "returned" /\ status = "OK"

Address == INSTANCE MemxAddress WITH
    Directory <- config.directory,
    BaseAddress <- config.base_address,
    CoveredSize <- IF config.directory = "BOUNDED" THEN config.managed_size
                                                   ELSE Pow2[config.address_bits],
    RegionSize <- Pow2[config.region_shift],
    GranuleSize <- Pow2[config.granule_shift],
    LeafRegions <- IF config.directory = "BOUNDED" THEN 1
                                                   ELSE index.sparse_leaf_count

\* An index exists only for a configuration on which the address arithmetic of
\* lookups and mutations is sound: the assumption of module MemxAddress, which
\* the models of the index rest on, is what memx_validate_config establishes.
AcceptedIsUsable == Created => Address!UsableConfig

\* The geometry of an index is exact: no product that sizes an allocation has
\* wrapped, and the two levels of a sparse directory reach every region.  Only
\* region_count, which a sparse directory does not use but to report it, is left
\* open, and only where its shift is undefined.
GeometryExact ==
    Created =>
        /\ ShiftDefined(config) => index.region_count = Address!RegionCount
        /\ index.granules_per_region = Address!GranulesPerRegion
        /\ index.directory_bytes = DirectorySlots(index) * WordBytes
        /\ index.dense_bytes = index.granules_per_region * WordBytes
        /\ config.directory = "SPARSE" =>
               index.sparse_root_count * index.sparse_leaf_count
                    = Address!RegionCount

\* Whatever step refuses, memx_index_create gives back all it had allocated,
\* and nothing of a created index.
RefusalLeavesNothing ==
    pc = "returned" => live = IF status = "OK" THEN 2 ELSE 0
=============================================================================
