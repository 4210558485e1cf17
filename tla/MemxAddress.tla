----------------------------- MODULE MemxAddress -----------------------------
(***************************************************************************)
(* Address arithmetic of the MEMX ownership index (src/memx/src/memx.c).    *)
(*                                                                          *)
(* Addresses and sizes are native unsigned words, 0..WordMax.  The code     *)
(* names region and granule sizes by their shifts; here the sizes           *)
(* themselves are the constants, so  x >> shift  is  x \div Size  and       *)
(* x & (Size - 1)  is  x % Size.  ConfigAssumption is what                  *)
(* memx_validate_config has established by the time an index exists: module  *)
(* MemxConfig checks UsableConfig of every configuration that is accepted.   *)
(***************************************************************************)
EXTENDS Integers

CONSTANTS
    WordMax,       \* UINTPTR_MAX and SIZE_MAX
    Directory,     \* config.directory_mode: "BOUNDED" or "SPARSE"
    BaseAddress,   \* config.base_address
    CoveredSize,   \* config.managed_size (BOUNDED) or 2^address_bits (SPARSE)
    RegionSize,    \* 1 << config.region_shift
    GranuleSize,   \* 1 << config.granule_shift
    LeafRegions    \* sparse_leaf_count: descriptors in one sparse leaf

(***************************************************************************)
(* The sizes are powers of two in the program; the model only needs the     *)
(* divisibility that follows.                                               *)
(***************************************************************************)
UsableConfig ==
    /\ WordMax \in Nat
    /\ Directory \in {"BOUNDED", "SPARSE"}
    /\ BaseAddress \in Nat
    /\ CoveredSize \in Nat \ {0}
    /\ GranuleSize \in Nat \ {0}
    /\ RegionSize \in Nat \ {0}
    /\ LeafRegions \in Nat \ {0}
    /\ RegionSize % GranuleSize = 0
    /\ BaseAddress % RegionSize = 0
    /\ CoveredSize % RegionSize = 0
    /\ (WordMax + 1) % RegionSize = 0
    /\ Directory = "BOUNDED" => CoveredSize <= WordMax - BaseAddress
    /\ Directory = "SPARSE" =>
            /\ BaseAddress = 0
            /\ CoveredSize <= WordMax + 1
            /\ CoveredSize % (RegionSize * LeafRegions) = 0

ASSUME ConfigAssumption == UsableConfig

Words == 0 .. WordMax
RegionCount == CoveredSize \div RegionSize
GranulesPerRegion == RegionSize \div GranuleSize
Regions == 0 .. RegionCount - 1
Granules == 0 .. GranulesPerRegion - 1
\* Slots of the flat table and of the dense overlay.
Positions == 0 .. RegionCount * GranulesPerRegion - 1
\* Slots of sparse_root (a bounded directory has none).
Roots == IF Directory = "SPARSE" THEN 0 .. (RegionCount \div LeafRegions) - 1
                                 ELSE {}
RootIndex(r) == r \div LeafRegions

(***************************************************************************)
(* memx_address_to_region: the range test, then the two coordinates.        *)
(***************************************************************************)
Covered(address) ==
    IF Directory = "BOUNDED"
    THEN address >= BaseAddress /\ address - BaseAddress < CoveredSize
    ELSE address < CoveredSize

Relative(address) == address - BaseAddress
RegionIndex(address) == Relative(address) \div RegionSize
GranuleIndex(address) ==
    (Relative(address) \div GranuleSize) % GranulesPerRegion
Position(address) == Relative(address) \div GranuleSize

\* TRUE when base + size is not representable.
memx_add_overflows(base, size) == size > WordMax - base

(***************************************************************************)
(* The status memx_validate_range returns for the range [base, base+size).  *)
(***************************************************************************)
memx_validate_range(base, size) ==
    IF \/ size = 0
       \/ base % GranuleSize # 0
       \/ size % GranuleSize # 0
       \/ memx_add_overflows(base, size)
    THEN "INVALID_ARGUMENT"
    ELSE IF Covered(base) /\ Covered(base + size - 1)
         THEN "OK"
         ELSE "OUT_OF_RANGE"

\* Mutant: the boundary after the last region wraps to zero.
WrappedBoundary(cursor, end) ==
    (cursor - (cursor % RegionSize) + RegionSize) % (WordMax + 1)

(***************************************************************************)
(* The next region boundary after cursor.  The boundary of the last region  *)
(* of the address space is 2^word_bits, which a word cannot hold: there the *)
(* function returns the end of the request.                                 *)
(***************************************************************************)
memx_region_boundary(cursor, end) ==
    LET aligned == cursor - (cursor % RegionSize)
    IN  IF aligned > WordMax - RegionSize THEN end ELSE aligned + RegionSize

\* region_end and part_end of the loops of memx_insert and memx_remove.
PartEnd(cursor, end) ==
    LET region_end == memx_region_boundary(cursor, end)
    IN  IF region_end < end THEN region_end ELSE end

\* (cursor & region_mask) == 0 && part_end == region_end
ReachesBoundary(cursor, end) ==
    /\ cursor % RegionSize = 0
    /\ PartEnd(cursor, end) = memx_region_boundary(cursor, end)

\* Mutant: the prepare loop uses the boundary test of the write loop.
BoundaryIsWhole(cursor, end) == ReachesBoundary(cursor, end)

\* (cursor & region_mask) == 0 && part_end - cursor == region_size
WholeRegion(cursor, end) ==
    /\ cursor % RegionSize = 0
    /\ PartEnd(cursor, end) - cursor = RegionSize

\* The table entries an iteration writes: granule_index .. + count - 1.
PartGranules(cursor, end) ==
    LET first == GranuleIndex(cursor)
        count == (PartEnd(cursor, end) - cursor) \div GranuleSize
    IN  first .. first + count - 1
=============================================================================
