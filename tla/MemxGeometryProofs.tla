------------------------- MODULE MemxGeometryProofs -------------------------
(***************************************************************************)
(* Proofs about MemxConfig, for every word width, word size and limit of    *)
(* the sparse directory and every configuration: what memx_index_create     *)
(* accepts is what the address arithmetic needs, no size it computes has    *)
(* wrapped, and a refusal gives everything back.  Then about MemxClasses,   *)
(* which makes such an index: classes, spans, requests and reallocs, for    *)
(* every word width, page size, configuration, request and alignment.       *)
(***************************************************************************)
EXTENDS MemxClasses, MemxArithmetic

-----------------------------------------------------------------------------
(***************************************************************************)
(* Accepted configurations.                                                 *)
(***************************************************************************)
LEMMA WordFacts ==
    /\ WordBits \in Nat /\ WordBits >= 1 /\ WordBytes \in Nat /\ WordBytes >= 1
    /\ WordMax \in Nat /\ WordMax + 1 = Pow2[WordBits]
    /\ \A n : Wrapped(n) = n % (WordMax + 1)
<1>1. WordBits \in Nat /\ WordBits >= 1 /\ WordBytes \in Nat /\ WordBytes >= 1
  BY WordAssumption
<1>2. Pow2[WordBits] \in Nat /\ Pow2[WordBits] >= 1
  BY <1>1, PowPositive
<1>3. WordMax \in Nat /\ WordMax + 1 = Pow2[WordBits]
  BY <1>2 DEF WordMax
<1> QED BY <1>1, <1>3 DEF Wrapped

\* The fields of any configuration.
LEMMA InputFields ==
    ASSUME NEW c \in Inputs
    PROVE  /\ c.region_shift \in Nat /\ c.granule_shift \in Nat
           /\ c.base_address \in Nat /\ c.managed_size \in Nat
           /\ c.address_bits \in Nat
<1>1. c.region_shift \in 0 .. WordBits /\ c.granule_shift \in 0 .. WordBits
      /\ c.base_address \in Words \cup {0, 1} /\ c.managed_size \in Words \cup {0}
      /\ c.address_bits \in {WordBits} \cup 0 .. (WordBits + 1)
  BY DEF Inputs, Configs
<1> QED BY <1>1, WordFacts DEF Words

\* memx_validate_config has accepted c.
Accepted(c) == memx_validate_config(c) = "OK"

\* What memx_validate_config has checked of an accepted configuration.
LEMMA AcceptedFields ==
    ASSUME NEW c \in Inputs, Accepted(c)
    PROVE  /\ c.region_shift < WordBits /\ c.granule_shift <= c.region_shift
           /\ c.directory \in {"BOUNDED", "SPARSE"} /\ c.enums_valid
           /\ c.directory = "BOUNDED" => BoundedRangeValid(c)
           /\ c.directory = "SPARSE" => SparseRangeValid(c)
<1>1. ~(\/ ~memx_shift_valid(c.region_shift)
        \/ ~memx_shift_valid(c.granule_shift)
        \/ c.region_shift < c.granule_shift
        \/ ~c.enums_valid
        \/ c.callbacks = "one"
        \/ c.directory \notin {"BOUNDED", "SPARSE"})
  BY DEF Accepted, memx_validate_config
<1>2. /\ c.directory = "BOUNDED" => BoundedRangeValid(c)
      /\ c.directory = "SPARSE" => SparseRangeValid(c)
  BY <1>1 DEF Accepted, memx_validate_config
<1> QED BY <1>1, <1>2, InputFields DEF memx_shift_valid

\* The allocator that memx_index_create fills in changes nothing of that.
LEMMA DefaultsAccepted ==
    ASSUME NEW c \in Inputs, Accepted(c), NEW d, d = [c EXCEPT !.callbacks = "both"]
    PROVE  d \in Inputs /\ Accepted(d)
<1>1. c.enums_valid
  BY AcceptedFields
<1>2. /\ d.directory = c.directory /\ d.region_shift = c.region_shift
      /\ d.granule_shift = c.granule_shift /\ d.base_address = c.base_address
      /\ d.managed_size = c.managed_size /\ d.address_bits = c.address_bits
      /\ d.enums_valid = c.enums_valid /\ d.callbacks = "both"
  BY DEF Inputs, Configs
<1>3. d \in Inputs
  BY <1>1 DEF Inputs, Configs
<1>4. memx_validate_config(d) = "OK"
  BY <1>2 DEF Accepted, memx_validate_config, BoundedRangeValid, SparseRangeValid
<1> QED BY <1>3, <1>4 DEF Accepted

-----------------------------------------------------------------------------
(***************************************************************************)
(* The geometry of an accepted configuration.                               *)
(***************************************************************************)
\* granules_per_region, and the size of a dense table before it is reduced.
LEMMA GranuleGeometry ==
    ASSUME NEW c \in Inputs, Accepted(c), NEW g, g = Geometry(c)
    PROVE  /\ g.granules_per_region \in Nat /\ g.granules_per_region >= 1
           /\ g.granules_per_region
                = Pow2[c.region_shift] \div Pow2[c.granule_shift]
           /\ g.dense_bytes = Wrapped(g.granules_per_region * WordBytes)
<1>1. /\ c.region_shift \in Nat /\ c.granule_shift \in Nat
      /\ c.granule_shift <= c.region_shift
      /\ c.region_shift - c.granule_shift \in Nat
  BY InputFields, AcceptedFields
<1>2. PICK n : n = Pow2[c.region_shift - c.granule_shift]
  OBVIOUS
<1>3. n \in Nat /\ n >= 1
  BY <1>1, <1>2, PowPositive
<1>4. n = Pow2[c.region_shift] \div Pow2[c.granule_shift]
  BY <1>1, <1>2, PowDivides
<1>5. g.granules_per_region = n
      /\ g.dense_bytes = Wrapped(WordBytes + (n - 1) * WordBytes)
  BY <1>2 DEF Geometry
<1>6. WordBytes + (n - 1) * WordBytes = n * WordBytes
  BY <1>3, WordFacts
<1> QED BY <1>3, <1>4, <1>5, <1>6

\* The geometry of a bounded directory: one slot per region of the range.
LEMMA BoundedGeometry ==
    ASSUME NEW c \in Inputs, Accepted(c), NEW g, g = Geometry(c),
           c.directory = "BOUNDED"
    PROVE  /\ g.region_count \in Nat
           /\ g.region_count = c.managed_size \div Pow2[c.region_shift]
           /\ g.directory_bytes = Wrapped(g.region_count * WordBytes)
<1>1. g.region_count = c.managed_size \div Pow2[c.region_shift]
      /\ g.directory_bytes = Wrapped(g.region_count * WordBytes)
  BY DEF Geometry
<1>2. Pow2[c.region_shift] \in Nat /\ Pow2[c.region_shift] >= 1
  BY InputFields, PowPositive
<1>3. \A u \in Nat, m \in Nat : u >= 1 => m \div u \in Nat
  OBVIOUS
<1> QED BY <1>1, <1>2, <1>3, InputFields

\* The two levels of a sparse directory meet every region exactly once.
LEMMA SparseGeometry ==
    ASSUME NEW c \in Inputs, Accepted(c), NEW g, g = Geometry(c),
           c.directory = "SPARSE"
    PROVE  /\ g.sparse_root_count \in Nat
           /\ g.sparse_leaf_count \in Nat /\ g.sparse_leaf_count >= 1
           /\ g.region_count = Pow2[c.address_bits] \div Pow2[c.region_shift]
           /\ g.sparse_root_count * g.sparse_leaf_count = g.region_count
           /\ g.directory_bytes = Wrapped(g.sparse_root_count * WordBytes)
           /\ Pow2[c.address_bits]
                % (Pow2[c.region_shift] * g.sparse_leaf_count) = 0
<1>1. /\ c.region_shift \in Nat /\ c.address_bits \in Nat
      /\ c.address_bits > c.region_shift
  BY InputFields, AcceptedFields DEF SparseRangeValid
<1>2. PICK b \in Nat : b = c.address_bits - c.region_shift
  BY <1>1
<1>3. PICK l \in Nat : l = b \div 2 /\ l <= b
  OBVIOUS
<1>4. PICK r \in Nat : r = b - l
  BY <1>3
<1>5. /\ g.sparse_root_count = Pow2[r] /\ g.sparse_leaf_count = Pow2[l]
      /\ g.region_count = Pow2[b]
      /\ g.directory_bytes = Wrapped(Pow2[r] * WordBytes)
  BY <1>2, <1>3, <1>4 DEF Geometry
<1>6. Pow2[r] \in Nat /\ Pow2[l] \in Nat /\ Pow2[l] >= 1
  BY PowPositive
<1>7. Pow2[b] = Pow2[c.address_bits] \div Pow2[c.region_shift]
  BY <1>1, <1>2, PowDivides
<1>8. Pow2[r] * Pow2[l] = Pow2[b]
  <2>1. r + l = b
    BY <1>3, <1>4
  <2> QED BY <2>1, PowSum
<1>9. Pow2[c.address_bits] % (Pow2[c.region_shift] * Pow2[l]) = 0
  <2>1. c.region_shift + l \in Nat /\ c.region_shift + l <= c.address_bits
    BY <1>1, <1>2, <1>3
  <2>2. Pow2[c.address_bits] % Pow2[c.region_shift + l] = 0
    BY <2>1, <1>1, PowDivides
  <2> QED BY <2>2, <1>1, PowSum
<1> QED BY <1>5, <1>6, <1>7, <1>8, <1>9

\* A product below the overflow guard is the mathematical product.
LEMMA GuardedProduct ==
    ASSUME NEW n \in Nat, ~(n > WordMax \div WordBytes)
    PROVE  n * WordBytes \in Nat /\ n * WordBytes <= WordMax
           /\ Wrapped(n * WordBytes) = n * WordBytes
<1>1. n <= WordMax \div WordBytes
  <2>1. \A m \in Nat, u \in Nat : u >= 1 => m \div u \in Int
    OBVIOUS
  <2> QED BY <2>1, WordFacts
<1>2. n * WordBytes <= WordMax
  BY <1>1, WordFacts, BelowQuotient
<1>3. \A p \in Nat, w \in Nat : p <= w => p % (w + 1) = p
  OBVIOUS
<1>4. n * WordBytes \in Nat
  BY WordFacts
<1> QED BY <1>2, <1>3, <1>4, WordFacts

\* The fields of an index are those of the geometry, region_count only where
\* its shift is defined.
Shaped(i, c) ==
    \E n \in RegionCounts(c) : i = [Geometry(c) EXCEPT !.region_count = n]

LEMMA ShapedFields ==
    ASSUME NEW c \in Inputs, NEW i, Shaped(i, c)
    PROVE  /\ i.granules_per_region = Geometry(c).granules_per_region
           /\ i.sparse_root_count = Geometry(c).sparse_root_count
           /\ i.sparse_leaf_count = Geometry(c).sparse_leaf_count
           /\ i.directory_bytes = Geometry(c).directory_bytes
           /\ i.dense_bytes = Geometry(c).dense_bytes
           /\ ShiftDefined(c) => i.region_count = Geometry(c).region_count
<1>1. PICK n \in RegionCounts(c) : i = [Geometry(c) EXCEPT !.region_count = n]
  BY DEF Shaped
<1>2. ShiftDefined(c) => n = Geometry(c).region_count
  BY DEF RegionCounts
<1>3. i.region_count = n
  BY <1>1 DEF Geometry
<1>4. /\ i.granules_per_region = Geometry(c).granules_per_region
      /\ i.sparse_root_count = Geometry(c).sparse_root_count
      /\ i.sparse_leaf_count = Geometry(c).sparse_leaf_count
      /\ i.directory_bytes = Geometry(c).directory_bytes
      /\ i.dense_bytes = Geometry(c).dense_bytes
  BY <1>1 DEF Geometry
<1> QED BY <1>2, <1>3, <1>4

LEMMA ShapedStatus ==
    ASSUME config \in Inputs, NEW i, Shaped(i, config)
    PROVE  GeometryStatus(i) = GeometryStatus(Geometry(config))
<1>1. config.directory = "BOUNDED" => ShiftDefined(config)
  BY DEF ShiftDefined
<1>2. DirectorySlots(i) = DirectorySlots(Geometry(config))
  BY <1>1, ShapedFields DEF DirectorySlots
<1> QED BY <1>2, ShapedFields DEF GeometryStatus

-----------------------------------------------------------------------------
(***************************************************************************)
(* What holds between the steps of memx_index_create: the configuration has *)
(* been accepted once validation is behind, the fields of the index are the *)
(* guarded geometry from the allocation of the directory on, and the blocks *)
(* allocated are the ones the step reached has obtained.                    *)
(***************************************************************************)
Past == pc \in {"validated", "allocated", "directory"} \/ Created
Filled == pc = "directory" \/ Created

StageInv ==
    /\ config \in Inputs
    /\ pc \in {"call", "validated", "allocated", "directory", "returned"}
    /\ Past => Accepted(config)

IndexInv ==
    Filled => Shaped(index, config) /\ GeometryStatus(index) = "OK"

BlockInv ==
    live = CASE pc = "allocated" -> 1
             [] Filled           -> 2
             [] OTHER            -> 0

ConfigInv == StageInv /\ IndexInv /\ BlockInv

\* memx_index_create has just been called.
LEMMA ConfigInit == Init => ConfigInv
<1> SUFFICES ASSUME Init PROVE ConfigInv
  OBVIOUS
<1>1. pc = "call" /\ live = 0 /\ config \in Inputs /\ ~Past /\ ~Filled
  BY DEF Init, Past, Filled, Created
<1> QED BY <1>1 DEF ConfigInv, StageInv, IndexInv, BlockInv

\* memx_validate_config and the default callbacks.
LEMMA ConfigValidate ==
    ASSUME ConfigInv, Validate
    PROVE  ConfigInv'
<1>1. pc = "call" /\ live = 0 /\ config \in Inputs
  BY DEF Validate, ConfigInv, StageInv, BlockInv, Filled, Created
<1>2. CASE memx_validate_config(config) = "OK"
  <2>1. pc' = "validated" /\ live' = live
        /\ config' = [config EXCEPT !.callbacks = "both"]
    BY <1>2 DEF Validate
  <2>2. config' \in Inputs /\ Accepted(config)'
    <3>1. Accepted(config)
      BY <1>2 DEF Accepted
    <3>2. \A d : d = [config EXCEPT !.callbacks = "both"] => d \in Inputs /\ Accepted(d)
      BY <3>1, <1>1, DefaultsAccepted
    <3>3. config' \in Inputs /\ Accepted(config')
      BY <3>2, <2>1
    <3> QED BY <3>3 DEF Accepted
  <2>3. ~Filled'
    BY <2>1 DEF Filled, Created
  <2> QED BY <1>1, <2>1, <2>2, <2>3 DEF ConfigInv, StageInv, IndexInv, BlockInv
<1>3. CASE memx_validate_config(config) # "OK"
  <2>1. pc' = "returned" /\ live' = 0 /\ config' = config
        /\ status' = memx_validate_config(config)
    BY <1>3 DEF Validate, Return
  <2>2. ~Filled' /\ ~Past'
    BY <2>1, <1>3 DEF Filled, Past, Created
  <2> QED BY <1>1, <2>1, <2>2 DEF ConfigInv, StageInv, IndexInv, BlockInv
<1> QED BY <1>2, <1>3

\* The index structure is allocated, or the call returns.
LEMMA ConfigAllocateIndex ==
    ASSUME ConfigInv, AllocateIndex
    PROVE  ConfigInv'
<1>1. pc = "validated" /\ config \in Inputs /\ Accepted(config) /\ config' = config
  BY DEF AllocateIndex, ConfigInv, StageInv, Past
<1>2. Accepted(config)'
  BY <1>1 DEF Accepted
<1>3. CASE pc' = "allocated" /\ live' = 1
  <2>1. ~Filled'
    BY <1>3 DEF Filled, Created
  <2> QED BY <1>1, <1>2, <1>3, <2>1 DEF ConfigInv, StageInv, IndexInv, BlockInv
<1>4. CASE Return("OUT_OF_MEMORY", 0)
  <2>1. pc' = "returned" /\ live' = 0 /\ status' = "OUT_OF_MEMORY"
    BY <1>4 DEF Return
  <2>2. ~Filled' /\ ~Past'
    BY <2>1 DEF Filled, Past, Created
  <2> QED BY <1>1, <2>1, <2>2 DEF ConfigInv, StageInv, IndexInv, BlockInv
<1> QED BY <1>3, <1>4 DEF AllocateIndex

\* A size that is no word ends the call and frees the index structure.
LEMMA ConfigRefuseGeometry ==
    ASSUME ConfigInv, RefuseGeometry
    PROVE  ConfigInv'
<1>1. pc = "allocated" /\ config \in Inputs /\ live = 1 /\ config' = config
  BY DEF RefuseGeometry, ConfigInv, StageInv, BlockInv, Filled, Created
<1>2. pc' = "returned" /\ live' = 0 /\ status' # "OK"
  BY <1>1 DEF RefuseGeometry, Return
<1>3. ~Filled' /\ ~Past'
  BY <1>2 DEF Filled, Past, Created
<1> QED BY <1>1, <1>2, <1>3 DEF ConfigInv, StageInv, IndexInv, BlockInv

\* The directory is allocated, or the index structure is freed.
LEMMA ConfigAllocateDirectory ==
    ASSUME ConfigInv, AllocateDirectory
    PROVE  ConfigInv'
<1>1. pc = "allocated" /\ config \in Inputs /\ live = 1 /\ config' = config
      /\ Accepted(config) /\ GeometryStatus(Geometry(config)) = "OK"
  BY DEF AllocateDirectory, ConfigInv, StageInv, BlockInv, Past, Filled, Created
<1>2. Accepted(config)'
  BY <1>1 DEF Accepted
<1>3. CASE pc' = "directory" /\ Shaped(index', config) /\ live' = live + 1
  <2>1. live' = 2 /\ Filled'
    BY <1>1, <1>3 DEF Filled
  <2>2. Shaped(index', config') /\ GeometryStatus(index)' = "OK"
    <3>1. GeometryStatus(index') = GeometryStatus(Geometry(config))
      BY <1>1, <1>3, ShapedStatus
    <3>2. GeometryStatus(index)' = GeometryStatus(index')
      BY <1>1 DEF GeometryStatus, DirectorySlots
    <3> QED BY <1>1, <1>3, <3>1, <3>2
  <2>3. IndexInv'
    BY <2>2 DEF IndexInv, Shaped
  <2> QED BY <1>1, <1>2, <1>3, <2>1, <2>3 DEF ConfigInv, StageInv, BlockInv
<1>4. CASE Return("OUT_OF_MEMORY", live - 1)
  <2>1. pc' = "returned" /\ live' = 0 /\ status' = "OUT_OF_MEMORY"
    BY <1>1, <1>4 DEF Return
  <2>2. ~Filled' /\ ~Past'
    BY <2>1 DEF Filled, Past, Created
  <2> QED BY <1>1, <2>1, <2>2 DEF ConfigInv, StageInv, IndexInv, BlockInv
<1> QED BY <1>3, <1>4 DEF AllocateDirectory, Shaped

\* The finished index is handed to the caller.
LEMMA ConfigPublish ==
    ASSUME ConfigInv, Publish
    PROVE  ConfigInv'
<1>1. pc = "directory" /\ config \in Inputs /\ live = 2
      /\ config' = config /\ index' = index /\ Accepted(config)
      /\ Shaped(index, config) /\ GeometryStatus(index) = "OK"
  BY DEF Publish, ConfigInv, StageInv, IndexInv, BlockInv, Past, Filled
<1>2. Accepted(config)' /\ Shaped(index', config') /\ GeometryStatus(index)' = "OK"
  BY <1>1 DEF Accepted, GeometryStatus, DirectorySlots
<1>3. CASE Return("OUT_OF_MEMORY", live - 2)
  <2>1. pc' = "returned" /\ live' = 0 /\ status' = "OUT_OF_MEMORY"
    BY <1>1, <1>3 DEF Return
  <2>2. ~Filled' /\ ~Past'
    BY <2>1 DEF Filled, Past, Created
  <2> QED BY <1>1, <2>1, <2>2 DEF ConfigInv, StageInv, IndexInv, BlockInv
<1>4. CASE Return("OK", live)
  <2>1. pc' = "returned" /\ live' = 2 /\ status' = "OK"
    BY <1>1, <1>4 DEF Return
  <2>2. Filled'
    BY <2>1 DEF Filled, Created
  <2>3. IndexInv'
    BY <1>2 DEF IndexInv, Shaped
  <2> QED BY <1>1, <1>2, <2>1, <2>2, <2>3 DEF ConfigInv, StageInv, BlockInv
<1> QED BY <1>3, <1>4 DEF Publish

\* A step outside memx_index_create.
LEMMA ConfigUnchanged ==
    ASSUME ConfigInv, UNCHANGED vars
    PROVE  ConfigInv'
BY DEF vars, ConfigInv, StageInv, IndexInv, BlockInv, Past, Filled, Created,
       Accepted, GeometryStatus, DirectorySlots, Shaped

\* Every step of memx_index_create keeps the invariant.
LEMMA ConfigStep == ConfigInv /\ [Next]_vars => ConfigInv'
BY ConfigValidate, ConfigAllocateIndex, ConfigRefuseGeometry,
   ConfigAllocateDirectory, ConfigPublish, ConfigUnchanged DEF Next

\* At every step of memx_index_create: the configuration is an accepted one
\* after validation, the index's fields are the guarded geometry once its
\* directory exists (region_count unless its shift is undefined), and the metadata blocks are those of the step reached.
THEOREM ConfigInvariant == Spec => []ConfigInv
BY ConfigInit, ConfigStep, PTL DEF Spec

-----------------------------------------------------------------------------
(***************************************************************************)
(* What a created index may rely on.                                        *)
(***************************************************************************)
LEMMA CreatedFacts ==
    ASSUME ConfigInv, Created
    PROVE  /\ config \in Inputs /\ Accepted(config)
           /\ Shaped(index, config) /\ GeometryStatus(index) = "OK"
BY DEF ConfigInv, StageInv, IndexInv, Past, Filled

\* A created index has a configuration the address arithmetic is sound on.
LEMMA CreatedIsUsable == ConfigInv => AcceptedIsUsable
<1> SUFFICES ASSUME ConfigInv, Created PROVE Address!UsableConfig
  BY DEF AcceptedIsUsable
<1>1. /\ config \in Inputs /\ Accepted(config) /\ Shaped(index, config)
  BY CreatedFacts
<1>2. PICK R, G : R = Pow2[config.region_shift] /\ G = Pow2[config.granule_shift]
  OBVIOUS
<1>3. /\ R \in Nat /\ R >= 1 /\ G \in Nat /\ G >= 1 /\ R % G = 0
      /\ (WordMax + 1) % R = 0
  <2>1. /\ config.region_shift \in Nat /\ config.granule_shift \in Nat
        /\ config.region_shift <= WordBits
        /\ config.granule_shift <= config.region_shift
    BY <1>1, InputFields, AcceptedFields, WordFacts
  <2>2. R \in Nat /\ R >= 1 /\ G \in Nat /\ G >= 1
    BY <1>2, <2>1, PowPositive
  <2>3. R % G = 0
    BY <1>2, <2>1, PowDivides
  <2>4. (WordMax + 1) % R = 0
    BY <1>2, <2>1, PowDivides, WordFacts
  <2> QED BY <2>2, <2>3, <2>4
<1>4. /\ WordMax \in Nat /\ config.base_address \in Nat
      /\ config.managed_size \in Nat /\ config.address_bits \in Nat
      /\ config.directory \in {"BOUNDED", "SPARSE"}
  BY <1>1, WordFacts, InputFields, AcceptedFields
<1>5. CASE config.directory = "BOUNDED"
  <2>1. BoundedRangeValid(config)
    BY <1>1, <1>5, AcceptedFields
  <2> QED BY <1>2, <1>3, <1>4, <1>5, <2>1
          DEF Address!UsableConfig, BoundedRangeValid, memx_is_aligned
<1>6. CASE config.directory = "SPARSE"
  <2>1. SparseRangeValid(config)
    BY <1>1, <1>6, AcceptedFields
  <2>2. PICK S, L : S = Pow2[config.address_bits] /\ L = index.sparse_leaf_count
    OBVIOUS
  <2>3. L \in Nat /\ L >= 1 /\ S % (R * L) = 0
    BY <1>1, <1>2, <1>6, <2>2, SparseGeometry, ShapedFields
  <2>4. S \in Nat /\ S >= 1 /\ S % R = 0 /\ S <= WordMax + 1
    <3>1. /\ config.region_shift \in Nat /\ config.address_bits \in Nat
          /\ config.region_shift <= config.address_bits
          /\ config.address_bits <= WordBits /\ WordBits \in Nat
      BY <1>1, <2>1, InputFields, WordFacts DEF SparseRangeValid
    <3> QED BY <1>2, <2>2, <3>1, PowPositive, PowDivides, WordFacts
  <2>5. 0 % R = 0
    BY <1>3
  <2> QED BY <1>2, <1>3, <1>4, <1>6, <2>1, <2>2, <2>3, <2>4, <2>5
          DEF Address!UsableConfig, SparseRangeValid
<1> QED BY <1>4, <1>5, <1>6

\* A created index has the sizes its configuration asks for, none wrapped.
LEMMA CreatedIsExact == ConfigInv => GeometryExact
<1> SUFFICES ASSUME ConfigInv, Created
             PROVE  /\ ShiftDefined(config) => index.region_count = Address!RegionCount
                    /\ index.granules_per_region = Address!GranulesPerRegion
                    /\ index.directory_bytes = DirectorySlots(index) * WordBytes
                    /\ index.dense_bytes = index.granules_per_region * WordBytes
                    /\ config.directory = "SPARSE" =>
                           index.sparse_root_count * index.sparse_leaf_count
                                = Address!RegionCount
  BY DEF GeometryExact
<1>1. /\ config \in Inputs /\ Accepted(config)
      /\ Shaped(index, config) /\ GeometryStatus(index) = "OK"
  BY CreatedFacts
<1>2. /\ ~(index.granules_per_region > WordMax \div WordBytes)
      /\ ~(DirectorySlots(index) > WordMax \div WordBytes)
  BY <1>1 DEF GeometryStatus
<1>3. /\ index.granules_per_region = Address!GranulesPerRegion
      /\ index.dense_bytes = index.granules_per_region * WordBytes
  <2>1. /\ index.granules_per_region \in Nat
        /\ index.granules_per_region
             = Pow2[config.region_shift] \div Pow2[config.granule_shift]
        /\ index.dense_bytes = Wrapped(index.granules_per_region * WordBytes)
    BY <1>1, GranuleGeometry, ShapedFields
  <2>2. Wrapped(index.granules_per_region * WordBytes)
            = index.granules_per_region * WordBytes
    BY <1>2, <2>1, GuardedProduct
  <2> QED BY <2>1, <2>2 DEF Address!GranulesPerRegion
<1>4. CASE config.directory = "BOUNDED"
  <2>1. /\ index.region_count \in Nat
        /\ index.region_count = config.managed_size \div Pow2[config.region_shift]
        /\ index.directory_bytes = Wrapped(index.region_count * WordBytes)
    BY <1>1, <1>4, BoundedGeometry, ShapedFields DEF ShiftDefined
  <2>2. DirectorySlots(index) = index.region_count
    BY <1>4 DEF DirectorySlots
  <2>3. Wrapped(index.region_count * WordBytes) = index.region_count * WordBytes
    BY <1>2, <2>1, <2>2, GuardedProduct
  <2> QED BY <1>3, <1>4, <2>1, <2>2, <2>3 DEF Address!RegionCount
<1>5. CASE config.directory = "SPARSE"
  <2>1. /\ index.sparse_root_count \in Nat
        /\ ShiftDefined(config) => index.region_count
             = Pow2[config.address_bits] \div Pow2[config.region_shift]
        /\ index.sparse_root_count * index.sparse_leaf_count
             = Pow2[config.address_bits] \div Pow2[config.region_shift]
        /\ index.directory_bytes = Wrapped(index.sparse_root_count * WordBytes)
    BY <1>1, <1>5, SparseGeometry, ShapedFields
  <2>2. DirectorySlots(index) = index.sparse_root_count
    BY <1>5 DEF DirectorySlots
  <2>3. Wrapped(index.sparse_root_count * WordBytes)
            = index.sparse_root_count * WordBytes
    BY <1>2, <2>1, <2>2, GuardedProduct
  <2> QED BY <1>3, <1>5, <2>1, <2>2, <2>3 DEF Address!RegionCount
<1>6. config.directory \in {"BOUNDED", "SPARSE"}
  BY <1>1, AcceptedFields
<1> QED BY <1>4, <1>5, <1>6

\* A call that did not return OK holds no memory.
LEMMA RefusedIsEmpty == ConfigInv => RefusalLeavesNothing
BY DEF ConfigInv, BlockInv, RefusalLeavesNothing, Filled, Created

\* memx_validate_config accepts only a configuration on which the address
\* arithmetic of lookups and mutations is sound: UsableConfig, which the models
\* of the index assume, holds of every index memx_index_create returns.
THEOREM ConfigAcceptedIsUsable == Spec => []AcceptedIsUsable
BY ConfigInvariant, CreatedIsUsable, PTL

\* With the guards of memx_index_create behind, no size has wrapped and the
\* two levels of a sparse directory reach every region exactly once, also in a
\* word that the directory resolves as a whole.  There the shift that gives
\* region_count is undefined, and region_count is all that is left open.
THEOREM ConfigGeometryExact == Spec => []GeometryExact
BY ConfigInvariant, CreatedIsExact, PTL

\* Every error return of memx_index_create has given back what it allocated.
THEOREM ConfigRefusalLeavesNothing == Spec => []RefusalLeavesNothing
BY ConfigInvariant, RefusedIsEmpty, PTL

-----------------------------------------------------------------------------
(***************************************************************************)
(* MemxClasses: sizes, powers of two and the class table.                   *)
(***************************************************************************)
LEMMA SizeFacts ==
    /\ SizeMax \in Nat /\ SizeMax + 1 = Pow2[WordBits] /\ SizeMax + 1 \in Nat
    /\ WordBits \in Nat
BY WordFacts DEF SizeMax

\* The powers of two up to the smallest span that holds every class.
LEMMA PowValues ==
    /\ Pow2[0] = 1 /\ Pow2[1] = 2 /\ Pow2[2] = 4 /\ Pow2[3] = 8 /\ Pow2[4] = 16
    /\ Pow2[5] = 32 /\ Pow2[6] = 64 /\ Pow2[7] = 128 /\ Pow2[8] = 256 /\ Pow2[9] = 512
    /\ Pow2[10] = 1024 /\ Pow2[11] = 2048 /\ Pow2[12] = 4096 /\ Pow2[13] = 8192
    /\ Pow2[14] = 16384
<1>1. \A k \in Nat : Pow2[k + 1] = 2 * Pow2[k]
  BY PowDefined
<1>2. Pow2[0] = 1
  BY PowDefined
<1>3. Pow2[1] = 2 /\ Pow2[2] = 4 /\ Pow2[3] = 8 /\ Pow2[4] = 16 /\ Pow2[5] = 32
  <2>1. Pow2[0 + 1] = 2
    BY <1>1, <1>2
  <2>2. Pow2[1 + 1] = 4
    BY <1>1, <2>1
  <2>3. Pow2[2 + 1] = 8
    BY <1>1, <2>2
  <2>4. Pow2[3 + 1] = 16
    BY <1>1, <2>3
  <2>5. Pow2[4 + 1] = 32
    BY <1>1, <2>4
  <2> QED BY <2>1, <2>2, <2>3, <2>4, <2>5
<1>4. Pow2[6] = 64 /\ Pow2[7] = 128 /\ Pow2[8] = 256 /\ Pow2[9] = 512 /\ Pow2[10] = 1024
  <2>1. Pow2[5 + 1] = 64
    BY <1>1, <1>3
  <2>2. Pow2[6 + 1] = 128
    BY <1>1, <2>1
  <2>3. Pow2[7 + 1] = 256
    BY <1>1, <2>2
  <2>4. Pow2[8 + 1] = 512
    BY <1>1, <2>3
  <2>5. Pow2[9 + 1] = 1024
    BY <1>1, <2>4
  <2> QED BY <2>1, <2>2, <2>3, <2>4, <2>5
<1>5. Pow2[11] = 2048 /\ Pow2[12] = 4096 /\ Pow2[13] = 8192 /\ Pow2[14] = 16384
  <2>1. Pow2[10 + 1] = 2048
    BY <1>1, <1>4
  <2>2. Pow2[11 + 1] = 4096
    BY <1>1, <2>1
  <2>3. Pow2[12 + 1] = 8192
    BY <1>1, <2>2
  <2>4. Pow2[13 + 1] = 16384
    BY <1>1, <2>3
  <2> QED BY <2>1, <2>2, <2>3, <2>4
<1> QED BY <1>2, <1>3, <1>4, <1>5

\* memx_heap_class_sizes, entry by entry.
LEMMA ClassTable ==
    /\ ClassCount = 19 /\ Classes = 0..18
    /\ ClassSize(0) = 16 /\ ClassSize(1) = 24 /\ ClassSize(2) = 32 /\ ClassSize(3) = 48
    /\ ClassSize(4) = 64 /\ ClassSize(5) = 96 /\ ClassSize(6) = 128 /\ ClassSize(7) = 192
    /\ ClassSize(8) = 256 /\ ClassSize(9) = 384 /\ ClassSize(10) = 512 /\ ClassSize(11) = 768
    /\ ClassSize(12) = 1024 /\ ClassSize(13) = 1536 /\ ClassSize(14) = 2048
    /\ ClassSize(15) = 3072 /\ ClassSize(16) = 4096 /\ ClassSize(17) = 6144
    /\ ClassSize(18) = 8192
<1>1. ClassCount = 19 /\ Classes = 0..18
  BY DEF ClassCount, Classes, memx_heap_class_sizes
<1> QED BY <1>1 DEF ClassSize, memx_heap_class_sizes

-----------------------------------------------------------------------------
(***************************************************************************)
(* The class of a request.                                                  *)
(***************************************************************************)
LEMMA BitWidthOf ==
    ASSUME NEW n \in 0..SizeMax
    PROVE  /\ BitWidth(n) \in 0..WordBits
           /\ n < Pow2[BitWidth(n)]
           /\ \A j \in 0..(BitWidth(n) - 1) : Pow2[j] <= n
<1>1. PICK A : A = {k \in Nat : n < Pow2[k]}
  OBVIOUS
<1>2. WordBits \in A
  BY <1>1, SizeFacts, ClassesAssumption
<1>3. PICK k \in A : \A m \in A : k <= m
  <2>1. A \in SUBSET Nat /\ A # {}
    BY <1>1, <1>2
  <2> QED BY <2>1, LeastElement
<1>4. k \in 0..WordBits /\ n < Pow2[k]
  BY <1>1, <1>2, <1>3, ClassesAssumption, SizeFacts
<1>5. ASSUME NEW j \in 0..(k - 1) PROVE Pow2[j] <= n
  <2>1. j \in Nat /\ j \notin A
    BY <1>3, <1>4
  <2>2. ~(n < Pow2[j])
    BY <1>1, <2>1
  <2> QED BY <2>1, <2>2, PowPositive, SizeFacts
<1>6. \E i \in 0..WordBits : n < Pow2[i] /\ \A j \in 0..(i - 1) : Pow2[j] <= n
  BY <1>4, <1>5
<1> QED BY <1>6 DEF BitWidth

\* memx_heap_class_for_size returns the smallest class that holds the size,
\* and no class when none does.
LEMMA ClassForSize ==
    ASSUME NEW size \in 1..SizeMax, NEW c, c = memx_heap_class_for_size(size)
    PROVE  /\ c \in Nat
           /\ c < ClassCount <=> size <= 8192
           /\ c < ClassCount =>
                /\ c \in Classes /\ ClassSize(c) >= size
                /\ \A d \in Classes : ClassSize(d) >= size => c <= d
<1>1. PICK value : value = size - 1
  OBVIOUS
<1>2. PICK k : k = BitWidth(value)
  OBVIOUS
<1>3. size \in Nat /\ size >= 1 /\ value \in Nat /\ value \in 0..SizeMax
  BY <1>1, SizeFacts
<1>4. /\ k \in Nat /\ value < Pow2[k]
      /\ \A j \in 0..(k - 1) : Pow2[j] <= value
  BY <1>2, <1>3, BitWidthOf, ClassesAssumption, SizeFacts
<1>5. CASE size <= 16
  <2>1. c = 0
    BY <1>5 DEF memx_heap_class_for_size
  <2> QED BY <2>1, <1>5, <1>3, ClassTable
<1>6. CASE ~(size <= 16)
  <2>1. value >= 16
    BY <1>1, <1>3, <1>6
  <2>2. k >= 5
    <3>1. value < Pow2[k]
      BY <1>4
    <3>2. ~(value < 1) /\ ~(value < 2) /\ ~(value < 4) /\ ~(value < 8) /\ ~(value < 16)
      BY <2>1, <1>3
    <3>3. k # 0 /\ k # 1 /\ k # 2 /\ k # 3 /\ k # 4
      BY <3>1, <3>2, PowValues
    <3> QED BY <3>3, <1>4
  <2>3. PICK u, half : u = Pow2[k - 2] /\ half = (value \div u) % 2
    OBVIOUS
  <2>4. c = (k - 5) * 2 + half + 1
    <3>1. ~(k < 5)
      BY <1>4, <2>2
    <3>2. c = (k - 5) * 2 + (((size - 1) \div Pow2[k - 2]) % 2) + 1
      BY <1>1, <1>2, <1>6, <3>1 DEF memx_heap_class_for_size
    <3> QED BY <3>2, <2>3, <1>1
  <2>5. u \in Nat /\ u >= 1 /\ half \in {0, 1}
    <3>1. k - 2 \in Nat
      BY <1>4, <2>2
    <3>2. u \in Nat /\ u >= 1
      BY <2>3, <3>1, PowPositive
    <3>3. value \div u \in Nat
      BY <1>3, <3>2
    <3> QED BY <2>3, <3>2, <3>3
  <2>6. CASE k >= 14
    <3>1. value >= Pow2[13]
      BY <1>4, <2>6
    <3>2. size > 8192
      BY <3>1, <1>1, <1>3, PowValues
    <3>3. c \in Nat /\ c >= 19
      BY <2>4, <2>5, <2>6, <1>4
    <3> QED BY <3>2, <3>3, <1>3, ClassTable
  <2>7. CASE k < 14
    <3> HIDE DEF memx_heap_class_for_size
    <3>1. k \in 5..13
      BY <1>4, <2>2, <2>7
    <3>2. value >= Pow2[k - 1]
      BY <1>4, <3>1
    <3>3. CASE k = 5
      <4>1. u = 8 /\ value >= 16 /\ value < 32
        BY <3>3, <3>2, <2>3, <1>4, PowValues
      <4> QED BY <4>1, <3>3, <2>3, <2>4, <1>1, <1>3, ClassTable
    <3>4. CASE k = 6
      <4>1. u = 16 /\ value >= 32 /\ value < 64
        BY <3>4, <3>2, <2>3, <1>4, PowValues
      <4> QED BY <4>1, <3>4, <2>3, <2>4, <1>1, <1>3, ClassTable
    <3>5. CASE k = 7
      <4>1. u = 32 /\ value >= 64 /\ value < 128
        BY <3>5, <3>2, <2>3, <1>4, PowValues
      <4> QED BY <4>1, <3>5, <2>3, <2>4, <1>1, <1>3, ClassTable
    <3>6. CASE k = 8
      <4>1. u = 64 /\ value >= 128 /\ value < 256
        BY <3>6, <3>2, <2>3, <1>4, PowValues
      <4> QED BY <4>1, <3>6, <2>3, <2>4, <1>1, <1>3, ClassTable
    <3>7. CASE k = 9
      <4>1. u = 128 /\ value >= 256 /\ value < 512
        BY <3>7, <3>2, <2>3, <1>4, PowValues
      <4> QED BY <4>1, <3>7, <2>3, <2>4, <1>1, <1>3, ClassTable
    <3>8. CASE k = 10
      <4>1. u = 256 /\ value >= 512 /\ value < 1024
        BY <3>8, <3>2, <2>3, <1>4, PowValues
      <4> QED BY <4>1, <3>8, <2>3, <2>4, <1>1, <1>3, ClassTable
    <3>9. CASE k = 11
      <4>1. u = 512 /\ value >= 1024 /\ value < 2048
        BY <3>9, <3>2, <2>3, <1>4, PowValues
      <4> QED BY <4>1, <3>9, <2>3, <2>4, <1>1, <1>3, ClassTable
    <3>10. CASE k = 12
      <4>1. u = 1024 /\ value >= 2048 /\ value < 4096
        BY <3>10, <3>2, <2>3, <1>4, PowValues
      <4> QED BY <4>1, <3>10, <2>3, <2>4, <1>1, <1>3, ClassTable
    <3>11. CASE k = 13
      <4>1. u = 2048 /\ value >= 4096 /\ value < 8192
        BY <3>11, <3>2, <2>3, <1>4, PowValues
      <4> QED BY <4>1, <3>11, <2>3, <2>4, <1>1, <1>3, ClassTable
    <3> QED BY <3>1, <3>3, <3>4, <3>5, <3>6, <3>7, <3>8, <3>9, <3>10, <3>11
  <2> QED BY <2>6, <2>7, <1>4
<1> QED BY <1>5, <1>6, <1>3

-----------------------------------------------------------------------------
(***************************************************************************)
(* What an accepted configuration is.                                       *)
(***************************************************************************)
LEMMA QuotientBounds ==
    ASSUME NEW u \in Nat, u >= 1, NEW x \in Nat
    PROVE  /\ x \div u \in Nat
           /\ (x \div u) * u <= x /\ x < (x \div u) * u + u
           /\ x >= u => x \div u >= 1
<1>1. PICK q \in Nat : q = x \div u
  OBVIOUS
<1>2. q * u <= x /\ x < q * u + u
  BY <1>1
<1>3. x >= u => q >= 1
  <2>1. q = 0 => q * u = 0
    OBVIOUS
  <2> QED BY <1>2, <2>1
<1> QED BY <1>1, <1>2, <1>3

\* A quotient is determined by the multiples around the dividend.
LEMMA QuotientIs ==
    ASSUME NEW u \in Nat, u >= 1, NEW x \in Nat, NEW q \in Nat, q * u <= x, x < q * u + u
    PROVE  x \div u = q
<1>1. PICK p \in Nat : p = x \div u
  OBVIOUS
<1>2. p * u <= x /\ x < p * u + u /\ p * u \in Nat /\ q * u \in Nat
  BY <1>1
<1>3. ~(p < q)
  <2>1. SUFFICES ASSUME p < q PROVE FALSE
    OBVIOUS
  <2>2. (p + 1) * u <= q * u
    BY <2>1, ProductMonotone
  <2>3. (p + 1) * u = p * u + u
    OBVIOUS
  <2> QED BY <1>2, <2>2, <2>3
<1>4. ~(q < p)
  <2>1. SUFFICES ASSUME q < p PROVE FALSE
    OBVIOUS
  <2>2. (q + 1) * u <= p * u
    BY <2>1, ProductMonotone
  <2>3. (q + 1) * u = q * u + u
    OBVIOUS
  <2> QED BY <1>2, <2>2, <2>3
<1> QED BY <1>1, <1>3, <1>4

\* What the checks of memx_heap_create and memx_os_reserve_aligned guarantee of
\* an accepted configuration.
LEMMA CreatableFacts ==
    ASSUME NEW c \in HeapConfigs, Creatable(c), NEW S, S = Pow2[c.span_shift]
    PROVE  /\ c.span_shift \in Nat /\ c.span_shift >= 14 /\ c.span_shift < WordBits
           /\ S \in Nat /\ S >= 16384 /\ S % 16 = 0
           /\ SizeMax >= 32767
           /\ c.reserve_size \in Nat /\ c.reserve_size >= S /\ c.reserve_size % S = 0
           /\ c.reserve_size + S <= SizeMax
           /\ c # NoConfig
<1>1. c.span_shift \in Nat /\ c.reserve_size \in 0..SizeMax
  BY ClassesAssumption, SizeFacts
<1>2. S \in Nat /\ S >= 1 /\ c.reserve_size \in Nat
  BY <1>1, PowPositive, SizeFacts
<1>3. c.span_shift < WordBits /\ SpanGeometryValid(S, c.reserve_size)
      /\ c.reserve_size <= SizeMax - S
  BY DEF Creatable, ValidConfig, Reservable
<1>4. S >= 8272
  <2>1. LargestStride # 0 /\ LargestStride <= S - SpanHeader
    BY <1>3 DEF SpanGeometryValid
  <2>2. ClassSize(ClassCount - 1) = 8192
    BY ClassTable
  <2>3. LargestStride = 8208
    BY <2>1, <2>2 DEF LargestStride, memx_heap_align_up, BlockHeader, MaxAlign
  <2> QED BY <1>2, <2>1, <2>3 DEF SpanHeader
<1>5. c.span_shift >= 14
  <2>1. SUFFICES ASSUME c.span_shift < 14 PROVE FALSE
    BY <1>1
  <2>2. Pow2[c.span_shift] <= Pow2[13]
    BY <1>1, <2>1, PowDivides
  <2> QED BY <2>2, <1>2, <1>4, PowValues
<1>6. S >= 16384 /\ S % 16 = 0
  <2>1. Pow2[14] <= S /\ S % Pow2[4] = 0
    BY <1>1, <1>5, PowDivides
  <2> QED BY <2>1, PowValues
<1>7. SizeMax >= 32767
  <2>1. 2 * S <= Pow2[WordBits]
    BY <1>1, <1>3, ClassesAssumption, SizeFacts, PowGrows
  <2> QED BY <2>1, <1>2, <1>6, SizeFacts
<1>8. c.reserve_size >= S /\ c.reserve_size % S = 0
  <2>1. c.reserve_size # 0 /\ c.reserve_size % S = 0
    BY <1>3 DEF SpanGeometryValid
  <2>2. 0 % S = 0 /\ 0 < c.reserve_size
    BY <1>2, <2>1
  <2>3. 0 + S <= c.reserve_size
    BY <1>2, <2>1, <2>2, MultipleGap
  <2> QED BY <2>1, <2>3, <1>2
<1>9. c # NoConfig
  BY <1>5 DEF NoConfig
<1> QED BY <1>1, <1>2, <1>3, <1>5, <1>6, <1>7, <1>8, <1>9, SizeFacts

\* The stride of a class: the header and the payload, rounded up.
LEMMA StrideFacts ==
    ASSUME NEW c \in Classes, SizeMax >= 32767
    PROVE  /\ ClassSize(c) \in Nat /\ ClassSize(c) >= 16
           /\ BlockStride(c) \in Nat /\ BlockStride(c) >= 32 /\ BlockStride(c) <= 8208
           /\ BlockStride(c) % 16 = 0
           /\ BlockHeader + ClassSize(c) <= BlockStride(c)
<1>1. ClassSize(c) \in Nat /\ ClassSize(c) >= 16 /\ ClassSize(c) <= 8192
  BY ClassTable
<1>2. BlockStride(c) = ((ClassSize(c) + 31) \div 16) * 16
  BY <1>1, SizeFacts DEF BlockStride, memx_heap_align_up, BlockHeader, MaxAlign
<1> QED BY <1>1, <1>2 DEF BlockHeader

-----------------------------------------------------------------------------
(***************************************************************************)
(* Requests.                                                                *)
(***************************************************************************)
\* What RequestServed says of the last request, for any request.
Served(r) ==
    LET bytes == AtLeastOne(r.count * r.size)
        aligned == r.align \in {Pow2[k] : k \in 3..(WordBits - 1)}
    IN  /\ r.to = "small" =>
              /\ r.class \in Fitting(bytes)
              /\ \A c \in Fitting(bytes) : r.class <= c
              /\ r.align <= MaxAlign
        /\ r.to = "large" => Fitting(bytes) = {} \/ r.align > MaxAlign
        /\ r.to = "null" <=> r # NoCallYet /\ (bytes > SizeMax \/ ~aligned)

\* The fields of a request and of the answers to it.
LEMMA RequestFields ==
    ASSUME NEW n, NEW s, NEW a, NEW c
    PROVE  /\ Request(n, s, a) = [count |-> n, size |-> s, align |-> a, to |-> "null", class |-> 0]
           /\ Small(Request(n, s, a), c)
                = [count |-> n, size |-> s, align |-> a, to |-> "small", class |-> c]
           /\ Large(Request(n, s, a))
                = [count |-> n, size |-> s, align |-> a, to |-> "large", class |-> 0]
<1>1. PICK r : r = [count |-> n, size |-> s, align |-> a, to |-> "null", class |-> 0]
  OBVIOUS
<1>2. [r EXCEPT !.to = "large"] = [count |-> n, size |-> s, align |-> a, to |-> "large", class |-> 0]
  BY <1>1
<1>3. PICK m : m = [r EXCEPT !.to = "small"]
  OBVIOUS
<1>4. m = [count |-> n, size |-> s, align |-> a, to |-> "small", class |-> 0]
  BY <1>1, <1>3
<1>5. [m EXCEPT !.class = c] = [count |-> n, size |-> s, align |-> a, to |-> "small", class |-> c]
  BY <1>4
<1>6. Request(n, s, a) = r
  BY <1>1 DEF Request
<1>7. Large(Request(n, s, a)) = [r EXCEPT !.to = "large"]
  BY <1>6 DEF Large
<1>8. Small(Request(n, s, a), c) = [m EXCEPT !.class = c]
  BY <1>6, <1>3 DEF Small
<1> QED BY <1>1, <1>2, <1>5, <1>6, <1>7, <1>8

\* A product that is a size, and an alignment that is one.
LEMMA RouteServed ==
    ASSUME SizeMax >= 32767, NEW n \in Nat, NEW s \in Nat, NEW a \in Nat, n * s <= SizeMax,
           a \in {Pow2[k] : k \in 3..(WordBits - 1)},
           NEW r, r = Route(Request(n, s, a), n * s)
    PROVE  Served(r)
<1>1. PICK bytes : bytes = AtLeastOne(n * s)
  OBVIOUS
<1>2. bytes \in 1..SizeMax /\ bytes \in Nat
  <2>1. n * s \in Nat
    OBVIOUS
  <2> QED BY <1>1, <2>1, SizeFacts DEF AtLeastOne
<1>3. PICK c : c = memx_heap_class_for_size(bytes)
  OBVIOUS
<1>4. /\ c \in Nat
      /\ c < ClassCount <=> bytes <= 8192
      /\ c < ClassCount => /\ c \in Classes /\ ClassSize(c) >= bytes
                           /\ \A d \in Classes : ClassSize(d) >= bytes => c <= d
  BY <1>2, <1>3, ClassForSize
<1>5. r = IF a <= MaxAlign /\ c < ClassCount
          THEN Small(Request(n, s, a), c) ELSE Large(Request(n, s, a))
  <2>1. Request(n, s, a).align = a
    BY DEF Request
  <2> QED BY <1>1, <1>3, <2>1 DEF Route
<1>6. ~(bytes > SizeMax)
  BY <1>2, SizeFacts
<1>7. CASE a <= MaxAlign /\ c < ClassCount
  <2>1. r = [count |-> n, size |-> s, align |-> a, to |-> "small", class |-> c]
    BY <1>5, <1>7, RequestFields
  <2>2. c \in Fitting(bytes) /\ \A d \in Fitting(bytes) : c <= d
    BY <1>4, <1>7 DEF Fitting
  <2>3. /\ r.count = n /\ r.size = s /\ r.align = a /\ r.to = "small" /\ r.class = c
    BY <2>1
  <2> QED BY <2>2, <2>3, <1>1, <1>6, <1>7 DEF Served
<1>8. CASE ~(a <= MaxAlign /\ c < ClassCount)
  <2>1. r = [count |-> n, size |-> s, align |-> a, to |-> "large", class |-> 0]
    BY <1>5, <1>8, RequestFields
  <2>2. Fitting(bytes) = {} \/ a > MaxAlign
    <3>1. CASE ~(a <= MaxAlign)
      BY <3>1 DEF MaxAlign
    <3>2. CASE ~(c < ClassCount)
      <4>1. bytes > 8192
        BY <3>2, <1>4, <1>2
      <4>2. \A d \in Classes : ~(ClassSize(d) >= bytes)
        BY <4>1, <1>2, ClassTable
      <4> QED BY <4>2 DEF Fitting
    <3> QED BY <1>8, <3>1, <3>2
  <2>3. r.count = n /\ r.size = s /\ r.align = a /\ r.to = "large"
    BY <2>1
  <2> QED BY <2>2, <2>3, <1>1, <1>6 DEF Served
<1> QED BY <1>7, <1>8

\* The alignments memx_heap_aligned_alloc takes are the powers of two from the
\* size of a pointer on.
LEMMA AlignmentOf ==
    ASSUME NEW a \in Nat
    PROVE  (~(a < PointerSize) /\ memx_heap_power_of_two(a))
                <=> a \in {Pow2[k] : k \in 3..(WordBits - 1)}
<1>1. ASSUME NEW k \in 0..(WordBits - 1), a = Pow2[k], ~(a < PointerSize)
      PROVE  k \in 3..(WordBits - 1)
  <2>1. SUFFICES ASSUME k < 3 PROVE FALSE
    BY ClassesAssumption, SizeFacts
  <2>2. k = 0 \/ k = 1 \/ k = 2
    BY <2>1
  <2> QED BY <1>1, <2>2, PowValues DEF PointerSize
<1>2. ASSUME NEW k \in 3..(WordBits - 1), a = Pow2[k]
      PROVE  ~(a < PointerSize)
  <2>1. k \in Nat /\ 3 <= k
    BY ClassesAssumption, SizeFacts
  <2>2. Pow2[3] <= Pow2[k]
    BY <2>1, PowDivides
  <2> QED BY <1>2, <2>2, PowValues DEF PointerSize
<1>3. ASSUME NEW k \in 3..(WordBits - 1) PROVE k \in 0..(WordBits - 1)
  BY ClassesAssumption, SizeFacts
<1> QED BY <1>1, <1>2, <1>3 DEF memx_heap_power_of_two

\* A request refused for its alignment or for its product is served as
\* RequestServed asks.
LEMMA RefusedServed ==
    ASSUME NEW n, NEW s, NEW a, NEW r, r = Request(n, s, a),
           AtLeastOne(n * s) > SizeMax \/ a \notin {Pow2[k] : k \in 3..(WordBits - 1)}
    PROVE  Served(r)
<1>1. r = [count |-> n, size |-> s, align |-> a, to |-> "null", class |-> 0]
  BY RequestFields
<1>2. r.count = n /\ r.size = s /\ r.align = a /\ r.to = "null"
  BY <1>1
<1>3. r # NoCallYet
  BY <1>2 DEF NoCallYet
<1> QED BY <1>2, <1>3 DEF Served

\* The alignment of malloc and calloc is one memx_heap_aligned_alloc takes.
LEMMA MaxAlignAligned ==
    ASSUME SizeMax >= 32767
    PROVE  MaxAlign \in {Pow2[k] : k \in 3..(WordBits - 1)}
<1>1. WordBits > 5
  <2>1. SUFFICES ASSUME WordBits <= 5 PROVE FALSE
    BY ClassesAssumption, SizeFacts
  <2>2. Pow2[WordBits] <= Pow2[5]
    BY <2>1, ClassesAssumption, SizeFacts, PowDivides
  <2> QED BY <2>2, SizeFacts, PowValues
<1>2. 4 \in 3..(WordBits - 1)
  BY <1>1, ClassesAssumption, SizeFacts
<1> QED BY <1>2, PowValues DEF MaxAlign

\* memx_heap_malloc serves every size.
LEMMA MallocServed ==
    ASSUME SizeMax >= 32767, NEW size \in 0..SizeMax
    PROVE  /\ Served(memx_heap_malloc(size))
           /\ memx_heap_malloc(size).to \in {"small", "large"}
           /\ memx_heap_malloc(size).class \in Nat
           /\ memx_heap_malloc(size).to = "small" =>
                /\ memx_heap_malloc(size).class \in Classes
                /\ ClassSize(memx_heap_malloc(size).class) >= AtLeastOne(size)
<1>1. size \in Nat /\ 1 * size = size
  BY SizeFacts
<1>2. MaxAlign \in {Pow2[k] : k \in 3..(WordBits - 1)}
  BY MaxAlignAligned
<1>3. PICK r : r = memx_heap_malloc(size)
  OBVIOUS
<1>4. r = Route(Request(1, size, MaxAlign), 1 * size)
  BY <1>1, <1>3 DEF memx_heap_malloc
<1>5. Served(r)
  BY <1>1, <1>2, <1>4, RouteServed DEF MaxAlign
<1>6. PICK c : c = memx_heap_class_for_size(AtLeastOne(size))
  OBVIOUS
<1>7. /\ c \in Nat
      /\ c < ClassCount => c \in Classes /\ ClassSize(c) >= AtLeastOne(size)
  <2>1. AtLeastOne(size) \in 1..SizeMax
    BY <1>1, SizeFacts DEF AtLeastOne
  <2> QED BY <1>6, <2>1, ClassForSize
<1>8. \/ c < ClassCount /\ r = Small(Request(1, size, MaxAlign), c)
      \/ r = Large(Request(1, size, MaxAlign))
  BY <1>1, <1>4, <1>6 DEF Route
<1>9. \/ c < ClassCount /\ r = [count |-> 1, size |-> size, align |-> MaxAlign, to |-> "small", class |-> c]
      \/ r = [count |-> 1, size |-> size, align |-> MaxAlign, to |-> "large", class |-> 0]
  BY <1>8, RequestFields
<1> QED BY <1>3, <1>5, <1>7, <1>9

\* memx_heap_aligned_alloc serves or refuses every alignment and size.
LEMMA AlignedServed ==
    ASSUME SizeMax >= 32767, NEW a \in 0..SizeMax, NEW size \in 0..SizeMax
    PROVE  Served(memx_heap_aligned_alloc(a, size))
<1>1. size \in Nat /\ a \in Nat /\ 1 * size = size /\ size <= SizeMax
  BY SizeFacts
<1>2. CASE a < PointerSize \/ ~memx_heap_power_of_two(a)
  <2>1. memx_heap_aligned_alloc(a, size) = Request(1, size, a)
    BY <1>2 DEF memx_heap_aligned_alloc
  <2>2. a \notin {Pow2[k] : k \in 3..(WordBits - 1)}
    BY <1>1, <1>2, AlignmentOf
  <2> QED BY <2>1, <2>2, RefusedServed
<1>3. CASE ~(a < PointerSize \/ ~memx_heap_power_of_two(a))
  <2>1. memx_heap_aligned_alloc(a, size) = Route(Request(1, size, a), 1 * size)
    BY <1>1, <1>3 DEF memx_heap_aligned_alloc
  <2>2. a \in {Pow2[k] : k \in 3..(WordBits - 1)}
    BY <1>1, <1>3, AlignmentOf
  <2> QED BY <1>1, <2>1, <2>2, RouteServed
<1> QED BY <1>2, <1>3

\* memx_heap_calloc refuses exactly the products that are no word; no product it
\* serves has wrapped.
LEMMA CallocServed ==
    ASSUME SizeMax >= 32767, NEW n \in 0..SizeMax, NEW size \in 0..SizeMax
    PROVE  Served(memx_heap_calloc(n, size))
<1>1. size \in Nat /\ n \in Nat /\ n * size \in Nat
  BY SizeFacts
<1>2. CASE n # 0 /\ size > SizeMax \div n
  <2>1. memx_heap_calloc(n, size) = Request(n, size, MaxAlign)
    BY <1>2 DEF memx_heap_calloc
  <2>2. n * size > SizeMax
    <3>1. PICK q \in Nat : q = SizeMax \div n
      BY <1>1, <1>2, SizeFacts, QuotientBounds
    <3>2. SizeMax < q * n + n
      BY <1>1, <1>2, <3>1, SizeFacts, QuotientBounds
    <3>3. (q + 1) * n <= size * n
      BY <1>1, <1>2, <3>1, ProductMonotone
    <3>4. (q + 1) * n = q * n + n /\ size * n = n * size /\ q * n \in Nat
      BY <1>1
    <3> QED BY <3>2, <3>3, <3>4, <1>1, SizeFacts
  <2>3. AtLeastOne(n * size) > SizeMax
    BY <2>2, <1>1, SizeFacts DEF AtLeastOne
  <2> QED BY <2>1, <2>3, RefusedServed
<1>3. CASE ~(n # 0 /\ size > SizeMax \div n)
  <2>1. n * size <= SizeMax
    <3>1. CASE n = 0
      BY <3>1, <1>1, SizeFacts
    <3>2. CASE n # 0
      <4>1. size <= SizeMax \div n
        BY <1>1, <1>3, <3>2, SizeFacts, QuotientBounds
      <4>2. size * n <= SizeMax
        BY <4>1, <1>1, <3>2, SizeFacts, BelowQuotient
      <4> QED BY <4>2, <1>1
    <3> QED BY <3>1, <3>2
  <2>2. (n * size) % (SizeMax + 1) = n * size
    BY <2>1, <1>1, SizeFacts
  <2>3. memx_heap_calloc(n, size) = Route(Request(n, size, MaxAlign), n * size)
    BY <1>3, <2>2 DEF memx_heap_calloc
  <2>4. MaxAlign \in {Pow2[k] : k \in 3..(WordBits - 1)} /\ MaxAlign \in Nat
    BY MaxAlignAligned DEF MaxAlign
  <2> QED BY <1>1, <2>1, <2>3, <2>4, RouteServed
<1> QED BY <1>2, <1>3

-----------------------------------------------------------------------------
(***************************************************************************)
(* The inductive invariant: a heap being made or in use has a configuration *)
(* that memx_heap_create accepts; the call of memx_index_create it makes is *)
(* in a state ConfigInv describes, for its arena; its spans fit its arena;  *)
(* the last request was served; and the block being resized is what malloc  *)
(* returns for its size.                                                    *)
(***************************************************************************)
AcceptInv == heap_config # NoConfig => heap_config \in HeapConfigs /\ Creatable(heap_config)

\* The index configuration c is the one for the arena of the heap h.
ForArena(c, h) ==
    /\ c.directory = "BOUNDED" /\ c.enums_valid /\ c.callbacks # "one"
    /\ c.region_shift = h.span_shift /\ c.granule_shift = 12
    /\ c.managed_size = h.reserve_size
    /\ c.base_address \in Nat /\ Placed(h, c.base_address)

IndexCallInv ==
    /\ heap_config = NoConfig => pc = "idle"
    /\ heap_config # NoConfig =>
          ConfigInv /\ ForArena(config, heap_config)
            /\ (pc = "returned" => status \in {"OK", "OUT_OF_MEMORY"})

SpanInv ==
    /\ spans \in Seq(Classes)
    /\ spans # << >> => Live
    /\ Live => Len(spans) <= SpanCapacity

BlockHeld ==
    /\ block.to \in {"small", "large"} /\ block.class \in Nat
    /\ block.to = "small" => block.class \in Classes
    /\ block.requested_size \in 1..SizeMax

ResizeInv ==
    /\ block # NoBlock => Live /\ BlockHeld
    /\ block \in [to : {"none", "small", "large"}, class : Nat, requested_size : Nat]
    /\ last.old \in Nat /\ last.kept \in Nat

ClassesInv ==
    AcceptInv /\ IndexCallInv /\ SpanInv /\ RequestServed /\ ResizeInv /\ ReallocExact

\* The arena of a heap is a whole number of spans.
LEMMA LiveFacts ==
    ASSUME AcceptInv, Live
    PROVE  /\ heap_config.span_shift \in Nat /\ heap_config.span_shift >= 14 /\ heap_config.span_shift < WordBits
           /\ SpanSize \in Nat /\ SpanSize >= 16384 /\ SpanSize % 16 = 0
           /\ SizeMax >= 32767
           /\ heap_config.reserve_size \in Nat /\ heap_config.reserve_size >= SpanSize
           /\ heap_config.reserve_size % SpanSize = 0
           /\ heap_config.reserve_size + SpanSize <= SizeMax
           /\ SpanCapacity \in Nat /\ SpanCapacity > 0
           /\ SpanCapacity * SpanSize = heap_config.reserve_size
<1>1. heap_config \in HeapConfigs /\ Creatable(heap_config) /\ SpanSize = Pow2[heap_config.span_shift]
  BY DEF AcceptInv, SpanSize, Live
<1>2. /\ heap_config.span_shift \in Nat /\ heap_config.span_shift >= 14 /\ heap_config.span_shift < WordBits
      /\ SpanSize \in Nat /\ SpanSize >= 16384 /\ SpanSize % 16 = 0
      /\ SizeMax >= 32767
      /\ heap_config.reserve_size \in Nat /\ heap_config.reserve_size >= SpanSize
      /\ heap_config.reserve_size % SpanSize = 0
      /\ heap_config.reserve_size + SpanSize <= SizeMax
  BY <1>1, CreatableFacts
<1>3. PICK q \in Int : heap_config.reserve_size = SpanSize * q
  <2>1. PICK S \in Nat, R \in Int : S = SpanSize /\ R = heap_config.reserve_size
    BY <1>2
  <2>2. S >= 1 /\ R % S = 0
    BY <1>2, <2>1
  <2>3. \E q \in Int : R = S * q
    BY <2>2, MultipleOf
  <2> QED BY <2>1, <2>3
<1>4. q \in Nat /\ q >= 1
  <2>1. CASE q <= 0
    <3>1. SpanSize * q <= 0
      BY <1>2, <2>1
    <3> QED BY <1>2, <1>3, <3>1
  <2> QED BY <1>3, <2>1
<1>5. SpanCapacity = q
  BY <1>2, <1>3, <1>4, ExactQuotient DEF SpanCapacity
<1>6. q * SpanSize = SpanSize * q
  BY <1>2, <1>4
<1> QED BY <1>2, <1>3, <1>4, <1>5, <1>6

\* RequestServed is about the last request only.
LEMMA RequestServedIs == RequestServed <=> Served(call)
BY DEF RequestServed, Served

\* Before the first memx_heap_create.
LEMMA ClassesInitially == ClassesInit => ClassesInv
<1> SUFFICES ASSUME ClassesInit PROVE ClassesInv
  OBVIOUS
<1> USE DEF ClassesInit
<1>1. ~Live /\ AcceptInv /\ IndexCallInv
  BY DEF Live, AcceptInv, IndexCallInv
<1>2. SpanInv
  BY <1>1 DEF SpanInv
<1>3. RequestServed
  BY DEF RequestServed, NoCallYet
<1>4. ResizeInv
  BY DEF ResizeInv, NoBlock
<1>5. ReallocExact
  BY DEF ReallocExact, NoBlock, memx_heap_usable_size, Smaller
<1> QED BY <1>1, <1>2, <1>3, <1>4, <1>5 DEF ClassesInv

\* A step that leaves the block alone.
LEMMA ResizeKept ==
    ASSUME ResizeInv, ReallocExact, UNCHANGED resize, Live => Live'
    PROVE  ResizeInv' /\ ReallocExact'
<1>1. block' = block /\ live_requested_bytes' = live_requested_bytes /\ last' = last
  BY DEF resize
<1> QED BY <1>1 DEF ResizeInv, ReallocExact, BlockHeld, memx_heap_usable_size

\* The index over the arena of an accepted heap: the configuration is one of
\* those MemxConfig is about, it is accepted, and no guard on its sizes refuses.
LEMMA ArenaAccepted ==
    ASSUME NEW h \in HeapConfigs, Creatable(h), NEW c \in Inputs, ForArena(c, h),
           config.directory = "BOUNDED"
    PROVE  Accepted(c) /\ GeometryStatus(Geometry(c)) = "OK"
<1>1. PICK S, R : S = Pow2[h.span_shift] /\ R = h.reserve_size
  OBVIOUS
<1>2. /\ h.span_shift \in Nat /\ h.span_shift >= 14 /\ h.span_shift < WordBits
      /\ S \in Nat /\ S >= 16384
      /\ R \in Nat /\ R >= S /\ R % S = 0 /\ R + S <= SizeMax
  BY <1>1, CreatableFacts
<1>3. SizeMax = WordMax /\ WordMax \in Nat /\ WordBits \in Nat /\ WordBytes = 8
  BY SizeFacts, ClassesAssumption DEF SizeMax, PointerSize
<1>4. Accepted(c)
  <2>1. /\ memx_shift_valid(c.region_shift) /\ memx_shift_valid(c.granule_shift)
        /\ ~(c.region_shift < c.granule_shift)
    BY <1>2, <1>3 DEF memx_shift_valid, ForArena
  <2>2. BoundedRangeValid(c)
    <3>1. /\ c.base_address \in Nat /\ c.base_address % S = 0
          /\ R # 0 /\ R <= WordMax - c.base_address
      BY <1>1, <1>2, <1>3 DEF ForArena, Placed
    <3> QED BY <1>1, <1>2, <3>1 DEF BoundedRangeValid, memx_is_aligned, ForArena
  <2> QED BY <2>1, <2>2 DEF Accepted, memx_validate_config, ForArena
<1>5. PICK g : g = Geometry(c)
  OBVIOUS
<1>6. ~(g.granules_per_region > WordMax \div WordBytes)
  <2>1. g.granules_per_region = Pow2[h.span_shift - 12]
    BY <1>5 DEF Geometry, ForArena
  <2>2. PICK n : n = Pow2[h.span_shift - 12]
    OBVIOUS
  <2>3. h.span_shift - 12 \in Nat /\ h.span_shift - 12 + 3 \in Nat
    BY <1>2
  <2>4. n \in Nat /\ Pow2[h.span_shift - 12 + 3] = n * 8
    <3>1. Pow2[h.span_shift - 12 + 3] = Pow2[h.span_shift - 12] * Pow2[3]
      BY <2>3, PowSum
    <3>2. Pow2[3] = 8 /\ n \in Nat
      BY <2>2, <2>3, PowPositive, PowValues
    <3> QED BY <2>2, <3>1, <3>2
  <2>5. Pow2[h.span_shift - 12 + 3] <= Pow2[h.span_shift]
    <3>1. PICK j \in Nat, k \in Nat : j = h.span_shift - 12 + 3 /\ k = h.span_shift
      BY <1>2, <2>3
    <3>2. j <= k
      BY <3>1
    <3>3. Pow2[j] <= Pow2[k]
      BY ONLY <3>2, PowDivides
    <3> QED BY ONLY <3>1, <3>3
  <2>6. n * 8 <= WordMax
    BY <1>1, <1>2, <1>3, <2>4, <2>5
  <2>7. ~(n > WordMax \div 8)
    BY <1>3, <2>4, <2>6
  <2> QED BY <1>3, <2>1, <2>2, <2>7
<1>7. ~(g.region_count > WordMax \div WordBytes)
  <2>1. g.region_count = R \div S
    BY <1>1, <1>5 DEF Geometry, ForArena
  <2>2. PICK n \in Nat : n = R \div S
    <3>1. S \in Nat /\ S >= 1 /\ R \in Nat
      BY <1>2
    <3>2. R \div S \in Nat
      BY ONLY <3>1, QuotientBounds
    <3> QED BY ONLY <3>2
  <2>3. n * S <= R
    <3>1. S \in Nat /\ S >= 1 /\ R \in Nat
      BY <1>2
    <3>2. (R \div S) * S <= R
      BY ONLY <3>1, QuotientBounds
    <3> QED BY ONLY <2>2, <3>2
  <2>4. n * 8 <= n * S
    <3>1. 8 * n <= S * n
      BY <1>2, ProductMonotone
    <3>2. 8 * n = n * 8 /\ S * n = n * S
      BY <1>2
    <3> QED BY <3>1, <3>2
  <2>5. n * 8 <= WordMax
    <3>1. n * S \in Nat
      BY <1>2
    <3> QED BY <1>2, <1>3, <2>3, <2>4, <3>1
  <2>6. ~(n > WordMax \div 8)
    BY <1>3, <2>5
  <2> QED BY <1>3, <2>1, <2>2, <2>6
<1>8. GeometryStatus(g) = "OK"
  BY <1>6, <1>7 DEF GeometryStatus, DirectorySlots
<1> QED BY <1>4, <1>5, <1>8

\* memx_heap_create passes the index configuration of its arena.
LEMMA CallFacts ==
    ASSUME NEW h \in HeapConfigs, Creatable(h), NEW base \in ArenaBases, Placed(h, base),
           NEW c, c = index_config(h, base)
    PROVE  c \in Inputs /\ ForArena(c, h)
<1>1. /\ h.span_shift \in Nat /\ h.span_shift >= 14 /\ h.span_shift < WordBits
      /\ Pow2[h.span_shift] \in Nat
      /\ h.reserve_size \in Nat /\ h.reserve_size + Pow2[h.span_shift] <= SizeMax
  BY CreatableFacts
<1>2. SizeMax = WordMax /\ WordMax \in Nat /\ WordBits \in Nat
  BY SizeFacts DEF SizeMax
<1>3. /\ c.directory = "BOUNDED" /\ c.region_shift = h.span_shift /\ c.granule_shift = 12
      /\ c.base_address = base /\ c.managed_size = h.reserve_size
      /\ c.address_bits = WordBits /\ c.enums_valid = TRUE /\ c.callbacks = "none"
  BY DEF index_config
<1>4. ForArena(c, h)
  <2>1. base \in Nat
    BY <1>2, ClassesAssumption
  <2> QED BY <1>3, <2>1 DEF ForArena
<1>5. /\ h.span_shift \in 0 .. WordBits /\ 12 \in 0 .. WordBits
      /\ base \in Words /\ h.reserve_size \in Words
  BY <1>1, <1>2, ClassesAssumption DEF Words
<1>6. c \in [directory : {"BOUNDED"}, region_shift : 0 .. WordBits,
             granule_shift : 0 .. WordBits, base_address : Words, managed_size : Words,
             address_bits : {WordBits}, enums_valid : BOOLEAN,
             callbacks : {"none", "one", "both"}]
  BY <1>5 DEF index_config
<1>7. c \in Inputs
  BY <1>3, <1>6 DEF Inputs, Configs
<1> QED BY <1>4, <1>7

\* A step that leaves heap_config and the index alone.
LEMMA IndexKept ==
    ASSUME IndexCallInv, UNCHANGED vars, heap_config' = heap_config
    PROVE  IndexCallInv' /\ Live' = Live
<1>1. heap_config # NoConfig => ConfigInv'
  BY ConfigUnchanged DEF IndexCallInv
<1> QED BY <1>1 DEF IndexCallInv, vars, Live, Created

\* A step that keeps the configuration of the heap and its index.
LEMMA ConfigKept ==
    ASSUME UNCHANGED vars, heap_config' = heap_config, AcceptInv, IndexCallInv
    PROVE  /\ Live' = Live /\ SpanSize' = SpanSize /\ SpanCapacity' = SpanCapacity
           /\ AcceptInv' /\ IndexCallInv'
           /\ spans' = spans /\ SpanInv => SpanInv'
<1>1. IndexCallInv' /\ Live' = Live
  BY IndexKept
<1>2. SpanSize' = SpanSize /\ SpanCapacity' = SpanCapacity
  BY DEF SpanSize, SpanCapacity
<1>3. AcceptInv'
  BY DEF AcceptInv, Creatable, ValidConfig, Reservable
<1>4. spans' = spans /\ SpanInv => SpanInv'
  BY <1>1, <1>2 DEF SpanInv
<1> QED BY <1>1, <1>2, <1>3, <1>4

\* A step that changes nothing the invariant reads.
LEMMA HeapKept ==
    ASSUME ClassesInv, UNCHANGED vars, heap_config' = heap_config, spans' = spans, call' = call,
           UNCHANGED resize
    PROVE  ClassesInv'
<1> USE DEF ClassesInv
<1>1. AcceptInv' /\ IndexCallInv' /\ SpanInv' /\ Live' = Live
  BY ConfigKept
<1>2. ResizeInv' /\ ReallocExact'
  BY <1>1, ResizeKept
<1>3. RequestServed'
  BY DEF RequestServed
<1> QED BY <1>1, <1>2, <1>3

\* memx_heap_create starts an index over its arena.
LEMMA CreateKeeps ==
    ASSUME ClassesInv, NEW c \in HeapConfigs, NEW base \in ArenaBases, Create(c, base)
    PROVE  ClassesInv'
<1> USE DEF ClassesInv
<1>1. /\ heap_config = NoConfig /\ Creatable(c) /\ heap_config' = c
      /\ config' = index_config(c, base) /\ Placed(c, base) /\ live' = 0 /\ pc' = "call"
      /\ spans' = spans /\ call' = call /\ UNCHANGED resize
  BY DEF Create
<1>2. ~Live /\ spans = << >>
  BY <1>1 DEF SpanInv, Live
<1>3. ResizeInv' /\ ReallocExact'
  BY <1>1, <1>2, ResizeKept
<1>4. RequestServed'
  BY <1>1 DEF RequestServed
<1>5. AcceptInv'
  BY <1>1 DEF AcceptInv, Creatable, ValidConfig, Reservable
<1>6. IndexCallInv'
  <2>1. config' \in Inputs /\ ForArena(config', c)
    BY <1>1, CallFacts
  <2>2. ~Past' /\ ~Filled'
    BY <1>1 DEF Past, Filled, Created
  <2>3. ConfigInv'
    BY <1>1, <2>1, <2>2 DEF ConfigInv, StageInv, IndexInv, BlockInv
  <2>4. ForArena(config, heap_config)'
    BY <1>1, <2>1 DEF ForArena, Placed
  <2>5. c # NoConfig
    BY <1>1, CreatableFacts
  <2> QED BY <1>1, <2>3, <2>4, <2>5 DEF IndexCallInv
<1>7. SpanInv'
  <2>1. ~Live'
    BY <1>1 DEF Live, Created
  <2> QED BY <1>1, <1>2, <2>1 DEF SpanInv
<1> QED BY <1>3, <1>4, <1>5, <1>6, <1>7

\* memx_heap_create refuses a configuration.
LEMMA CreateRefusedKeeps ==
    ASSUME ClassesInv, NEW c \in HeapConfigs, CreateRefused(c)
    PROVE  ClassesInv'
<1> USE DEF ClassesInv
<1>1. /\ UNCHANGED vars /\ heap_config' = heap_config
      /\ spans' = spans /\ call' = call /\ UNCHANGED resize
  BY DEF CreateRefused
<1> QED BY <1>1, HeapKept

\* The steps of memx_index_create.
LEMMA CreateIndexKeeps ==
    ASSUME ClassesInv, CreateIndex
    PROVE  ClassesInv'
<1> USE DEF ClassesInv
<1>1. /\ Next /\ heap_config' = heap_config /\ spans' = spans /\ call' = call
      /\ UNCHANGED resize
  BY DEF CreateIndex, heap_vars
<1>2. pc # "idle" /\ pc # "returned" /\ ~Live
  BY <1>1 DEF Next, Validate, AllocateIndex, RefuseGeometry, AllocateDirectory, Publish,
              Live, Created
<1>3. heap_config # NoConfig /\ ConfigInv /\ ForArena(config, heap_config)
      /\ heap_config \in HeapConfigs /\ Creatable(heap_config)
  BY <1>2 DEF IndexCallInv, AcceptInv
<1>4. config \in Inputs /\ config.directory = "BOUNDED"
  BY <1>3 DEF ConfigInv, StageInv, ForArena
<1>5. Accepted(config) /\ GeometryStatus(Geometry(config)) = "OK"
  BY <1>3, <1>4, ArenaAccepted
<1>6. ConfigInv'
  BY <1>1, <1>3, ConfigStep
<1>7. ForArena(config, heap_config)' /\ (pc' = "returned" => status' \in {"OK", "OUT_OF_MEMORY"})
  <2>1. CASE Validate
    <3>1. memx_validate_config(config) = "OK"
      BY <1>5 DEF Accepted
    <3>2. pc' = "validated" /\ config' = [config EXCEPT !.callbacks = "both"]
      BY <2>1, <3>1 DEF Validate
    <3>3. /\ config'.directory = config.directory /\ config'.region_shift = config.region_shift
          /\ config'.granule_shift = config.granule_shift
          /\ config'.base_address = config.base_address
          /\ config'.managed_size = config.managed_size
          /\ config'.enums_valid = config.enums_valid /\ config'.callbacks = "both"
      BY <1>4, <3>2 DEF Inputs, Configs
    <3> QED BY <1>1, <1>3, <3>2, <3>3 DEF ForArena, Placed
  <2>2. CASE AllocateIndex \/ AllocateDirectory \/ Publish
    <3>1. config' = config
      BY <2>2 DEF AllocateIndex, AllocateDirectory, Publish
    <3>2. pc' = "returned" => status' \in {"OK", "OUT_OF_MEMORY"}
      BY <2>2 DEF AllocateIndex, AllocateDirectory, Publish, Return
    <3> QED BY <1>1, <1>3, <3>1, <3>2 DEF ForArena, Placed
  <2>3. CASE RefuseGeometry
    BY <1>5, <2>3 DEF RefuseGeometry
  <2> QED BY <1>1, <2>1, <2>2, <2>3 DEF Next
<1>8. AcceptInv' /\ IndexCallInv'
  BY <1>1, <1>3, <1>6, <1>7 DEF AcceptInv, IndexCallInv, Creatable, ValidConfig, Reservable
<1>9. SpanInv'
  <2>1. spans = << >>
    BY <1>2 DEF SpanInv
  <2>2. Live' => SpanCapacity' \in Nat
    <3>1. SpanCapacity' = heap_config.reserve_size \div Pow2[heap_config.span_shift]
      BY <1>1 DEF SpanCapacity, SpanSize
    <3>2. /\ heap_config.reserve_size \in Nat /\ Pow2[heap_config.span_shift] \in Nat
          /\ Pow2[heap_config.span_shift] >= 1
      BY <1>3, CreatableFacts
    <3> QED BY <3>1, <3>2, QuotientBounds
  <2> QED BY <1>1, <2>1, <2>2 DEF SpanInv
<1>10. ResizeInv' /\ ReallocExact'
  BY <1>1, <1>2, ResizeKept
<1>11. RequestServed'
  BY <1>1 DEF RequestServed
<1> QED BY <1>8, <1>9, <1>10, <1>11

\* memx_index_create found no memory: the heap is given up.
LEMMA CreateFailsKeeps ==
    ASSUME ClassesInv, CreateFails
    PROVE  ClassesInv'
<1> USE DEF ClassesInv
<1>1. /\ pc = "returned" /\ status # "OK" /\ heap_config' = NoConfig /\ pc' = "idle"
      /\ spans' = spans /\ call' = call /\ UNCHANGED resize
  BY DEF CreateFails
<1>2. ~Live /\ spans = << >>
  BY <1>1 DEF SpanInv, Live, Created
<1>3. AcceptInv' /\ IndexCallInv' /\ ~Live'
  BY <1>1 DEF AcceptInv, IndexCallInv, Live
<1>4. SpanInv'
  BY <1>1, <1>2, <1>3 DEF SpanInv
<1>5. ResizeInv' /\ ReallocExact'
  BY <1>1, <1>2, ResizeKept
<1>6. RequestServed'
  BY <1>1 DEF RequestServed
<1> QED BY <1>3, <1>4, <1>5, <1>6

\* A claimed span is inside the arena.
LEMMA ClaimSpanKeeps ==
    ASSUME ClassesInv, NEW c \in SpanClassChoice, ClaimSpan(c)
    PROVE  ClassesInv'
<1> USE DEF ClassesInv
<1>1. /\ Live /\ UNCHANGED vars /\ heap_config' = heap_config /\ call' = call
      /\ UNCHANGED resize /\ spans' = Append(spans, c) /\ Len(spans) < SpanCapacity
  BY DEF ClaimSpan
<1>2. Live' /\ AcceptInv' /\ IndexCallInv' /\ SpanCapacity' = SpanCapacity
  BY <1>1, ConfigKept
<1>3. SpanCapacity \in Nat
  BY <1>1, LiveFacts
<1>4. SpanInv'
  <2>1. c \in Classes
    BY ClassesAssumption, SizeFacts
  <2>2. spans' \in Seq(Classes) /\ Len(spans') = Len(spans) + 1 /\ Len(spans) \in Nat
    BY <1>1, <2>1 DEF SpanInv
  <2> QED BY <1>1, <1>2, <1>3, <2>2 DEF SpanInv
<1>5. RequestServed'
  BY <1>1 DEF RequestServed
<1>6. ResizeInv' /\ ReallocExact'
  BY <1>1, <1>2, ResizeKept
<1> QED BY <1>2, <1>4, <1>5, <1>6

\* malloc, aligned_alloc and calloc, and their returns.
LEMMA RequestsKeep ==
    ASSUME ClassesInv, Requests \/ Returned
    PROVE  ClassesInv'
<1> USE DEF ClassesInv
<1>1. UNCHANGED vars /\ heap_config' = heap_config /\ spans' = spans /\ UNCHANGED resize
  BY DEF Requests, Returned, Malloc, AlignedAlloc, Calloc, Serve
<1>2. AcceptInv' /\ IndexCallInv' /\ SpanInv' /\ Live' = Live
  BY <1>1, ConfigKept
<1>3. ResizeInv' /\ ReallocExact'
  BY <1>1, <1>2, ResizeKept
<1>4. RequestServed'
  <2>1. CASE Returned
    <3>1. call' = NoCallYet
      BY <2>1 DEF Returned
    <3> QED BY <3>1 DEF RequestServed, NoCallYet
  <2>2. CASE Requests
    <3>1. SizeMax >= 32767
      BY <2>2, LiveFacts DEF Requests
    <3>2. Served(call')
      <4>1. ASSUME NEW size \in RequestSizes, Malloc(size) PROVE Served(call')
        <5>1. call' = memx_heap_malloc(size) /\ size \in 0..SizeMax
          BY <4>1, ClassesAssumption, SizeFacts DEF Malloc, Serve
        <5> QED BY <3>1, <5>1, MallocServed
      <4>2. ASSUME NEW a \in Alignments, NEW size \in Counts, AlignedAlloc(a, size)
            PROVE  Served(call')
        <5>1. call' = memx_heap_aligned_alloc(a, size) /\ size \in 0..SizeMax /\ a \in 0..SizeMax
          BY <4>2, ClassesAssumption, SizeFacts DEF AlignedAlloc, Serve
        <5> QED BY <3>1, <5>1, AlignedServed
      <4>3. ASSUME NEW n \in Counts, NEW size \in Counts, Calloc(n, size)
            PROVE  Served(call')
        <5>1. call' = memx_heap_calloc(n, size) /\ size \in 0..SizeMax /\ n \in 0..SizeMax
          BY <4>3, ClassesAssumption, SizeFacts DEF Calloc, Serve
        <5> QED BY <3>1, <5>1, CallocServed
      <4> QED BY <2>2, <4>1, <4>2, <4>3 DEF Requests
    <3> QED BY <3>2 DEF RequestServed, Served
  <2> QED BY <2>1, <2>2
<1> QED BY <1>2, <1>3, <1>4

\* What an allocation made for realloc is.
LEMMA AllocatedFacts ==
    ASSUME SizeMax >= 32767, NEW size \in 1..SizeMax, NEW b, b = Allocated(size)
    PROVE  /\ b.to \in {"small", "large"} /\ b.class \in Nat
           /\ b.to = "small" => b.class \in Classes
           /\ b.requested_size = size /\ size \in Nat
           /\ memx_heap_usable_size(b) >= size
           /\ b # NoBlock
           /\ b \in [to : {"none", "small", "large"}, class : Nat, requested_size : Nat]
<1>1. size \in Nat /\ size \in 0..SizeMax /\ AtLeastOne(size) = size
  BY SizeFacts DEF AtLeastOne
<1>2. PICK r : r = memx_heap_malloc(size)
  OBVIOUS
<1>3. /\ r.to \in {"small", "large"} /\ r.class \in Nat
      /\ r.to = "small" => r.class \in Classes /\ ClassSize(r.class) >= size
  BY <1>1, <1>2, MallocServed
<1>4. b = [to |-> r.to, class |-> r.class, requested_size |-> size]
  BY <1>1, <1>2 DEF Allocated
<1>5. b.to = r.to /\ b.class = r.class /\ b.requested_size = size
  BY <1>4
<1>6. memx_heap_usable_size(b) >= size
  <2>1. CASE r.to = "small"
    BY <2>1, <1>3, <1>5 DEF memx_heap_usable_size
  <2>2. CASE r.to = "large"
    BY <2>2, <1>1, <1>5 DEF memx_heap_usable_size
  <2> QED BY <2>1, <2>2, <1>3
<1>7. b # NoBlock
  BY <1>3, <1>5 DEF NoBlock
<1>8. b \in [to : {"none", "small", "large"}, class : Nat, requested_size : Nat]
  BY <1>1, <1>3, <1>4
<1> QED BY <1>1, <1>3, <1>5, <1>6, <1>7, <1>8

\* The size of the block that is held.
LEMMA HeldFacts ==
    ASSUME ResizeInv, ReallocExact, block # NoBlock, SizeMax >= 32767
    PROVE  /\ block.requested_size \in 1..SizeMax /\ block.requested_size \in Nat
           /\ live_requested_bytes = block.requested_size
           /\ memx_heap_usable_size(block) \in Nat
           /\ memx_heap_usable_size(block) >= block.requested_size
           /\ block.to \in {"small", "large"} /\ block.class \in Nat
           /\ block.to = "small" => block.class \in Classes
<1>1. /\ block.to \in {"small", "large"} /\ block.class \in Nat
      /\ block.to = "small" => block.class \in Classes
      /\ block.requested_size \in 1..SizeMax /\ block.requested_size \in Nat
  BY SizeFacts DEF ResizeInv, BlockHeld
<1>2. memx_heap_usable_size(block) \in Nat
  <2>1. CASE block.to = "small"
    BY <2>1, <1>1, StrideFacts DEF memx_heap_usable_size
  <2>2. CASE block.to = "large"
    BY <2>2, <1>1 DEF memx_heap_usable_size
  <2> QED BY <2>1, <2>2, <1>1
<1> QED BY <1>1, <1>2 DEF ReallocExact

\* realloc of nothing, in place, to another block and to nothing.
LEMMA ResizesKeep ==
    ASSUME ClassesInv, Resizes
    PROVE  ClassesInv'
<1> USE DEF ClassesInv
<1>1. Live /\ UNCHANGED vars /\ heap_config' = heap_config /\ spans' = spans /\ call' = call
  BY DEF Resizes
<1>2. AcceptInv' /\ IndexCallInv' /\ SpanInv' /\ Live'
  BY <1>1, ConfigKept
<1>3. RequestServed'
  BY <1>1 DEF RequestServed
<1>4. SizeMax >= 32767 /\ SizeMax \in Nat
  BY <1>1, LiveFacts, SizeFacts
<1>5. ASSUME NEW size \in ReallocSizes PROVE size \in 1..SizeMax /\ size \in Nat /\ size >= 1
  BY ClassesAssumption, SizeFacts
<1>6. ASSUME NEW size \in ReallocSizes, block' = Allocated(size),
             live_requested_bytes' = size, last'.old \in Nat,
             last'.kept = Smaller(last'.old, size)
      PROVE  ResizeInv' /\ ReallocExact'
  <2>1. /\ block'.to \in {"small", "large"} /\ block'.class \in Nat
        /\ block'.to = "small" => block'.class \in Classes
        /\ block'.requested_size = size /\ size \in Nat /\ size \in 1..SizeMax
        /\ memx_heap_usable_size(block') >= size
        /\ block' # NoBlock
        /\ block' \in [to : {"none", "small", "large"}, class : Nat, requested_size : Nat]
    BY <1>4, <1>5, <1>6, AllocatedFacts
  <2>2. memx_heap_usable_size(block)' = memx_heap_usable_size(block')
    BY DEF memx_heap_usable_size
  <2>3. last'.kept \in Nat
    BY <1>6, <2>1 DEF Smaller
  <2>4. ResizeInv'
    BY <1>2, <1>6, <2>1, <2>3 DEF ResizeInv, BlockHeld, NoBlock
  <2>5. ReallocExact'
    BY <1>6, <2>1, <2>2 DEF ReallocExact
  <2> QED BY <2>4, <2>5
<1>7. ASSUME NEW size \in ReallocSizes, ReallocNull(size)
      PROVE  ResizeInv' /\ ReallocExact'
  <2>1. /\ block' = Allocated(size) /\ block = NoBlock
        /\ live_requested_bytes' = live_requested_bytes + block'.requested_size
        /\ last'.old = 0 /\ last'.kept = 0
    BY <1>7 DEF ReallocNull
  <2>2. live_requested_bytes = 0
    BY <2>1 DEF ReallocExact, NoBlock
  <2>3. block'.requested_size = size /\ size \in Nat /\ size >= 1
    BY <1>4, <1>5, <2>1, AllocatedFacts
  <2>4. live_requested_bytes' = size
    BY <2>1, <2>2, <2>3
  <2>5. last'.old \in Nat /\ last'.kept = Smaller(last'.old, size)
    BY <2>1, <2>3 DEF Smaller
  <2> QED BY <1>6, <2>1, <2>4, <2>5
<1>8. ASSUME NEW size \in ReallocSizes, NEW unchecked \in BOOLEAN, ReallocMoves(size, unchecked)
      PROVE  ResizeInv' /\ ReallocExact'
  <2>1. PICK old : old = block.requested_size
    OBVIOUS
  <2>2. /\ block # NoBlock /\ size > memx_heap_usable_size(block) /\ block' = Allocated(size)
        /\ live_requested_bytes' = live_requested_bytes + size - old
        /\ last' = [old |-> old, kept |-> CopyLength(old, size, unchecked)]
    BY <1>8, <2>1 DEF ReallocMoves, memx_heap_requested_size
  <2>3. old \in Nat /\ live_requested_bytes = old /\ memx_heap_usable_size(block) \in Nat
        /\ memx_heap_usable_size(block) >= old
    BY <1>4, <2>1, <2>2, HeldFacts
  <2>4. size \in Nat /\ old < size
    BY <1>5, <2>2, <2>3
  <2>5. live_requested_bytes' = size
    BY <2>2, <2>3, <2>4
  <2>6. CopyLength(old, size, unchecked) = old /\ Smaller(old, size) = old
    BY <2>3, <2>4 DEF CopyLength, Smaller
  <2>7. last'.old = old /\ last'.kept = old
    BY <2>2, <2>6
  <2> QED BY <1>6, <2>2, <2>3, <2>5, <2>6, <2>7
<1>9. ASSUME ReallocZero
      PROVE  ResizeInv' /\ ReallocExact'
  <2>1. /\ block # NoBlock /\ block' = NoBlock
        /\ live_requested_bytes' = live_requested_bytes - block.requested_size
        /\ last' = [old |-> 0, kept |-> 0]
    BY <1>9 DEF ReallocZero
  <2>2. live_requested_bytes' = 0
    BY <1>4, <2>1, HeldFacts
  <2>3. ResizeInv'
    BY <2>1 DEF ResizeInv, NoBlock
  <2>4. ReallocExact'
    BY <2>1, <2>2 DEF ReallocExact, NoBlock, memx_heap_usable_size, Smaller
  <2> QED BY <2>3, <2>4
<1>10. ASSUME NEW size \in ReallocSizes, memx_heap_resize_in_place(size)
       PROVE  ResizeInv' /\ ReallocExact'
  <2>1. PICK old : old = block.requested_size
    OBVIOUS
  <2>2. /\ block # NoBlock /\ size <= memx_heap_usable_size(block)
        /\ block' = [block EXCEPT !.requested_size = size]
        /\ live_requested_bytes' = memx_heap_account_resize(old, size)
        /\ last' = [old |-> old, kept |-> Smaller(old, size)]
    BY <1>10, <2>1 DEF memx_heap_resize_in_place
  <2>3. /\ old \in 1..SizeMax /\ old \in Nat /\ live_requested_bytes = old
        /\ memx_heap_usable_size(block) \in Nat
        /\ block.to \in {"small", "large"} /\ block.class \in Nat
        /\ block.to = "small" => block.class \in Classes
    BY <1>4, <2>1, <2>2, HeldFacts
  <2>4. size \in 1..SizeMax /\ size \in Nat
    BY <1>5
  <2>5. live_requested_bytes' = size
    <3>1. size % (SizeMax + 1) = size
      BY <1>4, <2>4
    <3>2. CASE size > old
      <4>1. old + (size - old) = size
        BY <2>3, <2>4
      <4> QED BY <3>1, <3>2, <4>1, <2>2, <2>3 DEF memx_heap_account_resize
    <3>3. CASE ~(size > old)
      <4>1. old - (old - size) = size
        BY <2>3, <2>4
      <4> QED BY <3>1, <3>3, <4>1, <2>2, <2>3 DEF memx_heap_account_resize
    <3> QED BY <3>2, <3>3
  <2>6. block \in [to : {"none", "small", "large"}, class : Nat, requested_size : Nat]
    BY DEF ResizeInv
  <2>7. /\ block' \in [to : {"none", "small", "large"}, class : Nat, requested_size : Nat]
        /\ block'.to = block.to /\ block'.class = block.class /\ block'.requested_size = size
    BY <2>2, <2>4, <2>6
  <2>8. memx_heap_usable_size(block)' >= size
    <3>1. CASE block.to = "small"
      BY <3>1, <2>2, <2>7 DEF memx_heap_usable_size
    <3>2. CASE block.to = "large"
      BY <3>2, <2>4, <2>7 DEF memx_heap_usable_size
    <3> QED BY <3>1, <3>2, <2>3
  <2>9. last'.old = old /\ last'.kept = Smaller(old, size) /\ last'.kept \in Nat
    BY <2>2, <2>3, <2>4 DEF Smaller
  <2>10. ResizeInv'
    BY <1>2, <2>3, <2>4, <2>7, <2>9 DEF ResizeInv, BlockHeld, NoBlock
  <2>11. ReallocExact'
    BY <2>5, <2>7, <2>8, <2>9 DEF ReallocExact
  <2> QED BY <2>10, <2>11
<1>11. ResizeInv' /\ ReallocExact'
  BY <1>7, <1>8, <1>9, <1>10 DEF Resizes
<1> QED BY <1>2, <1>3, <1>11

\* Every step keeps the invariant.
LEMMA ClassesStep ==
    ASSUME ClassesInv, [ClassesNext]_ClassesVars
    PROVE  ClassesInv'
<1>1. CASE UNCHANGED ClassesVars
  BY <1>1, HeapKept DEF ClassesVars, heap_vars
<1> QED BY <1>1, CreateKeeps, CreateRefusedKeeps, CreateIndexKeeps, CreateFailsKeeps,
           ClaimSpanKeeps, RequestsKeep, ResizesKeep DEF ClassesNext

\* What every step of memx_heap_create, of the requests and of realloc keeps.
THEOREM ClassesInvariant == ClassesSpec => []ClassesInv
<1> QED BY ClassesInitially, ClassesStep, PTL DEF ClassesSpec

\* memx_heap_class_for_size agrees with the class table at every size: each
\* request gets the smallest class that holds it, or a mapping, or is refused
\* exactly when its alignment or its product is not one.
THEOREM ClassesRequestServed == ClassesSpec => []RequestServed
<1>1. ClassesInv => RequestServed
  BY DEF ClassesInv
<1> QED BY <1>1, ClassesInvariant, PTL

\* Through every sequence of memx_heap_realloc, in place and moving, the block is
\* large enough, keeps the bytes both sizes have, and is what the live counter
\* says.
THEOREM ClassesReallocExact == ClassesSpec => []ReallocExact
<1>1. ClassesInv => ReallocExact
  BY DEF ClassesInv
<1> QED BY <1>1, ClassesInvariant, PTL

-----------------------------------------------------------------------------
(***************************************************************************)
(* The geometry of spans.                                                   *)
(***************************************************************************)
LEMMA CountFacts ==
    ASSUME AcceptInv, Live, NEW c \in Classes
    PROVE  /\ BlockCount(c) \in Nat /\ BlockCount(c) > 0
           /\ BlockCount(c) * BlockStride(c) <= SpanSize - SpanHeader
<1>1. PICK S, u : S = SpanSize /\ u = BlockStride(c)
  OBVIOUS
<1>2. S \in Nat /\ S >= 16384 /\ u \in Nat /\ u >= 32 /\ u <= 8208
  BY <1>1, LiveFacts, StrideFacts
<1>3. S - SpanHeader \in Nat /\ S - SpanHeader >= u /\ u >= 1
  BY <1>2 DEF SpanHeader
<1>4. /\ (S - SpanHeader) \div u \in Nat /\ (S - SpanHeader) \div u >= 1
      /\ ((S - SpanHeader) \div u) * u <= S - SpanHeader
  BY <1>2, <1>3, QuotientBounds
<1>5. BlockCount(c) = (S - SpanHeader) \div u
  BY <1>1 DEF BlockCount
<1> QED BY <1>1, <1>4, <1>5

\* Each class has a block in every span, and the index one region per span.
LEMMA HeapServes ==
    ASSUME AcceptInv, IndexCallInv
    PROVE  AcceptedHeapServes
<1>1. pc = "returned" => status \in {"OK", "OUT_OF_MEMORY"}
  BY DEF IndexCallInv
<1>2. ASSUME Live
      PROVE  /\ \A c \in Classes : BlockCount(c) > 0 /\ SpanSize > SpanHeader
             /\ SpanCapacity > 0 /\ SpanCapacity * SpanSize = heap_config.reserve_size
             /\ index.region_count = SpanCapacity
  <2>1. \A c \in Classes : BlockCount(c) > 0 /\ SpanSize > SpanHeader
    BY <1>2, CountFacts, LiveFacts DEF SpanHeader
  <2>2. SpanCapacity > 0 /\ SpanCapacity * SpanSize = heap_config.reserve_size
    BY <1>2, LiveFacts
  <2>3. ConfigInv /\ Created /\ ForArena(config, heap_config)
    BY <1>2 DEF Live, IndexCallInv
  <2>4. index.region_count = Geometry(config).region_count
    <3>1. ShiftDefined(config)
      BY <2>3 DEF ForArena, ShiftDefined
    <3> QED BY <2>3, <3>1, CreatedFacts, ShapedFields
  <2>5. index.region_count = heap_config.reserve_size \div Pow2[heap_config.span_shift]
    BY <2>3, <2>4 DEF Geometry, ForArena
  <2> QED BY <2>1, <2>2, <2>5 DEF SpanCapacity, SpanSize
<1> QED BY <1>1, <1>2 DEF AcceptedHeapServes

\* at is where block i of the span numbered s begins, for a span of S bytes
\* that has n blocks of u bytes.
Begins(at, S, u, n, s, i) ==
    /\ S \in Nat /\ S >= 1 /\ S % 16 = 0 /\ s \in Nat /\ s >= 1
    /\ u \in Nat /\ u >= 32 /\ u % 16 = 0 /\ n \in Nat /\ n * u <= S - 64
    /\ i \in Nat /\ i < n
    /\ at = (s - 1) * S + 64 + i * u

\* A block, header and payload, lies inside its span and before the next block.
LEMMA BlockLies ==
    ASSUME NEW at, NEW S, NEW u, NEW n, NEW s, NEW i, Begins(at, S, u, n, s, i)
    PROVE  /\ at \in Nat /\ (s - 1) * S <= at /\ at + u <= s * S
           /\ at % 16 = 0
           /\ (at + 16) \div S = s - 1
<1> USE DEF Begins
<1>1. PICK p, q, m : p = (s - 1) * S /\ q = i * u /\ m = n * u
  OBVIOUS
<1>2. p \in Nat /\ q \in Nat /\ m \in Nat /\ m <= S - 64
  BY <1>1
<1>3. q + u <= m
  <2>1. (i + 1) * u <= n * u
    BY ProductMonotone
  <2>2. (i + 1) * u = q + u
    BY <1>1
  <2> QED BY <2>1, <2>2, <1>1
<1>4. s * S = p + S
  BY <1>1
<1>5. at = p + 64 + q /\ at \in Nat
  BY <1>1, <1>2
<1>6. p <= at /\ at + u <= p + S
  BY <1>2, <1>3, <1>5
<1>7. at % 16 = 0
  <2>1. p % 16 = 0
    <3>1. p % S = 0
      <4>1. p = S * (s - 1) /\ s - 1 \in Int
        BY <1>1
      <4> QED BY <4>1, Multiple
    <3>2. PICK a \in Nat : a = 16
      OBVIOUS
    <3>3. a >= 1 /\ S % a = 0 /\ p \in Int
      BY <3>2, <1>2
    <3>4. p % a = 0
      BY <3>1, <3>3, MultipleTrans
    <3> QED BY <3>2, <3>4
  <2>2. q % 16 = 0
    <3>1. q % u = 0
      <4>1. q = u * i /\ i \in Int
        BY <1>1
      <4> QED BY <4>1, Multiple
    <3>2. PICK a \in Nat : a = 16
      OBVIOUS
    <3>3. a >= 1 /\ u >= 1 /\ u % a = 0 /\ q \in Int
      BY <3>2, <1>2
    <3>4. q % a = 0
      BY <3>1, <3>3, MultipleTrans
    <3> QED BY <3>2, <3>4
  <2> QED BY <2>1, <2>2, <1>2, <1>5
<1>8. (at + 16) \div S = s - 1
  <2>1. at + 16 \in Nat /\ s - 1 \in Nat /\ (s - 1) * S <= at + 16 /\ at + 16 < (s - 1) * S + S
    BY <1>1, <1>2, <1>5, <1>6
  <2> QED BY <2>1, QuotientIs
<1> QED BY <1>1, <1>4, <1>5, <1>6, <1>7, <1>8

\* A claimed span.
LEMMA SpanFacts ==
    ASSUME AcceptInv, SpanInv, NEW s \in DOMAIN spans
    PROVE  /\ Live /\ s \in Nat /\ s >= 1 /\ s <= Len(spans)
           /\ spans[s] \in Classes
           /\ s * SpanSize <= heap_config.reserve_size
<1>1. /\ spans \in Seq(Classes) /\ spans # << >> /\ Live /\ Len(spans) <= SpanCapacity
      /\ s \in Nat /\ s >= 1 /\ s <= Len(spans) /\ spans[s] \in Classes /\ Len(spans) \in Nat
  BY DEF SpanInv
<1>2. PICK S, n : S = SpanSize /\ n = SpanCapacity
  OBVIOUS
<1>3. S \in Nat /\ n \in Nat /\ n * S = heap_config.reserve_size /\ s <= n
  BY <1>1, <1>2, LiveFacts
<1>4. s * S <= n * S
  BY <1>1, <1>3, ProductMonotone
<1> QED BY <1>1, <1>2, <1>3, <1>4

\* Block i of span s lies inside the span, and the checked lookup finds it.
LEMMA PayloadFound ==
    ASSUME AcceptInv, SpanInv, NEW s \in DOMAIN spans,
           NEW i \in 0..(BlockCount(spans[s]) - 1)
    PROVE  /\ PayloadAt(s, i) \in Nat /\ PayloadAt(s, i) < heap_config.reserve_size
           /\ BlockAt(s, i) \in Nat
           /\ BlockAt(s, i) + BlockStride(spans[s]) <= s * SpanSize
           /\ PayloadAt(s, i) % MaxAlign = 0
           /\ PayloadAt(s, i) \div SpanSize = s - 1
           /\ memx_heap_small_block_locked(PayloadAt(s, i)) = <<s, i>>
<1>1. /\ Live /\ s \in Nat /\ s >= 1 /\ s <= Len(spans) /\ spans[s] \in Classes
      /\ s * SpanSize <= heap_config.reserve_size
  BY SpanFacts
<1>2. PICK S, u, n, at, p : /\ S = SpanSize /\ u = BlockStride(spans[s])
                            /\ n = BlockCount(spans[s]) /\ at = BlockAt(s, i)
                            /\ p = PayloadAt(s, i)
  OBVIOUS
<1>3. /\ S \in Nat /\ S >= 16384 /\ S % 16 = 0 /\ SizeMax >= 32767
      /\ heap_config.reserve_size \in Nat
  BY <1>1, <1>2, LiveFacts
<1>4. u \in Nat /\ u >= 32 /\ u % 16 = 0
  BY <1>1, <1>2, <1>3, StrideFacts
<1>5. n \in Nat /\ n * u <= S - 64
  BY <1>1, <1>2, CountFacts DEF SpanHeader
<1>6. i \in Nat /\ i < n
  BY <1>2, <1>5
<1>7. at = (s - 1) * S + 64 + i * u /\ p = at + 16
  BY <1>2 DEF BlockAt, PayloadAt, SpanBase, SpanHeader, BlockHeader
<1>8. /\ at \in Nat /\ (s - 1) * S <= at /\ at + u <= s * S
      /\ at % 16 = 0 /\ (at + 16) \div S = s - 1
  <2>1. Begins(at, S, u, n, s, i)
    BY <1>1, <1>3, <1>4, <1>5, <1>6, <1>7 DEF Begins
  <2> QED BY <2>1, BlockLies
<1>9. s * S \in Nat /\ s * S <= heap_config.reserve_size
  BY <1>1, <1>2, <1>3
<1>10. p \in Nat /\ p < heap_config.reserve_size /\ p % 16 = 0 /\ p \div S = s - 1
  BY <1>3, <1>4, <1>7, <1>8, <1>9
<1>11. SpanAt(p) = s
  <2>1. p \div SpanSize + 1 = s
    BY <1>1, <1>2, <1>10
  <2> QED BY <2>1, <1>1 DEF SpanAt
<1>12. p - BlockHeader - SpanBase(s) = i * u
  <2>1. SpanBase(s) = (s - 1) * S + 64 /\ (s - 1) * S \in Int /\ i * u \in Int
    BY <1>1, <1>2, <1>3, <1>4, <1>6 DEF SpanBase, SpanHeader
  <2> QED BY <2>1, <1>7 DEF BlockHeader
<1>13. (i * u) % u = 0 /\ (i * u) \div u = i
  <2>1. i * u = u * i /\ i \in Int /\ u >= 1
    BY <1>4, <1>6
  <2> QED BY <2>1, <1>4, <1>6, Multiple, ExactQuotient
<1>14. memx_heap_small_block_locked(p) = <<s, i>>
  <2>1. ~(p >= heap_config.reserve_size) /\ s # 0 /\ ~(i >= n)
    BY <1>1, <1>3, <1>5, <1>6, <1>10
  <2>2. ~(p < SpanBase(s) + BlockHeader)
    <3>1. SpanBase(s) = (s - 1) * S + 64 /\ (s - 1) * S \in Int /\ i * u \in Nat
      BY <1>1, <1>2, <1>3, <1>4, <1>6 DEF SpanBase, SpanHeader
    <3> QED BY <3>1, <1>7 DEF BlockHeader
  <2> QED BY <1>2, <1>11, <1>12, <1>13, <2>1, <2>2 DEF memx_heap_small_block_locked
<1> QED BY <1>2, <1>8, <1>10, <1>14 DEF MaxAlign

\* An offset the checked lookup takes for a block is the payload of it.
LEMMA FoundIsPayload ==
    ASSUME AcceptInv, SpanInv, Live, NEW p \in Nat,
           memx_heap_small_block_locked(p) # NotABlock
    PROVE  \E s \in DOMAIN spans : \E i \in 0..(BlockCount(spans[s]) - 1) :
              memx_heap_small_block_locked(p) = <<s, i>> /\ PayloadAt(s, i) = p
<1>1. PICK s : s = SpanAt(p)
  OBVIOUS
<1>2. PICK d, u : d = p - BlockHeader - SpanBase(s) /\ u = BlockStride(spans[s])
  OBVIOUS
<1>3. /\ s # 0 /\ ~(p < SpanBase(s) + BlockHeader) /\ d % u = 0
      /\ ~(d \div u >= BlockCount(spans[s]))
      /\ memx_heap_small_block_locked(p) = <<s, d \div u>>
  BY <1>1, <1>2 DEF memx_heap_small_block_locked
<1>4. SpanSize \in Nat /\ SpanSize >= 1 /\ SizeMax >= 32767
  BY LiveFacts
<1>5. s \in DOMAIN spans
  <2>1. p \div SpanSize \in Nat
    BY <1>4, QuotientBounds
  <2>2. s = p \div SpanSize + 1 /\ s <= Len(spans)
    BY <1>1, <1>3 DEF SpanAt
  <2> QED BY <2>1, <2>2 DEF SpanInv
<1>6. s \in Nat /\ s >= 1 /\ spans[s] \in Classes
  BY <1>5, SpanFacts
<1>7. u \in Nat /\ u >= 1 /\ BlockCount(spans[s]) \in Nat
  BY <1>2, <1>4, <1>6, StrideFacts, CountFacts
<1>8. SpanBase(s) \in Int
  BY <1>4, <1>6 DEF SpanBase, SpanHeader
<1>9. d \in Nat
  BY <1>2, <1>3, <1>8 DEF BlockHeader
<1>10. PICK i \in Nat : i = d \div u
  BY <1>7, <1>9, QuotientBounds
<1>11. i * u = d
  <2>1. i * u <= d /\ d < i * u + u
    BY <1>7, <1>9, <1>10, QuotientBounds
  <2>2. PICK q \in Int : d = u * q
    BY <1>3, <1>7, <1>9, MultipleOf
  <2>3. q \in Nat
    <3>1. CASE q < 0
      <4>1. u * q < 0
        BY <3>1, <1>7
      <4> QED BY <4>1, <2>2, <1>9
    <3> QED BY <2>2, <3>1
  <2>4. d \div u = q
    BY <2>2, <2>3, <1>7, ExactQuotient
  <2> QED BY <2>2, <2>4, <1>10, <1>7
<1>12. i \in 0..(BlockCount(spans[s]) - 1)
  BY <1>3, <1>7, <1>10
<1>13. PayloadAt(s, i) = p
  <2>1. BlockAt(s, i) = SpanBase(s) + d
    BY <1>2, <1>11 DEF BlockAt
  <2> QED BY <2>1, <1>2, <1>8, <1>9 DEF PayloadAt, BlockHeader
<1> QED BY <1>3, <1>5, <1>10, <1>12, <1>13

\* memx_heap_small_block_locked is a bijection from the offsets it finds to the
\* blocks carved.
LEMMA BlocksAreFound ==
    ASSUME AcceptInv, SpanInv
    PROVE  BlocksFound
<1>1. PICK In : In = [s \in DOMAIN spans |-> 0..(BlockCount(spans[s]) - 1)]
  OBVIOUS
<1>2. ASSUME NEW s \in DOMAIN spans, NEW i \in 0..(BlockCount(spans[s]) - 1)
      PROVE  /\ memx_heap_small_block_locked(PayloadAt(s, i)) = <<s, i>>
             /\ memx_heap_class_for_arena_offset(PayloadAt(s, i)) = spans[s]
             /\ PayloadAt(s, i) % MaxAlign = 0
             /\ PayloadAt(s, i) + ClassSize(spans[s]) <= s * SpanSize
             /\ PayloadAt(s, i) + ClassSize(spans[s]) <= BlockAt(s, i + 1)
  <2>1. PICK at, u, z, e : /\ at = BlockAt(s, i) /\ u = BlockStride(spans[s])
                           /\ z = ClassSize(spans[s]) /\ e = s * SpanSize
    OBVIOUS
  <2>2. Live /\ spans[s] \in Classes /\ s \in Nat /\ SizeMax >= 32767 /\ SpanSize \in Nat
    BY SpanFacts, LiveFacts
  <2>3. u \in Nat /\ z \in Nat /\ 16 + z <= u
    BY <2>1, <2>2, StrideFacts DEF BlockHeader
  <2>4. /\ at \in Nat /\ at + u <= e /\ PayloadAt(s, i) % MaxAlign = 0
        /\ PayloadAt(s, i) \div SpanSize = s - 1
        /\ memx_heap_small_block_locked(PayloadAt(s, i)) = <<s, i>>
    BY <2>1, PayloadFound
  <2>5. e \in Nat
    BY <2>1, <2>2
  <2>6. PayloadAt(s, i) = at + 16
    BY <2>1 DEF PayloadAt, BlockHeader
  <2>7. BlockAt(s, i + 1) = at + u
    <3>1. i \in Nat /\ BlockCount(spans[s]) \in Nat
      BY <2>2, CountFacts
    <3>2. (i + 1) * u = i * u + u /\ i * u \in Nat
      BY <2>3, <3>1
    <3>3. SpanBase(s) \in Int
      BY <2>2 DEF SpanBase, SpanHeader
    <3> QED BY <2>1, <2>3, <3>2, <3>3 DEF BlockAt
  <2>8. memx_heap_class_for_arena_offset(PayloadAt(s, i)) = spans[s]
    BY <2>2, <2>4 DEF memx_heap_class_for_arena_offset
  <2> QED BY <2>1, <2>3, <2>4, <2>5, <2>6, <2>7, <2>8
<1>3. ASSUME Live
      PROVE  Cardinality({p \in 0..(heap_config.reserve_size - 1) :
                            memx_heap_small_block_locked(p) # NotABlock})
               = Cardinality(UNION {{s} \X In[s] : s \in DOMAIN spans})
  <2>1. PICK O, P : /\ O = {p \in 0..(heap_config.reserve_size - 1) :
                              memx_heap_small_block_locked(p) # NotABlock}
                    /\ P = UNION {{s} \X In[s] : s \in DOMAIN spans}
    OBVIOUS
  <2>2. heap_config.reserve_size \in Nat
    BY <1>3, LiveFacts
  <2>3. IsFiniteSet(O)
    <3>1. IsFiniteSet(0..(heap_config.reserve_size - 1))
      BY <2>2, FS_Interval
    <3>2. O \subseteq 0..(heap_config.reserve_size - 1)
      BY <2>1
    <3> QED BY <3>1, <3>2, FS_Subset
  <2>4. PICK f : f = [p \in O |-> memx_heap_small_block_locked(p)]
    OBVIOUS
  <2>5. ASSUME NEW p \in O
        PROVE  \E s \in DOMAIN spans : \E i \in In[s] : f[p] = <<s, i>> /\ PayloadAt(s, i) = p
    <3>1. p \in Nat /\ memx_heap_small_block_locked(p) # NotABlock
      BY <2>1, <2>2
    <3> QED BY <3>1, <1>1, <1>3, <2>4, FoundIsPayload
  <2>6. f \in [O -> P]
    <3>1. ASSUME NEW p \in O PROVE f[p] \in P
      <4>1. PICK s \in DOMAIN spans : \E i \in In[s] : f[p] = <<s, i>>
        BY <2>5
      <4>2. f[p] \in {s} \X In[s]
        BY <4>1
      <4> QED BY <4>2, <2>1
    <3> QED BY <3>1, <2>4
  <2>7. ASSUME NEW p \in O, NEW q \in O, f[p] = f[q] PROVE p = q
    <3>1. PICK s \in DOMAIN spans : \E i \in In[s] : f[p] = <<s, i>> /\ PayloadAt(s, i) = p
      BY <2>5
    <3>2. PICK t \in DOMAIN spans : \E j \in In[t] : f[q] = <<t, j>> /\ PayloadAt(t, j) = q
      BY <2>5
    <3>3. PICK i \in In[s] : f[p] = <<s, i>> /\ PayloadAt(s, i) = p
      BY <3>1
    <3>4. PICK j \in In[t] : f[q] = <<t, j>> /\ PayloadAt(t, j) = q
      BY <3>2
    <3>5. <<s, i>> = <<t, j>>
      BY <2>7, <3>3, <3>4
    <3>6. s = t /\ i = j
      BY <3>5
    <3> QED BY <3>3, <3>4, <3>6
  <2>8. ASSUME NEW b \in P PROVE \E p \in O : f[p] = b
    <3>1. PICK s \in DOMAIN spans : b \in {s} \X In[s]
      BY <2>1
    <3>2. PICK i \in In[s] : b = <<s, i>>
      BY <3>1
    <3>3. i \in 0..(BlockCount(spans[s]) - 1)
      BY <1>1, <3>2
    <3>4. PICK p : p = PayloadAt(s, i)
      OBVIOUS
    <3>5. p \in Nat /\ p < heap_config.reserve_size /\ memx_heap_small_block_locked(p) = <<s, i>>
      BY <3>3, <3>4, PayloadFound
    <3>6. <<s, i>> # NotABlock
      <4>1. s >= 1 /\ s \in Nat
        BY SpanFacts
      <4> QED BY <4>1 DEF NotABlock
    <3>7. p \in O
      BY <2>1, <2>2, <3>5, <3>6
    <3> QED BY <2>4, <3>2, <3>5, <3>7
  <2>9. ExistsBijection(O, P)
    <3>1. f \in Injection(O, P)
      BY <2>6, <2>7 DEF Injection, IsInjective
    <3>2. f \in Surjection(O, P)
      BY <2>6, <2>8 DEF Surjection
    <3> QED BY <3>1, <3>2 DEF ExistsBijection, Bijection
  <2>10. Cardinality(P) = Cardinality(O)
    BY <2>3, <2>9, FS_Bijection
  <2> QED BY <2>1, <2>10
<1>4. {{s} \X (0..(BlockCount(spans[s]) - 1)) : s \in DOMAIN spans}
        = {{s} \X In[s] : s \in DOMAIN spans}
  BY <1>1
<1> QED BY <1>2, <1>3, <1>4 DEF BlocksFound

\* Every configuration memx_heap_create accepts serves every class, and
\* memx_index_create refuses its arena for lack of memory only.
THEOREM ClassesAcceptedHeapServes == ClassesSpec => []AcceptedHeapServes
<1>1. ClassesInv => AcceptedHeapServes
  BY HeapServes DEF ClassesInv
<1> QED BY <1>1, ClassesInvariant, PTL

\* memx_heap_small_block_locked finds exactly the blocks that were carved, the
\* side table names their class, and no payload reaches the next header.
THEOREM ClassesBlocksFound == ClassesSpec => []BlocksFound
<1>1. ClassesInv => BlocksFound
  BY BlocksAreFound DEF ClassesInv
<1> QED BY <1>1, ClassesInvariant, PTL

\* The index that memx_heap_create makes satisfies UsableConfig, which the
\* proofs about lookups and mutations assume: with a heap, it is no assumption.
THEOREM ClassesIndexUsable == ClassesSpec => [](Live => Address!UsableConfig)
<1>1. ClassesInv => (Live => Address!UsableConfig)
  <2> SUFFICES ASSUME ClassesInv, Live PROVE Address!UsableConfig
    OBVIOUS
  <2>1. ConfigInv /\ Created
    BY DEF ClassesInv, IndexCallInv, Live
  <2> QED BY <2>1, CreatedIsUsable DEF AcceptedIsUsable
<1> QED BY <1>1, ClassesInvariant, PTL
=============================================================================
