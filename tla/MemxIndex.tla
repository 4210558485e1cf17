------------------------------ MODULE MemxIndex ------------------------------
(***************************************************************************)
(* The MEMX ownership index (src/memx/src/memx.c): a directory of one-word  *)
(* region descriptors, each EMPTY, UNIFORM (the handle is inline) or DENSE  *)
(* (a table with one handle per granule), and two optimised forms of a      *)
(* bounded index, the flat table and the frozen overlay.                    *)
(*                                                                          *)
(* Callers exclude readers from writers, so calls do not overlap.  A        *)
(* mutation is nevertheless several steps here, one per region of its       *)
(* prepare loop and of its commit loop, because the metadata allocator may  *)
(* fail at each of them and the call then returns half way.                 *)
(***************************************************************************)
EXTENDS MemxAddress, FiniteSets

CONSTANTS
    Handles,         \* handle values the caller uses, MEMX_HANDLE_INVALID not
    InlineHandles,   \* those not above MEMX_INLINE_HANDLE_MAX
    ZeroHandle,      \* handle 0, the content of a demand-zero overlay slot
    Invalid,         \* MEMX_HANDLE_INVALID
    Null,            \* a table that is not allocated
    PageHandles,     \* words in one page
    IndexWords       \* sizeof(memx_index_t), in words

ASSUME HandleAssumption ==
    /\ InlineHandles \subseteq Handles
    /\ ZeroHandle \in InlineHandles
    /\ Invalid \notin Handles
    /\ PageHandles \in Nat \ {0}
    /\ IndexWords \in Nat \ {0}

VARIABLES
    life,                      \* "none", "creating" or "live"
    mode,                      \* "ADAPTIVE", "FLAT" or "OVERLAY"
    region,                    \* the descriptor of each region
    leaf,                      \* sparse_root[i] != NULL
    flat_entries,
    overlay_entries,
    overlay_private,           \* overlay_private_bytes, in words
    uniform_regions,
    dense_regions,
    allocated_sparse_leaves,
    live,                      \* words of metadata obtained and not yet freed
    pc,                        \* the loop a running mutation is in
    req,                       \* its base, end and handle
    cursor,
    status                     \* result of the last call that returned

directory == <<region, leaf>>
optimized == <<mode, flat_entries, overlay_entries, overlay_private>>
counters  == <<uniform_regions, dense_regions, allocated_sparse_leaves, live>>
call      == <<pc, req, cursor>>
vars == <<life, directory, optimized, counters, call, status>>

Slots == Handles \cup {Invalid}
Tables == [Granules -> Slots]

(***************************************************************************)
(* Sizes of the metadata blocks.  Handles, descriptors and pointers are one *)
(* word each, so all sizes are in words.                                    *)
(***************************************************************************)
PageDown(x) == x - (x % PageHandles)
PageUp(x) == PageDown(x + PageHandles - 1)

DirectoryWords == IF Directory = "BOUNDED" THEN RegionCount ELSE Cardinality(Roots)
LeafWords == LeafRegions
TableWords == GranulesPerRegion
FlatWords == RegionCount * GranulesPerRegion
ReservedWords == PageUp(FlatWords) + 2 * PageHandles

(***************************************************************************)
(* Descriptors.  The word 0 is EMPTY; the marker a frozen index leaves      *)
(* where a table was decodes as DENSE but points to nothing.                *)
(***************************************************************************)
Empty == [type |-> "EMPTY"]
Uniform(h) == [type |-> "UNIFORM", handle |-> h]
Dense(table) == [type |-> "DENSE", entries |-> table]
OverlayMarker == Dense(Null)

Descriptors == {Empty} \cup {Uniform(h) : h \in InlineHandles}
                       \cup {Dense(t) : t \in Tables \cup {Null}}

NoRequest == [base |-> 0, end |-> 0, handle |-> Invalid]
Requests == [base : Words, end : Words, handle : Slots]

TypeOK ==
    /\ life \in {"none", "creating", "live"}
    /\ mode \in {"ADAPTIVE", "FLAT", "OVERLAY"}
    /\ region \in [Regions -> Descriptors]
    /\ leaf \in [Roots -> BOOLEAN]
    /\ flat_entries \in [Positions -> Slots] \cup {Null}
    /\ overlay_entries \in [Positions -> Slots] \cup {Null}
    /\ overlay_private \in Nat
    /\ uniform_regions \in 0 .. RegionCount
    /\ dense_regions \in 0 .. RegionCount
    /\ allocated_sparse_leaves \in 0 .. Cardinality(Roots)
    /\ live \in Int
    /\ pc \in {"idle", "insert_prepare", "insert_write",
               "remove_prepare", "remove_clear"}
    /\ req \in Requests
    /\ cursor \in Words
    /\ status \in {"OK", "INVALID_ARGUMENT", "OUT_OF_RANGE", "OVERLAP",
                   "NOT_FOUND", "OUT_OF_MEMORY", "BUSY", "UNSUPPORTED"}

-----------------------------------------------------------------------------
(***************************************************************************)
(* Lookups.                                                                 *)
(***************************************************************************)

\* memx_get_region returns a descriptor, not NULL.
HasRegion(r) == IF Directory = "BOUNDED" THEN TRUE ELSE leaf[RootIndex(r)]

\* memx_region_lookup on a descriptor of an adaptive index.
memx_region_lookup(d, g) ==
    CASE d.type = "EMPTY"   -> Invalid
      [] d.type = "UNIFORM" -> d.handle
      [] OTHER              -> d.entries[g]

memx_lookup_address(address) ==
    LET r == RegionIndex(address)
    IN  CASE ~Covered(address) -> Invalid
          [] Covered(address) /\ mode = "FLAT" -> flat_entries[Position(address)]
          [] Covered(address) /\ mode # "FLAT" /\ ~HasRegion(r) -> Invalid
          [] OTHER -> IF mode = "OVERLAY" /\ region[r].type = "DENSE"
                      THEN overlay_entries[Position(address)]
                      ELSE memx_region_lookup(region[r], GranuleIndex(address))

(***************************************************************************)
(* The unchecked lookups of memx.h and of the benchmark, which the caller   *)
(* may use on a view; the three view functions say for which mode of the    *)
(* index there is one.  The trusted lookups have no branch for EMPTY: they  *)
(* shift the word 0 and would report handle 0.                              *)
(***************************************************************************)
memx_index_bounded_view == Directory = "BOUNDED" /\ mode = "ADAPTIVE"
memx_index_flat_view == mode = "FLAT"
memx_index_overlay_view == mode = "OVERLAY"

memx_bounded_lookup_assume_mapped(address) ==
    memx_region_lookup(region[RegionIndex(address)], GranuleIndex(address))

\* A descriptor that is not DENSE is shifted, also the word 0.
InlineHandle(d) == IF d.type = "UNIFORM" THEN d.handle ELSE ZeroHandle

\* The benchmark's lookups on the same view.  The branchless one reads through
\* a pointer selected by the dense mask, to the table or to a dummy, and masks
\* what it has read.
lookup_memx_bounded_trusted(address) ==
    LET d == region[RegionIndex(address)]
    IN  IF d.type = "DENSE" THEN d.entries[GranuleIndex(address)] ELSE InlineHandle(d)

lookup_memx_bounded_branchless(address) ==
    LET d == region[RegionIndex(address)]
        dense_mask == d.type = "DENSE"
        selected_base == IF dense_mask THEN d.entries ELSE [g \in Granules |-> ZeroHandle]
        selected_index == IF dense_mask THEN GranuleIndex(address) ELSE 0
    IN  IF dense_mask THEN selected_base[selected_index] ELSE InlineHandle(d)

memx_flat_lookup_assume_mapped(address) == flat_entries[Position(address)]

\* Mutant: the dense mask is built from bit 0 of the descriptor.
TrustedFromUniformBit(address) ==
    IF region[RegionIndex(address)].type = "UNIFORM"
    THEN overlay_entries[Position(address)] ELSE ZeroHandle

memx_overlay_lookup_trusted(address) ==
    LET d == region[RegionIndex(address)]
    IN  IF d.type = "DENSE" THEN overlay_entries[Position(address)] ELSE InlineHandle(d)

\* memx_region_type_at for a covered address.
memx_region_type_at(address) ==
    LET r == RegionIndex(address)
    IN  CASE mode = "FLAT" -> "DENSE"
          [] mode # "FLAT" /\ ~HasRegion(r) -> "EMPTY"
          [] OTHER -> region[r].type

-----------------------------------------------------------------------------
(***************************************************************************)
(* Creation and destruction.                                                *)
(***************************************************************************)
AllEmpty == [r \in Regions |-> Empty]
NoLeaves == [i \in Roots |-> FALSE]

Init ==
    /\ life = "none"
    /\ mode = "ADAPTIVE"
    /\ region = AllEmpty
    /\ leaf = NoLeaves
    /\ flat_entries = Null
    /\ overlay_entries = Null
    /\ overlay_private = 0
    /\ uniform_regions = 0
    /\ dense_regions = 0
    /\ allocated_sparse_leaves = 0
    /\ live = 0
    /\ pc = "idle"
    /\ req = NoRequest
    /\ cursor = 0
    /\ status = "OK"

\* memx_index_create allocates the index object, or fails there.
CreateIndex ==
    /\ life = "none"
    /\ \/ /\ life' = "creating"
          /\ live' = live + IndexWords
          /\ UNCHANGED status
       \/ /\ status' = "OUT_OF_MEMORY"
          /\ UNCHANGED <<life, live>>
    /\ UNCHANGED <<directory, optimized, uniform_regions, dense_regions,
                   allocated_sparse_leaves, call>>

\* ... then the directory or the sparse root, and unwinds if it cannot.
CreateDirectory ==
    /\ life = "creating"
    /\ \/ /\ life' = "live"
          /\ region' = AllEmpty
          /\ leaf' = NoLeaves
          /\ live' = live + DirectoryWords
          /\ status' = "OK"
       \/ /\ life' = "none"
          /\ live' = live - IndexWords
          /\ status' = "OUT_OF_MEMORY"
          /\ UNCHANGED directory
    /\ UNCHANGED <<optimized, uniform_regions, dense_regions,
                   allocated_sparse_leaves, call>>

Idle == life = "live" /\ pc = "idle"

DenseRegions == {r \in Regions : region[r].type = "DENSE"}
UniformRegions == {r \in Regions : region[r].type = "UNIFORM"}
AllocatedLeaves == {i \in Roots : leaf[i]}

\* Mutant: destroy frees the tables but not the leaves that held them.
DestroyedWithoutLeaves ==
    CASE mode = "FLAT"    -> FlatWords + IndexWords
      [] mode = "OVERLAY" -> ReservedWords + DirectoryWords + IndexWords
      [] OTHER -> Cardinality({r \in DenseRegions : HasRegion(r)}) * TableWords
                    + DirectoryWords + IndexWords

\* What memx_index_destroy gives back.  It finds tables through the
\* descriptors, and in a sparse directory only those of allocated leaves.
DestroyedBlocks ==
    CASE mode = "FLAT"    -> FlatWords + IndexWords
      [] mode = "OVERLAY" -> ReservedWords + DirectoryWords + IndexWords
      [] OTHER -> Cardinality({r \in DenseRegions : HasRegion(r)}) * TableWords
                    + Cardinality(AllocatedLeaves) * LeafWords
                    + DirectoryWords + IndexWords

memx_index_destroy ==
    /\ Idle
    /\ life' = "none"
    /\ mode' = "ADAPTIVE"
    /\ region' = AllEmpty
    /\ leaf' = NoLeaves
    /\ flat_entries' = Null
    /\ overlay_entries' = Null
    /\ overlay_private' = 0
    /\ uniform_regions' = 0
    /\ dense_regions' = 0
    /\ allocated_sparse_leaves' = 0
    /\ live' = live - DestroyedBlocks
    /\ status' = "OK"
    /\ UNCHANGED call

-----------------------------------------------------------------------------
(***************************************************************************)
(* The calls' checks, in the order of the code.                             *)
(***************************************************************************)

\* Addresses memx_preflight_range (or the flat loop) looks up.
Targets(base, end) == {a \in base .. end - 1 : a % GranuleSize = 0}

memx_insert_status(base, size, h) ==
    IF h = Invalid THEN "INVALID_ARGUMENT"
    ELSE IF mode = "OVERLAY" THEN "BUSY"
    ELSE IF memx_validate_range(base, size) # "OK"
         THEN memx_validate_range(base, size)
    ELSE IF \E a \in Targets(base, base + size) :
                memx_lookup_address(a) # Invalid
         THEN "OVERLAP"
    ELSE "OK"

memx_remove_status(base, size, h) ==
    IF h = Invalid THEN "INVALID_ARGUMENT"
    ELSE IF mode = "OVERLAY" THEN "BUSY"
    ELSE IF memx_validate_range(base, size) # "OK"
         THEN memx_validate_range(base, size)
    ELSE IF \E a \in Targets(base, base + size) :
                memx_lookup_address(a) # h
         THEN "NOT_FOUND"
    ELSE "OK"

\* A call returns an error before it has changed anything: one step for all
\* the arguments with the same error.
Reject ==
    /\ Idle
    /\ status' \in (UNION {{memx_insert_status(base, size, h),
                           memx_remove_status(base, size, h)} :
                             base \in Words, size \in Words, h \in Slots}) \ {"OK"}
    /\ UNCHANGED <<life, directory, optimized, counters, call>>

\* A flat index is written at once.
FlatWrite(base, size, h) ==
    /\ mode = "FLAT"
    /\ flat_entries' = [p \in Positions |->
            IF \E a \in Targets(base, base + size) : Position(a) = p
            THEN h ELSE flat_entries[p]]
    /\ status' = "OK"
    /\ UNCHANGED <<life, mode, overlay_entries, overlay_private,
                   directory, counters, call>>

\* An adaptive index enters the prepare loop.
Begin(loop, base, size, h) ==
    /\ mode = "ADAPTIVE"
    /\ pc' = loop
    /\ req' = [base |-> base, end |-> base + size, handle |-> h]
    /\ cursor' = base
    /\ UNCHANGED <<life, directory, optimized, counters, status>>

memx_insert(base, size, h) ==
    /\ Idle
    /\ memx_insert_status(base, size, h) = "OK"
    /\ \/ FlatWrite(base, size, h)
       \/ Begin("insert_prepare", base, size, h)

memx_remove(base, size, h) ==
    /\ Idle
    /\ memx_remove_status(base, size, h) = "OK"
    /\ \/ FlatWrite(base, size, Invalid)
       \/ Begin("remove_prepare", base, size, h)

-----------------------------------------------------------------------------
(***************************************************************************)
(* The loops.  One step is one iteration: the region under the cursor.      *)
(***************************************************************************)
Here == RegionIndex(cursor)
HereEnd == PartEnd(cursor, req.end)

Return(result) ==
    /\ pc' = "idle"
    /\ req' = NoRequest
    /\ cursor' = 0
    /\ status' = result

\* A prepare loop goes on, or its commit loop starts at the base.
AdvancePrepare(commit) ==
    /\ IF HereEnd < req.end
       THEN cursor' = HereEnd /\ UNCHANGED pc
       ELSE cursor' = req.base /\ pc' = commit
    /\ UNCHANGED <<req, status>>

\* A commit loop goes on, or the call returns.
AdvanceCommit ==
    IF HereEnd < req.end
    THEN cursor' = HereEnd /\ UNCHANGED <<pc, req, status>>
    ELSE Return("OK")

\* Mutant: a split region starts as unmapped.
BlankTable(h) == [g \in Granules |-> Invalid]

FreshTable(h) == [g \in Granules |-> h]

\* memx_get_region_mut(create = true): the directory with a zeroed leaf for r.
RegionsWithLeaf(r) ==
    [q \in Regions |-> IF ~HasRegion(r) /\ RootIndex(q) = RootIndex(r)
                       THEN Empty ELSE region[q]]
LeavesWithLeaf(r) == [i \in Roots |-> leaf[i] \/ i = RootIndex(r)]
NewLeaves(r) == IF HasRegion(r) THEN 0 ELSE 1

\* Mutant: the prepare loop provides tables for large handles only.
TableForLargeHandles(r) ==
    /\ RegionsWithLeaf(r)[r].type = "EMPTY"
    /\ req.handle \notin InlineHandles

\* memx_prepare_insert_regions needs a table for region r.
InsertNeedsTable(r) ==
    /\ RegionsWithLeaf(r)[r].type = "EMPTY"
    /\ ~WholeRegion(cursor, req.end) \/ req.handle \notin InlineHandles

InsertPrepare ==
    /\ pc = "insert_prepare"
    /\ LET r == Here
           tables == IF InsertNeedsTable(r) THEN 1 ELSE 0
       IN  /\ region' = [RegionsWithLeaf(r) EXCEPT ![r] =
                            IF InsertNeedsTable(r)
                            THEN Dense(FreshTable(Invalid)) ELSE @]
           /\ leaf' = LeavesWithLeaf(r)
           /\ allocated_sparse_leaves' = allocated_sparse_leaves + NewLeaves(r)
           /\ dense_regions' = dense_regions + tables
           /\ live' = live + NewLeaves(r) * LeafWords + tables * TableWords
    /\ AdvancePrepare("insert_write")
    /\ UNCHANGED <<life, optimized, uniform_regions>>

\* The allocation of the sparse leaf fails.
InsertPrepareNoLeaf ==
    /\ pc = "insert_prepare"
    /\ ~HasRegion(Here)
    /\ Return("OUT_OF_MEMORY")
    /\ UNCHANGED <<life, directory, optimized, counters>>

\* The allocation of the table fails; a leaf allocated before it stays.
InsertPrepareNoTable ==
    /\ pc = "insert_prepare"
    /\ InsertNeedsTable(Here)
    /\ region' = RegionsWithLeaf(Here)
    /\ leaf' = LeavesWithLeaf(Here)
    /\ allocated_sparse_leaves' = allocated_sparse_leaves + NewLeaves(Here)
    /\ live' = live + NewLeaves(Here) * LeafWords
    /\ Return("OUT_OF_MEMORY")
    /\ UNCHANGED <<life, optimized, uniform_regions, dense_regions>>

\* Mutant: INVALID is stored inline like any handle.
UniformInvalid(table) ==
    IF \A g \in Granules : table[g] = table[0]
    THEN [descriptor |-> Uniform(table[0]), uniform |-> 1, tables |-> -1]
    ELSE [descriptor |-> Dense(table), uniform |-> 0, tables |-> 0]

(***************************************************************************)
(* memx_region_reclassify on a region that holds table: the descriptor it   *)
(* leaves and what it adds to each counter.                                 *)
(***************************************************************************)
memx_region_reclassify(table) ==
    IF \A g \in Granules : table[g] = table[0]
    THEN CASE table[0] = Invalid ->
                [descriptor |-> Empty, uniform |-> 0, tables |-> -1]
           [] table[0] \in InlineHandles ->
                [descriptor |-> Uniform(table[0]), uniform |-> 1, tables |-> -1]
           [] OTHER -> [descriptor |-> Dense(table), uniform |-> 0, tables |-> 0]
    ELSE [descriptor |-> Dense(table), uniform |-> 0, tables |-> 0]

Written(table, h) ==
    [g \in Granules |-> IF g \in PartGranules(cursor, req.end)
                        THEN h ELSE table[g]]

\* Stores a table that has been written, created blocks of it being new.
Publish(r, table, created) ==
    LET result == memx_region_reclassify(table)
    IN  /\ region' = [region EXCEPT ![r] = result.descriptor]
        /\ uniform_regions' = uniform_regions + result.uniform
        /\ dense_regions' = dense_regions + created + result.tables
        /\ live' = live + (created + result.tables) * TableWords

(***************************************************************************)
(* One iteration of the write loop of memx_insert.  Its own error returns   *)
(* (no leaf, no memory for a table) are kept: ImplementsMap shows that     *)
(* the prepare loop has made them impossible.                               *)
(***************************************************************************)
InsertWrite ==
    /\ pc = "insert_write"
    /\ LET r == Here
           empty == region[r].type = "EMPTY"
           inline == /\ empty
                     /\ ReachesBoundary(cursor, req.end)
                     /\ req.handle \in InlineHandles
           fails == ~HasRegion(r) \/ (empty /\ ~inline)
       IN  \E failed \in IF fails THEN BOOLEAN ELSE {FALSE} :
             IF failed \/ ~HasRegion(r)
             THEN Return("OUT_OF_MEMORY") /\ UNCHANGED <<region, counters>>
             ELSE /\ IF inline
                     THEN /\ region' = [region EXCEPT ![r] = Uniform(req.handle)]
                          /\ uniform_regions' = uniform_regions + 1
                          /\ UNCHANGED <<dense_regions, live>>
                     ELSE IF empty
                     THEN Publish(r, Written(FreshTable(Invalid), req.handle), 1)
                     ELSE Publish(r, Written(region[r].entries, req.handle), 0)
                  /\ AdvanceCommit
                  /\ UNCHANGED allocated_sparse_leaves
    /\ UNCHANGED <<life, leaf, optimized>>

\* The first loop of memx_remove converts a region it removes only partly.
RemoveNeedsTable(r) ==
    /\ HasRegion(r)
    /\ region[r].type = "UNIFORM"
    /\ ~ReachesBoundary(cursor, req.end)

RemovePrepare ==
    /\ pc = "remove_prepare"
    /\ LET r == Here
       IN  IF ~HasRegion(r)
           THEN Return("NOT_FOUND") /\ UNCHANGED <<region, counters>>
           ELSE /\ IF RemoveNeedsTable(r)
                   THEN /\ region' = [region EXCEPT ![r] =
                                        Dense(FreshTable(region[r].handle))]
                        /\ uniform_regions' = uniform_regions - 1
                        /\ dense_regions' = dense_regions + 1
                        /\ live' = live + TableWords
                   ELSE UNCHANGED <<region, uniform_regions, dense_regions, live>>
                /\ AdvancePrepare("remove_clear")
                /\ UNCHANGED allocated_sparse_leaves
    /\ UNCHANGED <<life, leaf, optimized>>

RemovePrepareNoTable ==
    /\ pc = "remove_prepare"
    /\ RemoveNeedsTable(Here)
    /\ Return("OUT_OF_MEMORY")
    /\ UNCHANGED <<life, directory, optimized, counters>>

\* leaves_root: the loop is done with the sparse leaf of region r.
LeavesRoot(r) ==
    \/ HereEnd = req.end
    \/ Covered(HereEnd) /\ RootIndex(RegionIndex(HereEnd)) # RootIndex(r)

\* memx_sparse_prune_leaf frees a leaf whose descriptors are all zero.
memx_sparse_prune_leaf(r) ==
    LET i == RootIndex(r)
        prune == /\ Directory = "SPARSE"
                 /\ LeavesRoot(r)
                 /\ leaf[i]
                 /\ \A q \in Regions : RootIndex(q) = i => region'[q] = Empty
    IN  IF prune
        THEN /\ leaf' = [leaf EXCEPT ![i] = FALSE]
             /\ allocated_sparse_leaves' = allocated_sparse_leaves - 1
        ELSE UNCHANGED <<leaf, allocated_sparse_leaves>>

\* The entries the else-branch of the clear loop writes.
ClearRegion(r) ==
    IF region[r].type = "UNIFORM" /\ ReachesBoundary(cursor, req.end)
    THEN [descriptor |-> Empty, uniform |-> -1, tables |-> 0]
    ELSE memx_region_reclassify(Written(region[r].entries, Invalid))

\* One iteration of the second loop of memx_remove.
RemoveClear ==
    /\ pc = "remove_clear"
    /\ LET r == Here
       IN  IF ~HasRegion(r)
           THEN Return("NOT_FOUND") /\ UNCHANGED <<directory, counters>>
           ELSE LET result == ClearRegion(r)
                IN  /\ region' = [region EXCEPT ![r] = result.descriptor]
                    /\ uniform_regions' = uniform_regions + result.uniform
                    /\ dense_regions' = dense_regions + result.tables
                    /\ memx_sparse_prune_leaf(r)
                    /\ live' = live + result.tables * TableWords + LeafWords
                            * (allocated_sparse_leaves' - allocated_sparse_leaves)
                    /\ AdvanceCommit
    /\ UNCHANGED <<life, optimized>>

-----------------------------------------------------------------------------
(***************************************************************************)
(* Optimised forms of a bounded index.                                      *)
(***************************************************************************)
memx_index_optimize_status ==
    CASE mode = "FLAT" -> "OK"
      [] mode = "OVERLAY" -> "BUSY"
      [] OTHER -> IF Directory = "BOUNDED" /\ dense_regions = RegionCount
                  THEN "CONVERT" ELSE "UNSUPPORTED"

memx_index_optimize_overlay_status ==
    CASE mode = "OVERLAY" -> "OK"
      [] mode = "FLAT" -> "UNSUPPORTED"
      [] OTHER -> IF Directory = "BOUNDED" THEN "CONVERT" ELSE "UNSUPPORTED"

\* A call that converts nothing: already done, or refused.
OptimizeReturn(result) ==
    /\ Idle
    /\ result # "CONVERT"
    /\ status' = result
    /\ UNCHANGED <<life, directory, optimized, counters, call>>

\* The allocation of the flat table, or of the overlay mapping, fails.
OptimizeNoMemory ==
    /\ Idle
    /\ "CONVERT" \in {memx_index_optimize_status,
                      memx_index_optimize_overlay_status}
    /\ status' = "OUT_OF_MEMORY"
    /\ UNCHANGED <<life, directory, optimized, counters, call>>

\* The table slot that a position of the flat table or of the overlay copies.
TableSlot(p) ==
    region[p \div GranulesPerRegion].entries[p % GranulesPerRegion]

\* memx_index_optimize copies every table and frees tables and directory.
memx_index_optimize ==
    /\ Idle
    /\ memx_index_optimize_status = "CONVERT"
    /\ flat_entries' = [p \in Positions |-> TableSlot(p)]
    /\ mode' = "FLAT"
    /\ region' = AllEmpty
    /\ dense_regions' = 0
    /\ live' = live + FlatWords - RegionCount * TableWords - DirectoryWords
    /\ status' = "OK"
    /\ UNCHANGED <<life, leaf, overlay_entries, overlay_private,
                   uniform_regions, allocated_sparse_leaves, call>>

(***************************************************************************)
(* The accumulation of private_bytes over regions 0 .. r - 1, in handles:   *)
(* each dense region adds the pages it touches beyond previous_page_end.    *)
(***************************************************************************)
\* Mutant: a page shared with the previous dense region is counted again.
AddSharedPages(acc, r) ==
    LET page_start == PageDown(r * GranulesPerRegion)
        page_end == PageUp((r + 1) * GranulesPerRegion)
    IN  [private |-> acc.private + (page_end - page_start), previous |-> page_end]

AddPages(acc, r) ==
    LET page_start == PageDown(r * GranulesPerRegion)
        page_end == PageUp((r + 1) * GranulesPerRegion)
        from == IF page_start < acc.previous THEN acc.previous ELSE page_start
    IN  IF page_end > acc.previous
        THEN [private |-> acc.private + (page_end - from), previous |-> page_end]
        ELSE acc

PrivatePages[r \in 0 .. RegionCount] ==
    IF r = 0 THEN [private |-> 0, previous |-> 0]
    ELSE IF region[r - 1].type = "DENSE"
         THEN AddPages(PrivatePages[r - 1], r - 1)
         ELSE PrivatePages[r - 1]

\* memx_index_optimize_overlay: copy, publish, then free the tables.
memx_index_optimize_overlay ==
    /\ Idle
    /\ memx_index_optimize_overlay_status = "CONVERT"
    /\ overlay_entries' = [p \in Positions |->
            IF region[p \div GranulesPerRegion].type = "DENSE"
            THEN TableSlot(p) ELSE ZeroHandle]
    /\ overlay_private' = PrivatePages[RegionCount].private
    /\ mode' = "OVERLAY"
    /\ region' = [r \in Regions |->
            IF region[r].type = "DENSE" THEN OverlayMarker ELSE region[r]]
    /\ live' = live + ReservedWords - Cardinality(DenseRegions) * TableWords
    /\ status' = "OK"
    /\ UNCHANGED <<life, leaf, flat_entries, uniform_regions, dense_regions,
                   allocated_sparse_leaves, call>>

-----------------------------------------------------------------------------
Next ==
    \/ CreateIndex
    \/ CreateDirectory
    \/ memx_index_destroy
    \/ Reject
    \/ \E base \in Words, size \in Words, h \in Slots : memx_insert(base, size, h)
    \/ \E base \in Words, size \in Words, h \in Slots : memx_remove(base, size, h)
    \/ InsertPrepare
    \/ InsertPrepareNoLeaf
    \/ InsertPrepareNoTable
    \/ InsertWrite
    \/ RemovePrepare
    \/ RemovePrepareNoTable
    \/ RemoveClear
    \/ OptimizeReturn(memx_index_optimize_status)
    \/ OptimizeReturn(memx_index_optimize_overlay_status)
    \/ OptimizeNoMemory
    \/ memx_index_optimize
    \/ memx_index_optimize_overlay

Spec == Init /\ [][Next]_vars

\* A call that has begun runs on: the thread inside memx_insert or
\* memx_remove is scheduled until the call returns.
LoopStep ==
    \/ InsertPrepare \/ InsertPrepareNoLeaf \/ InsertPrepareNoTable
    \/ InsertWrite
    \/ RemovePrepare \/ RemovePrepareNoTable
    \/ RemoveClear

FairSpec == Spec /\ WF_vars(LoopStep)

-----------------------------------------------------------------------------
(***************************************************************************)
(* Statistics (memx_index_stats), in words.  The code saturates its sums at *)
(* SIZE_MAX, which sums of memory that was really obtained do not reach.    *)
(***************************************************************************)
StatsEmpty ==
    LET used == uniform_regions + dense_regions
        covered == allocated_sparse_leaves * LeafRegions
    IN  CASE mode = "FLAT" -> 0
          [] mode # "FLAT" /\ Directory = "BOUNDED" -> RegionCount - used
          [] OTHER -> IF covered > used THEN covered - used ELSE 0

StatsUniform == IF mode = "FLAT" THEN 0 ELSE uniform_regions
StatsDense == IF mode = "FLAT" THEN RegionCount ELSE dense_regions

\* directory_bytes, without the index object in it.
StatsDirectory ==
    IF mode = "FLAT" THEN FlatWords
    ELSE DirectoryWords + allocated_sparse_leaves * LeafWords

\* representation_bytes and reserved_bytes.
StatsRepresentation ==
    CASE mode = "FLAT"    -> 0
      [] mode = "OVERLAY" -> overlay_private
      [] OTHER            -> dense_regions * TableWords
StatsReserved == IF mode = "OVERLAY" THEN ReservedWords ELSE 0

StatsTotal == IndexWords + StatsDirectory + StatsRepresentation

\* page_accounted_bytes: every block in whole pages of its own.
StatsPages ==
    CASE mode = "FLAT"    -> PageUp(IndexWords) + PageUp(FlatWords)
      [] mode = "OVERLAY" -> PageUp(IndexWords) + PageUp(DirectoryWords)
                                + overlay_private
      [] OTHER -> PageUp(IndexWords) + PageUp(DirectoryWords)
                    + allocated_sparse_leaves * PageUp(LeafWords)
                    + dense_regions * PageUp(TableWords)

-----------------------------------------------------------------------------
(***************************************************************************)
(* Properties.                                                              *)
(***************************************************************************)
Committing == pc \in {"insert_write", "remove_clear"}

(***************************************************************************)
(* The mapping callers may rely on: what a lookup returns, except that a    *)
(* call whose commit loop has begun counts as done in all of its range.     *)
(***************************************************************************)
Mapping == [p \in Positions |->
    LET a == BaseAddress + p * GranuleSize
    IN  IF Committing /\ cursor <= a /\ a < req.end
        THEN IF pc = "insert_write" THEN req.handle ELSE Invalid
        ELSE memx_lookup_address(a)]

\* The running call as its caller sees it: it has taken effect once its commit
\* loop has begun, and from there on its result is certain.
MapPhase ==
    CASE pc = "idle" -> "idle"
      [] pc \in {"insert_prepare", "remove_prepare"} -> "called"
      [] OTHER -> "applied"

MapRequest ==
    IF pc = "idle" THEN [op |-> "none"]
    ELSE [op |-> IF pc \in {"insert_prepare", "insert_write"}
                 THEN "insert" ELSE "remove",
          lo |-> Position(req.base),
          hi |-> Position(req.end - 1),
          handle |-> req.handle]

MapStatus == IF Committing THEN "OK" ELSE status

Map == INSTANCE MemxMap WITH
    Cells <- Positions,
    map <- Mapping,
    exists <- life = "live",
    frozen <- mode = "OVERLAY",
    phase <- MapPhase,
    request <- MapRequest,
    status <- MapStatus

\* The index implements the abstract map: memx_insert and memx_remove take
\* effect in exactly their range or, when an allocation fails at any point of
\* the prepare loops, nowhere; converting, splitting and merging descriptors,
\* pruning leaves and optimising never change a lookup.
ImplementsMap == Map!Spec

\* memx_index_stats tells the truth, in the middle of a call and after it has
\* failed too: the three region counts are what
\* memx_region_type_at finds, total_bytes is what the allocator has given and
\* not got back (the overlay counts by its private pages instead of its
\* reservation), and page_accounted_bytes is never below it.  The private
\* bytes count each page that a DENSE region touches once, also when two
\* regions share a page or one region spans several.  No block is ever lost:
\* memx_index_destroy, or a failed create, leaves nothing allocated.
StatsMatch ==
    LET TouchedPages == {page \in 0 .. (RegionCount * GranulesPerRegion) \div PageHandles :
            \E r \in DenseRegions, g \in Granules :
                (r * GranulesPerRegion + g) \div PageHandles = page}
        Counted(t) == Cardinality({r \in Regions :
            /\ mode = "FLAT" \/ HasRegion(r)
            /\ memx_region_type_at(BaseAddress + r * RegionSize) = t})
    IN  /\ life = "none" => live = 0
        /\ life = "live" => /\ StatsEmpty = Counted("EMPTY")
                            /\ StatsUniform = Counted("UNIFORM")
                            /\ StatsDense = Counted("DENSE")
                            /\ live = StatsTotal + (IF mode = "OVERLAY"
                                   THEN StatsReserved - StatsRepresentation ELSE 0)
                            /\ StatsTotal <= StatsPages
                            /\ mode = "OVERLAY" =>
                                   overlay_private = PageHandles * Cardinality(TouchedPages)

\* Two facts the loops rely on without a test.  A NULL sparse leaf stands for
\* EMPTY descriptors only: no leaf is pruned (or left out) while one of its
\* regions still holds a handle or a table.  And the last region of the address
\* space is never UNIFORM: its end is not a word, so memx_region_boundary
\* answers with the end of the request, and the boundary tests of memx_remove
\* would take part of it for all of it.
DescriptorsSound ==
    \A r \in Regions :
        /\ ~HasRegion(r) => region[r] = Empty
        /\ BaseAddress + (r + 1) * RegionSize > WordMax =>
               region[r].type # "UNIFORM"

\* The unchecked lookups of memx.h and of the benchmark return what the checked
\* lookup returns, on every address their contracts admit.
ViewsAgree ==
    \A a \in Words :
        LET h == memx_lookup_address(a)
            mapped == life = "live" /\ Covered(a) /\ h # Invalid
        IN  /\ mapped /\ memx_index_bounded_view =>
                    /\ memx_bounded_lookup_assume_mapped(a) = h
                    /\ lookup_memx_bounded_trusted(a) = h
                    /\ lookup_memx_bounded_branchless(a) = h
            /\ mapped /\ memx_index_flat_view => memx_flat_lookup_assume_mapped(a) = h
            /\ mapped /\ memx_index_overlay_view => memx_overlay_lookup_trusted(a) = h

\* Every mutation returns: the cursor always moves on, also where the region
\* boundary is not representable.
CallReturns == pc # "idle" ~> pc = "idle"
=============================================================================
