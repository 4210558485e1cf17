------------------------------ MODULE MemxTrace ------------------------------
(***************************************************************************)
(* Allocation traces (src/memx/bench/trace.c) and their replay              *)
(* (src/memx/bench/memx_trace_replay.c): a file is read line by line, its   *)
(* events are validated by an oracle that keeps every granule in a hash     *)
(* table of its own, statistics give the address range an index must cover, *)
(* and the events are applied to a bounded and to a sparse index, which     *)
(* must then agree with the oracle.                                         *)
(*                                                                          *)
(* The program makes a pass over the events for each of these; here they    *)
(* advance together, one event at a time.  The oracle's table is sized by   *)
(* the whole file, so the number of granules its INSERTs will name is       *)
(* chosen first, and the file goes on until it has named that many.         *)
(*                                                                          *)
(* The indexes are what MemxIndex is shown to implement: MemxMap, with a    *)
(* cell for every address.  A replay the program turns out not to start,    *)
(* for want of coverage or of memory, is followed on the bounded index all  *)
(* the same; an index is followed to its first failure, which is all that   *)
(* the program reports of it.  Tallies of events and of threads are left    *)
(* out.                                                                     *)
(***************************************************************************)
EXTENDS MemxHandles, FiniteSets

CONSTANTS
    PointerBytes,       \* of a pointer and of a handle
    SparseBits,         \* 48: what the sparse replay covers
    SparseBitsMax,      \* the most bits of a two-level directory
    DefaultRegion,      \* the shifts of memx_trace_init
    DefaultGranule,
    HeaderValues,       \* numbers a header may carry
    Version,            \* MEMX_TRACE_FORMAT_VERSION
    Hash,               \* trace_hash_address
    MinCapacity,        \* 8
    MaxInserted,        \* TRACE_MAX_LIFECYCLE_GRANULES
    Addresses, Lengths  \* of the events

ASSUME TraceAssumption ==
    /\ WordBits \in Nat \ {0} /\ PointerBytes \in Nat \ {0}
    /\ SparseBits \in Nat \ {0} /\ SparseBitsMax \in Nat \ {0}
    /\ HeaderValues \subseteq Nat /\ DefaultRegion \in Nat /\ DefaultGranule \in Nat
    /\ Addresses \subseteq Words /\ Lengths \subseteq Words
    /\ Hash \in [Words -> Nat]
    /\ Invalid \notin Handles
    /\ MinCapacity \in Nat \ {0} /\ MaxInserted \in Nat

VARIABLES
    reading,        \* inside memx_trace_read_file
    saw_magic, saw_columns,
    trace,          \* its headers and whether it has an event buffer
    possible_live,  \* granules the INSERT events of the file name
    inserted,       \* and those named so far
    invalid,        \* an event was refused; the passes have stopped there
    table,          \* the oracle: slots and live_count
    bounded,        \* the map of each index of the replay
    sparse,
    failures,       \* indexes on which the replay has counted a failure
    starved,        \* those whose first failure was for want of memory
    stats,
    out_trace,      \* the caller's trace
    buffers,        \* event buffers allocated and not freed
    status

passes == <<table, bounded, sparse, failures, starved, stats>>
TraceVars == <<reading, saw_magic, saw_columns, trace, possible_live, inserted,
               invalid, passes, out_trace, buffers, status>>

memx_trace_init ==
    [version |-> Version, region_shift |-> DefaultRegion,
     granule_shift |-> DefaultGranule, events |-> FALSE]

EmptySlot == [granule |-> 0, handle |-> Invalid, state |-> "EMPTY", retired |-> FALSE]
NoTable == [slots |-> [p \in {0} |-> EmptySlot], live_count |-> 0]
NoStats == [minimum |-> WordMax, maximum |-> 0, live |-> 0, peak |-> 0]
Unmapped == [a \in Words |-> Invalid]

TraceInit ==
    /\ reading = FALSE
    /\ saw_magic = FALSE /\ saw_columns = FALSE
    /\ trace = memx_trace_init
    /\ possible_live = 0 /\ inserted = 0
    /\ invalid = FALSE
    /\ table = NoTable
    /\ bounded = Unmapped /\ sparse = Unmapped
    /\ failures = {} /\ starved = {}
    /\ stats = NoStats
    /\ out_trace = memx_trace_init
    /\ buffers = 0
    /\ status = "OK"

-----------------------------------------------------------------------------
(***************************************************************************)
(* memx_trace_validate.                                                     *)
(***************************************************************************)
granule_size == Pow2[trace.granule_shift]

ShiftsValid ==
    /\ trace.region_shift < WordBits
    /\ trace.granule_shift < WordBits
    /\ trace.region_shift >= trace.granule_shift

\* ordered: the sequence number is above that of the event before.
Events == [operation : {"INSERT", "LOOKUP", "RETIRE", "REMOVE", "QUIESCENT"},
           address : Addresses, size : Lengths, handle : Handles \cup {Invalid},
           ordered : BOOLEAN]

RangeOperation(e) == e.operation \in {"INSERT", "RETIRE", "REMOVE"}

memx_trace_validate(e) ==
    /\ trace.events => e.ordered
    /\ RangeOperation(e) =>
           /\ e.size # 0
           /\ e.address % granule_size = 0 /\ e.size % granule_size = 0
           /\ e.size <= WordMax - e.address
    /\ e.operation \in {"INSERT", "REMOVE"} => e.handle # Invalid
    /\ e.operation = "LOOKUP" => e.size = 0 /\ e.address # WordMax
    /\ e.operation = "QUIESCENT" => e.address = 0 /\ e.size = 0

-----------------------------------------------------------------------------
(***************************************************************************)
(* The oracle's table: open addressing, linear probing, tombstones.         *)
(***************************************************************************)
Least(S) == CHOOSE i \in S : \A j \in S : i <= j

Capacity(slots) == Cardinality(DOMAIN slots)

\* The slot a search for granule g looks at after i others.
Probe(slots, g, i) == (Hash[g] + i) % Capacity(slots)
Probes(slots) == 0 .. (Capacity(slots) - 1)

\* Mutant: a search ends at a tombstone.
FindStopsAtTombstone(slots, g, for_insert) ==
    LET ends == {i \in Probes(slots) :
                    \/ slots[Probe(slots, g, i)].state # "LIVE"
                    \/ slots[Probe(slots, g, i)].granule = g}
    IN  IF ends # {} THEN {Probe(slots, g, Least(ends))} ELSE {}

\* Where a search ends: at an empty slot, or at that of the granule.
Ends(slots, g) ==
    {i \in Probes(slots) :
        LET slot == slots[Probe(slots, g, i)]
        IN  \/ slot.state = "EMPTY"
            \/ slot.state = "LIVE" /\ slot.granule = g}

TombstonesBefore(slots, g, ends) ==
    {i \in Probes(slots) :
        /\ slots[Probe(slots, g, i)].state = "TOMBSTONE"
        /\ ends # {} => i < Least(ends)}

\* The slot of granule g, or the one where it belongs; none is left only when
\* the table has neither.
trace_lifecycle_find(slots, g, for_insert) ==
    LET ends == Ends(slots, g)
        tombstones == IF for_insert THEN TombstonesBefore(slots, g, ends) ELSE {}
    IN  CASE ends # {} /\ (slots[Probe(slots, g, Least(ends))].state = "LIVE"
                             \/ tombstones = {}) -> {Probe(slots, g, Least(ends))}
          [] ends = {} /\ tombstones = {} -> {}
          [] OTHER -> {Probe(slots, g, Least(tombstones))}

\* The smallest doubling of MinCapacity with room for twice the granules.
trace_lifecycle_capacity(granules) ==
    MinCapacity * Pow2[Least({k \in 0 .. (2 * granules) :
                                MinCapacity * Pow2[k] >= granules * 2})]

\* The granules of an event, in address order.
GranuleCount(e) == e.size \div granule_size
GranuleAt(e, n) == e.address + (n - 1) * granule_size
GranulesOf(e) == {GranuleAt(e, n) : n \in 1 .. GranuleCount(e)}

LiveSlot(slots, g) ==
    {p \in trace_lifecycle_find(slots, g, FALSE) : slots[p].state = "LIVE"}

trace_lifecycle_range_matches(e, require_active) ==
    \A g \in GranulesOf(e) : \E p \in LiveSlot(table.slots, g) :
        /\ table.slots[p].handle = e.handle
        /\ require_active => ~table.slots[p].retired

trace_lifecycle_lookup_matches(e) ==
    LET found == LiveSlot(table.slots, e.address - (e.address % granule_size))
    IN  e.handle = IF found = {} THEN Invalid
                   ELSE table.slots[CHOOSE p \in found : TRUE].handle

\* What an event leaves in the slot of granule g.
SlotAfter(slot, g, e) ==
    CASE e.operation = "INSERT" ->
            [granule |-> g, handle |-> e.handle, state |-> "LIVE", retired |-> FALSE]
      [] e.operation = "RETIRE" -> [slot EXCEPT !.retired = TRUE]
      [] e.operation = "REMOVE" -> [slot EXCEPT !.state = "TOMBSTONE", !.retired = FALSE]

\* The second find of an insertion may take a tombstone.
SlotChanged(slots, g, e) ==
    LET p == CHOOSE q \in trace_lifecycle_find(slots, g, e.operation = "INSERT") : TRUE
    IN  [slots EXCEPT ![p] = SlotAfter(@, g, e)]

\* One granule at a time, in address order.
Changed(e) ==
    LET after[n \in 0 .. GranuleCount(e)] ==
            IF n = 0 THEN table.slots ELSE SlotChanged(after[n - 1], GranuleAt(e, n), e)
    IN  after[GranuleCount(e)]

trace_lifecycle_insert(e) ==
    [slots |-> Changed(e), live_count |-> table.live_count + GranuleCount(e)]

trace_lifecycle_retire(e) == [table EXCEPT !.slots = Changed(e)]

trace_lifecycle_remove(e) ==
    [slots |-> Changed(e), live_count |-> table.live_count - GranuleCount(e)]

\* memx_trace_validate_lifecycle: what an event must find ...
OracleAccepts(e) ==
    CASE e.operation = "INSERT" ->
            \A g \in GranulesOf(e) : LiveSlot(table.slots, g) = {}
      [] e.operation = "LOOKUP" -> trace_lifecycle_lookup_matches(e)
      [] e.operation = "RETIRE" -> trace_lifecycle_range_matches(e, TRUE)
      [] e.operation = "REMOVE" -> trace_lifecycle_range_matches(e, FALSE)
      [] e.operation = "QUIESCENT" -> TRUE

\* ... and what it does.
OracleApplies(e) ==
    CASE e.operation = "INSERT" -> trace_lifecycle_insert(e)
      [] e.operation = "RETIRE" -> trace_lifecycle_retire(e)
      [] e.operation = "REMOVE" -> trace_lifecycle_remove(e)
      [] OTHER -> table

-----------------------------------------------------------------------------
(***************************************************************************)
(* Statistics, and the range the bounded index is created for.              *)
(***************************************************************************)
memx_trace_calculate_stats(e) ==
    LET end == e.address + (IF e.operation = "LOOKUP" THEN 1 ELSE e.size)
        live == CASE e.operation = "INSERT" -> stats.live + e.size
                  [] e.operation = "REMOVE" ->
                        IF e.size > stats.live THEN 0 ELSE stats.live - e.size
                  [] OTHER -> stats.live
        refers == e.operation # "QUIESCENT"
    IN  [minimum |-> IF refers /\ e.address < stats.minimum
                     THEN e.address ELSE stats.minimum,
         maximum |-> IF refers /\ end > stats.maximum THEN end ELSE stats.maximum,
         live |-> live,
         peak |-> IF live > stats.peak THEN live ELSE stats.peak]

NoCoverage == [base |-> 0, size |-> 0]

\* Mutant: the end of the range is rounded down.
CoverageRoundedDown(s) ==
    LET region == Pow2[trace.region_shift]
        base == s.minimum - (s.minimum % region)
        high == s.maximum - (s.maximum % region)
    IN  IF high <= base THEN NoCoverage ELSE [base |-> base, size |-> high - base]

align_coverage(s) ==
    LET region == Pow2[trace.region_shift]
        base == s.minimum - (s.minimum % region)
        high == LET up == s.maximum + region - 1 IN up - (up % region)
    IN  IF s.maximum = 0 \/ s.maximum > WordMax - (region - 1) \/ high <= base
        THEN NoCoverage
        ELSE [base |-> base, size |-> high - base]

\* memx_config_t of the bounded replay.
BoundedConfig ==
    [directory |-> "BOUNDED", region_shift |-> trace.region_shift,
     granule_shift |-> trace.granule_shift,
     base_address |-> align_coverage(stats).base,
     managed_size |-> align_coverage(stats).size,
     address_bits |-> WordBits, enums_valid |-> TRUE, callbacks |-> "none"]

\* ... and of the sparse one.
SparseConfig ==
    [directory |-> "SPARSE", region_shift |-> trace.region_shift,
     granule_shift |-> trace.granule_shift, base_address |-> 0, managed_size |-> 0,
     address_bits |-> SparseBits, enums_valid |-> TRUE, callbacks |-> "none"]

BoundedCreate == INSTANCE MemxConfig WITH
    WordBytes <- PointerBytes, config <- BoundedConfig, index <- 0, live <- 0, pc <- "call"

SparseCreate == INSTANCE MemxConfig WITH
    WordBytes <- PointerBytes, config <- SparseConfig, index <- 0, live <- 0, pc <- "call"

\* memx_index_create refuses the sparse index for the shifts of some traces.
SparseReplayed ==
    /\ SparseCreate!memx_validate_config(SparseConfig) = "OK"
    /\ SparseCreate!GeometryStatus(SparseCreate!Geometry(SparseConfig)) = "OK"

-----------------------------------------------------------------------------
(***************************************************************************)
(* replay: one event on one index.                                          *)
(***************************************************************************)
OnBounded == INSTANCE MemxMap WITH
    Cells <- Words, map <- bounded, exists <- TRUE, frozen <- FALSE,
    phase <- "idle", request <- [op |-> "none"]

OnSparse == INSTANCE MemxMap WITH
    Cells <- Words, map <- sparse, exists <- TRUE, frozen <- FALSE,
    phase <- "idle", request <- [op |-> "none"]

Mutates(e) == e.operation \in {"INSERT", "REMOVE"}
Request(e) == [op |-> IF e.operation = "INSERT" THEN "insert" ELSE "remove",
               lo |-> e.address, hi |-> e.address + e.size - 1, handle |-> e.handle]

InSparse(e) == e.address + e.size <= Pow2[SparseBits]

\* Whether the calls of an event are answered as they should be; a
\* memx_lookup_address outside the index answers MEMX_HANDLE_INVALID, and no
\* cell is ever mapped there.
Answered(e) ==
    [bounded |-> /\ Mutates(e) => OnBounded!Accepts(Request(e))
                 /\ e.operation = "LOOKUP" => bounded[e.address] = e.handle,
     sparse |-> /\ Mutates(e) => InSparse(e) /\ OnSparse!Accepts(Request(e))
                /\ e.operation = "LOOKUP" => sparse[e.address] = e.handle]

\* The indexes of short run out of memory in the mutation.
Replay(e, short) ==
    LET following == (IF SparseReplayed THEN {"bounded", "sparse"} ELSE {"bounded"})
                        \ failures
        failed == {i \in following : i \in short \/ ~Answered(e)[i]}
        Left(i, m, applied) ==
            IF i \notin following \ failed THEN Unmapped
            ELSE IF Mutates(e) THEN applied ELSE m
    IN  /\ Mutates(e) \/ short = {}
        /\ failures' = failures \cup failed
        /\ starved' = starved \cup {i \in failed \cap short : Answered(e)[i]}
        /\ bounded' = Left("bounded", bounded, OnBounded!Applied(Request(e)))
        /\ sparse' = Left("sparse", sparse, OnSparse!Applied(Request(e)))

-----------------------------------------------------------------------------
(***************************************************************************)
(* memx_trace_read_file.                                                    *)
(***************************************************************************)
Local == <<reading, saw_magic, saw_columns, possible_live, inserted, invalid, passes>>

\* The call returns; what it kept on its stack is gone.
Forget ==
    /\ reading' = FALSE
    /\ saw_magic' = FALSE /\ saw_columns' = FALSE
    /\ trace' = memx_trace_init
    /\ possible_live' = 0 /\ inserted' = 0
    /\ invalid' = FALSE
    /\ table' = NoTable
    /\ bounded' = Unmapped /\ sparse' = Unmapped
    /\ failures' = {} /\ starved' = {}
    /\ stats' = NoStats

Buffer(owner) == IF owner.events THEN 1 ELSE 0

\* memx_trace_destroy(&trace) on every error return after the file is open.
Fail(result) ==
    /\ status' = result
    /\ buffers' = buffers - Buffer(trace)
    /\ Forget
    /\ UNCHANGED out_trace

\* A file that cannot be opened.
OpenFails ==
    /\ ~reading
    /\ status' = "IO"
    /\ UNCHANGED <<reading, saw_magic, saw_columns, trace, possible_live, inserted,
                   invalid, passes, out_trace, buffers>>

\* The status of the call before is gone.
Open ==
    /\ ~reading
    /\ reading' = TRUE
    /\ status' = "OK"
    /\ UNCHANGED <<saw_magic, saw_columns, trace, possible_live, inserted,
                   invalid, passes, out_trace, buffers>>

MagicLine ==
    /\ reading /\ ~saw_magic
    /\ saw_magic' = TRUE
    /\ UNCHANGED <<reading, saw_columns, trace, possible_live, inserted,
                   invalid, passes, out_trace, buffers, status>>

\* parse_header_line; a header may be repeated, and may be missing.
HeaderLine(name, value) ==
    /\ saw_magic /\ ~saw_columns
    /\ trace' = [trace EXCEPT ![name] = value]
    /\ UNCHANGED <<Local, out_trace, buffers, status>>

\* After the column line only events follow: the headers are final, and with
\* the INSERT events to come they give the size of the table.
ColumnsLine(granules) ==
    /\ saw_magic /\ ~saw_columns
    /\ saw_columns' = TRUE
    /\ invalid' = ~(trace.version = Version /\ ShiftsValid)
    /\ possible_live' = IF invalid' THEN 0 ELSE granules
    /\ table' = [NoTable EXCEPT !.slots =
           [p \in 0 .. (trace_lifecycle_capacity(possible_live') - 1) |-> EmptySlot]]
    /\ UNCHANGED <<reading, saw_magic, trace, inserted, bounded, sparse, failures,
                   starved, stats, out_trace, buffers, status>>

\* parse_event_line and memx_trace_append, and then each pass over the event.
\* The passes stop at an event that is refused; later ones are only appended.
EventLine(e) ==
    LET granules == IF e.operation = "INSERT" THEN GranuleCount(e) ELSE 0
    IN  /\ saw_columns
        /\ ~invalid
        /\ trace' = [trace EXCEPT !.events = TRUE]
        /\ buffers' = buffers + 1 - Buffer(trace)
        /\ IF memx_trace_validate(e) /\ OracleAccepts(e)
           THEN /\ inserted + granules <= possible_live
                /\ inserted' = inserted + granules
                /\ table' = OracleApplies(e)
                /\ stats' = memx_trace_calculate_stats(e)
                /\ \E short \in SUBSET {"bounded", "sparse"} : Replay(e, short)
                /\ UNCHANGED invalid
           ELSE /\ invalid' = TRUE
                /\ UNCHANGED <<inserted, passes>>
        /\ UNCHANGED <<reading, saw_magic, saw_columns, possible_live, out_trace, status>>

\* A line that is too long or is not what may stand in its place.
BadLine == reading /\ Fail("FORMAT")

AppendFails == saw_columns /\ Fail("MEMORY")

ReadError == reading /\ Fail("IO")

\* Mutant: the trace the caller had is not freed.
AcceptKeepsOld ==
    /\ status' = "OK"
    /\ out_trace' = trace
    /\ Forget
    /\ UNCHANGED buffers

\* memx_trace_destroy(out_trace), then the assignment.
Accept ==
    /\ status' = "OK"
    /\ out_trace' = trace
    /\ buffers' = buffers - Buffer(out_trace)
    /\ Forget

EndOfFile ==
    /\ reading
    /\ inserted = possible_live \/ invalid
    /\ CASE ~saw_columns -> Fail("FORMAT")
         [] saw_columns /\ trace.version # Version -> Fail("VERSION")
         [] saw_columns /\ trace.version = Version /\ invalid -> Fail("SEMANTIC")
         [] OTHER -> Accept

\* The table of the oracle: more granules than it takes, or no memory.
OracleFails ==
    /\ saw_columns /\ ~invalid
    /\ Fail("MEMORY")

TraceNext ==
    \/ OpenFails \/ Open
    \/ MagicLine
    \/ \E name \in {"version", "region_shift", "granule_shift"},
          value \in HeaderValues : HeaderLine(name, value)
    \/ \E granules \in 0 .. MaxInserted : ColumnsLine(granules)
    \/ \E e \in Events : EventLine(e)
    \/ BadLine \/ AppendFails \/ ReadError \/ OracleFails
    \/ EndOfFile

TraceSpec == TraceInit /\ [][TraceNext]_TraceVars

-----------------------------------------------------------------------------
(***************************************************************************)
(* Properties.                                                              *)
(***************************************************************************)
InUse == {p \in DOMAIN table.slots : table.slots[p].state = "LIVE"}
Fresh == {p \in DOMAIN table.slots : table.slots[p].state = "EMPTY"}
Judging == saw_columns /\ ~invalid

\* What the oracle holds at an address.
OracleHandle(a) ==
    LET found == LiveSlot(table.slots, a - (a % granule_size))
    IN  IF found = {} THEN Invalid
        ELSE table.slots[CHOOSE p \in found : TRUE].handle

\* The oracle and the indexes agree: through removals, reinsertions and
\* collisions the table finds every granule where a map would, in one slot, it
\* always has an empty slot to end a search at, and so the replay of a trace
\* the validator has accepted counts no failure on an index that gets the memory
\* it asks for (on the sparse one none below the addresses it covers).
OracleExact ==
    Judging =>
        /\ \A a \in Words :
               /\ "bounded" \notin failures => bounded[a] = OracleHandle(a)
               /\ SparseReplayed /\ "sparse" \notin failures => sparse[a] = OracleHandle(a)
        /\ \A p, q \in InUse :
               table.slots[p].granule = table.slots[q].granule => p = q
        /\ \A p \in DOMAIN table.slots : table.slots[p].retired => p \in InUse
        /\ table.live_count = Cardinality(InUse)
        /\ 2 * Cardinality(Fresh) >= Capacity(table.slots)
        /\ "bounded" \in failures => "bounded" \in starved
        /\ "sparse" \in failures =>
               SparseReplayed /\ ("sparse" \in starved \/ stats.maximum > Pow2[SparseBits])

\* The statistics fit the events: live bytes are the bytes that are mapped (so
\* the clamp at zero never acts), the peak covers them, and the range that
\* align_coverage derives, when it gives one, has every mapped byte and is one
\* memx_validate_config accepts.  Of the guards that follow in
\* memx_index_create only two are left to refuse it: a region of more granules
\* than a table may have, and a directory of regions smaller than a pointer.
StatsExact ==
    LET mapped == {a \in Words : OracleHandle(a) # Invalid}
        cover == align_coverage(stats)
        granules == Pow2[trace.region_shift - trace.granule_shift]
    IN  Judging =>
            /\ stats.live = Cardinality(mapped)
            /\ stats.peak >= stats.live
            /\ cover # NoCoverage =>
                   /\ mapped \subseteq cover.base .. (cover.base + cover.size - 1)
                   /\ BoundedCreate!memx_validate_config(BoundedConfig) = "OK"
                   /\ granules <= WordMax \div PointerBytes /\ Pow2[trace.region_shift] >= PointerBytes
                        => BoundedCreate!GeometryStatus(BoundedCreate!Geometry(BoundedConfig)) = "OK"

\* A load replaces the caller's trace as a whole or leaves it alone, whichever
\* of its steps fails, and only the buffers of traces that exist stay
\* allocated.
LoadAtomic ==
    [][/\ out_trace' # out_trace =>
              status' = "OK" /\ ~invalid /\ out_trace' = trace
       /\ buffers' = Buffer(out_trace') + Buffer(trace')]_TraceVars
=============================================================================
