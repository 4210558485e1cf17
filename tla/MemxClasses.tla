----------------------------- MODULE MemxClasses -----------------------------
(***************************************************************************)
(* The arithmetic of small allocations: which configurations               *)
(* memx_heap_create accepts, how a request is mapped to one of the 19 size *)
(* classes or to a mapping of its own, how a span is cut into blocks, and  *)
(* how a pointer is mapped back to the block it belongs to.                *)
(*                                                                         *)
(* memx_heap_create makes an index over its arena: the steps of that call  *)
(* of memx_index_create, and the variables config, index, live, pc and     *)
(* status they work on, are those of module MemxConfig.                    *)
(*                                                                         *)
(* The class table, the headers and the alignment are those of the 64-bit  *)
(* build; pointers are offsets into the arena, whose base is a multiple of *)
(* the span size.  Numbers are words of WordBits bits.                     *)
(***************************************************************************)
EXTENDS MemxConfig, Sequences, FiniteSets

CONSTANTS
    PageSize,       \* memx_os_page_size(), a power of two
    BatchMax,       \* largest cache_batch a 32-bit chunk count can hold
    HeapConfigs,    \* the configurations callers pass
    ArenaBases,     \* addresses at which the system may place an arena
    RequestSizes,   \* sizes passed to malloc
    Alignments,     \* alignments passed to aligned_alloc
    Counts,         \* counts and element sizes passed to calloc
    SpanClassChoice,\* classes of which spans are claimed
    ReallocSizes    \* sizes passed to realloc

SizeMax == WordMax

(* sizeof(memx_heap_span_t) rounded up, sizeof(memx_heap_block_t),         *)
(* _Alignof(max_align_t) and sizeof(void * ).                              *)
SpanHeader == 64
BlockHeader == 16
MaxAlign == 16
PointerSize == 8

memx_heap_class_sizes ==
    <<16, 24, 32, 48, 64, 96, 128, 192, 256, 384, 512, 768, 1024,
      1536, 2048, 3072, 4096, 6144, 8192>>

ClassCount == Len(memx_heap_class_sizes)
Classes == 0..(ClassCount - 1)
ClassSize(c) == memx_heap_class_sizes[c + 1]

ASSUME ClassesAssumption ==
    /\ WordBytes = PointerSize
    /\ PageSize \in Nat \ {0}
    /\ HeapConfigs \subseteq [span_shift : Nat, reserve_size : 0..SizeMax,
                             cache_batch : Nat, cache_limit : Nat]
    /\ ArenaBases \subseteq 0..SizeMax
    /\ SpanClassChoice \subseteq Classes
    /\ RequestSizes \subseteq 0..SizeMax
    /\ Alignments \subseteq 0..SizeMax
    /\ Counts \subseteq 0..SizeMax
    /\ ReallocSizes \subseteq 1..SizeMax

VARIABLES
    heap_config,    \* the configuration of the heap, or NoConfig
    refused,        \* the last creation was refused
    spans,          \* the class of each claimed span, in arena order
    call,           \* the last allocation request and what became of it
    block,          \* a block the program resizes
    live_requested_bytes,
    last            \* its size before the last realloc, and the bytes kept

resize == <<block, live_requested_bytes, last>>
heap_vars == <<heap_config, refused, spans, call, resize>>
ClassesVars == <<vars, heap_vars>>

NoConfig == [span_shift |-> 0, reserve_size |-> 0, cache_batch |-> 0, cache_limit |-> 0]
NoCallYet == [count |-> 0, size |-> 0, align |-> 0, to |-> "none", class |-> 0]

NoBlock == [to |-> "none", class |-> 0, requested_size |-> 0]

(* The index over the arena: one region per span, granules of a page.      *)
index_config(c, base) ==
    [directory |-> "BOUNDED", region_shift |-> c.span_shift, granule_shift |-> 12,
     base_address |-> base, managed_size |-> c.reserve_size,
     address_bits |-> WordBits, enums_valid |-> TRUE, callbacks |-> "none"]

ClassesInit ==
    /\ config = index_config(NoConfig, 0)
    /\ index = NoGeometry
    /\ live = 0
    /\ pc = "idle"
    /\ status = "OK"
    /\ heap_config = NoConfig
    /\ refused = FALSE
    /\ spans = <<>>
    /\ call = NoCallYet
    /\ block = NoBlock
    /\ live_requested_bytes = 0
    /\ last = [old |-> 0, kept |-> 0]

-----------------------------------------------------------------------------
(* Helpers.                                                                *)

memx_heap_power_of_two(n) == \E k \in 0..(WordBits - 1) : n = Pow2[k]

memx_heap_align_up(n, alignment) ==
    IF n > SizeMax - (alignment - 1)
    THEN 0
    ELSE ((n + alignment - 1) \div alignment) * alignment

(* The number of bits up to the top set bit, as 64 - clz computes it.      *)
BitWidth(n) == CHOOSE k \in 0..WordBits : n < Pow2[k] /\ \A j \in 0..(k - 1) : Pow2[j] <= n

(* Mutant: the octave is taken from size, not from size - 1.               *)
ClassOfSize(size) ==
    LET bit_width == IF BitWidth(size) < 5 THEN 5 ELSE BitWidth(size)
        half == (size \div Pow2[bit_width - 2]) % 2
    IN  IF size <= 16 THEN 0 ELSE (bit_width - 5) * 2 + half + 1

memx_heap_class_for_size(size) ==
    LET value == size - 1
        bit_width == IF BitWidth(value) < 5 THEN 5 ELSE BitWidth(value)
        half == (value \div Pow2[bit_width - 2]) % 2
    IN  IF size <= 16 THEN 0 ELSE (bit_width - 5) * 2 + half + 1

Live == heap_config # NoConfig /\ Created
SpanSize == Pow2[heap_config.span_shift]

-----------------------------------------------------------------------------
(* memx_heap_create: the checks on its configuration.                      *)

LargestStride == memx_heap_align_up(BlockHeader + ClassSize(ClassCount - 1), MaxAlign)

(* Mutant: the largest class is not measured against the span.             *)
AnySpanValid(span_size, reserve_size) ==
    /\ span_size >= PageSize
    /\ reserve_size # 0
    /\ reserve_size % span_size = 0

SpanGeometryValid(span_size, reserve_size) ==
    /\ span_size >= PageSize
    /\ span_size % PageSize = 0
    /\ LargestStride # 0
    /\ SpanHeader <= span_size
    /\ LargestStride <= span_size - SpanHeader
    /\ reserve_size # 0
    /\ reserve_size % span_size = 0

ValidConfig(c) ==
    /\ c.span_shift < WordBits
    /\ c.cache_batch # 0
    /\ c.cache_batch <= BatchMax
    /\ c.cache_limit >= 2
    /\ SpanGeometryValid(Pow2[c.span_shift], c.reserve_size)

(* memx_os_reserve_aligned refuses a reservation that is no word with its  *)
(* alignment, which is the span size or more.                              *)
Reservable(c) == c.reserve_size <= SizeMax - Pow2[c.span_shift]

Creatable(c) == ValidConfig(c) /\ Reservable(c)

(* memx_os_reserve_aligned returns a range that starts at a multiple of    *)
(* the alignment and ends inside the address space.                        *)
Placed(c, base) == base % Pow2[c.span_shift] = 0 /\ base <= SizeMax - c.reserve_size

(* memx_heap_create up to its call of memx_index_create.                   *)
Create(c, base) ==
    /\ heap_config = NoConfig
    /\ Creatable(c)
    /\ Placed(c, base)
    /\ heap_config' = c
    /\ refused' = FALSE
    /\ config' = index_config(c, base)
    /\ index' = NoGeometry
    /\ live' = 0
    /\ pc' = "call"
    /\ status' = "OK"
    /\ UNCHANGED <<spans, call, resize>>

CreateRefused(c) ==
    /\ heap_config = NoConfig
    /\ ~Creatable(c)
    /\ refused' = TRUE
    /\ UNCHANGED <<vars, heap_config, spans, call, resize>>

(* A step of memx_index_create.                                            *)
CreateIndex == Next /\ UNCHANGED heap_vars

(* There is no index: the heap is given up.                                *)
CreateFails ==
    /\ pc = "returned" /\ status # "OK"
    /\ heap_config' = NoConfig
    /\ refused' = TRUE
    /\ pc' = "idle"
    /\ UNCHANGED <<config, index, live, status, spans, call, resize>>

-----------------------------------------------------------------------------
(* Spans.                                                                  *)

SpanCapacity == heap_config.reserve_size \div SpanSize

(* Mutant: the stride leaves out the header of the next block.             *)
StrideWithoutHeader(c) == memx_heap_align_up(ClassSize(c), MaxAlign)

BlockStride(c) == memx_heap_align_up(BlockHeader + ClassSize(c), MaxAlign)
BlockCount(c) == (SpanSize - SpanHeader) \div BlockStride(c)

(* memx_heap_create_span_locked and memx_heap_claim_span for class c.      *)
ClaimSpan(c) ==
    /\ Live
    /\ call = NoCallYet /\ block = NoBlock
    /\ SpanHeader < SpanSize
    /\ BlockCount(c) # 0
    /\ Len(spans) < SpanCapacity
    /\ spans' = Append(spans, c)
    /\ UNCHANGED <<vars, heap_config, refused, call, resize>>

SpanBase(s) == (s - 1) * SpanSize + SpanHeader

(* Where block i of span s has its header and its payload.                 *)
BlockAt(s, i) == SpanBase(s) + i * BlockStride(spans[s])
PayloadAt(s, i) == BlockAt(s, i) + BlockHeader

(* memx_heap_class_for_arena_offset: the side table, one entry per span.   *)
memx_heap_class_for_arena_offset(offset) == spans[offset \div SpanSize + 1]

(* The span memx_lookup_address names for an arena offset, 0 if none.      *)
SpanAt(offset) ==
    LET s == offset \div SpanSize + 1 IN IF s <= Len(spans) THEN s ELSE 0

NotABlock == <<0, 0>>

(* memx_heap_small_block_locked: the span and the number of the block      *)
(* whose payload starts at this offset.                                    *)
memx_heap_small_block_locked(offset) ==
    LET s == SpanAt(offset)
        from_base == offset - BlockHeader - SpanBase(s)
        stride == BlockStride(spans[s])
    IN  IF \/ offset >= heap_config.reserve_size
           \/ s = 0
           \/ offset < SpanBase(s) + BlockHeader
           \/ from_base % stride # 0
           \/ from_base \div stride >= BlockCount(spans[s])
        THEN NotABlock
        ELSE <<s, from_base \div stride>>

-----------------------------------------------------------------------------
(* Requests.                                                               *)

AtLeastOne(n) == IF n = 0 THEN 1 ELSE n

Request(count, size, align) ==
    [count |-> count, size |-> size, align |-> align, to |-> "null", class |-> 0]
Small(request, c) == [request EXCEPT !.to = "small", !.class = c]
Large(request) == [request EXCEPT !.to = "large"]

(* The part shared by malloc and aligned_alloc; bytes is the size they     *)
(* were passed.                                                            *)
Route(request, bytes) ==
    LET c == memx_heap_class_for_size(AtLeastOne(bytes))
    IN  IF request.align <= MaxAlign /\ c < ClassCount
        THEN Small(request, c)
        ELSE Large(request)

memx_heap_malloc(size) == Route(Request(1, size, MaxAlign), size)

memx_heap_aligned_alloc(alignment, size) ==
    LET request == Request(1, size, alignment)
    IN  IF alignment < PointerSize \/ ~memx_heap_power_of_two(alignment)
        THEN request
        ELSE Route(request, size)

memx_heap_calloc(count, size) ==
    LET request == Request(count, size, MaxAlign)
    IN  IF count # 0 /\ size > SizeMax \div count
        THEN request
        ELSE Route(request, (count * size) % (SizeMax + 1))

Serve(result) ==
    /\ call' = result
    /\ UNCHANGED <<vars, heap_config, refused, spans, resize>>

Malloc(size) == Serve(memx_heap_malloc(size))
AlignedAlloc(alignment, size) == Serve(memx_heap_aligned_alloc(alignment, size))
Calloc(count, size) == Serve(memx_heap_calloc(count, size))

Returned ==
    /\ call # NoCallYet
    /\ call' = NoCallYet
    /\ UNCHANGED <<vars, heap_config, refused, spans, resize>>

-----------------------------------------------------------------------------
(* Resizing one block, with activity statistics on.  memx_heap_realloc and *)
(* memx_heap_realloc_unchecked differ in how they find the block and in    *)
(* the length of the copy.  A replacement that cannot be allocated ends    *)
(* either of them before anything has changed.                             *)

Smaller(m, n) == IF m < n THEN m ELSE n

Allocated(size) ==
    [to |-> memx_heap_malloc(size).to, class |-> memx_heap_malloc(size).class,
     requested_size |-> AtLeastOne(size)]

memx_heap_usable_size(b) ==
    CASE b.to = "small" -> ClassSize(b.class)
      [] b.to = "large" -> b.requested_size
      [] OTHER          -> 0

memx_heap_requested_size(b) == b.requested_size

(* Mutant: only growth is accounted.                                       *)
AccountGrowth(old, new) ==
    IF new > old THEN live_requested_bytes + (new - old) ELSE live_requested_bytes

(* The live counter after memx_heap_account_resize, and after the same     *)
(* lines of memx_heap_resize_in_place.                                     *)
memx_heap_account_resize(old, new) ==
    IF new > old
    THEN (live_requested_bytes + (new - old)) % (SizeMax + 1)
    ELSE (live_requested_bytes - (old - new)) % (SizeMax + 1)

ReallocNull(size) ==
    /\ block = NoBlock
    /\ block' = Allocated(size)
    /\ live_requested_bytes' = live_requested_bytes + block'.requested_size
    /\ last' = [old |-> 0, kept |-> 0]

ReallocZero ==
    /\ block # NoBlock
    /\ block' = NoBlock
    /\ live_requested_bytes' = live_requested_bytes - block.requested_size
    /\ last' = [old |-> 0, kept |-> 0]

memx_heap_resize_in_place(size) ==
    /\ block # NoBlock
    /\ size <= memx_heap_usable_size(block)
    /\ block' = [block EXCEPT !.requested_size = size]
    /\ live_requested_bytes' = memx_heap_account_resize(block.requested_size, size)
    /\ last' = [old |-> block.requested_size, kept |-> Smaller(block.requested_size, size)]

(* The length passed to memcpy; only blocks of the arena take the          *)
(* unchecked path.                                                         *)
CopyLength(old, size, unchecked) ==
    IF unchecked THEN old ELSE Smaller(old, size)

ReallocMoves(size, unchecked) ==
    LET old == memx_heap_requested_size(block)
    IN  /\ block # NoBlock
        /\ unchecked => block.to = "small"
        /\ size > memx_heap_usable_size(block)
        /\ block' = Allocated(size)
        /\ live_requested_bytes' = live_requested_bytes + size - old
        /\ last' = [old |-> old, kept |-> CopyLength(old, size, unchecked)]

Resizes ==
    /\ Live
    /\ call = NoCallYet
    /\ \/ \E size \in ReallocSizes : ReallocNull(size)
       \/ \E size \in ReallocSizes : memx_heap_resize_in_place(size)
       \/ \E size \in ReallocSizes, unchecked \in BOOLEAN : ReallocMoves(size, unchecked)
       \/ ReallocZero
    /\ UNCHANGED <<vars, heap_config, refused, spans, call>>

(* A request does not depend on the one before: the model looks at one at  *)
(* a time.                                                                 *)
Requests ==
    /\ Live
    /\ call = NoCallYet /\ block = NoBlock
    /\ \/ \E size \in RequestSizes : Malloc(size)
       \/ \E alignment \in Alignments, size \in Counts : AlignedAlloc(alignment, size)
       \/ \E count \in Counts, size \in Counts : Calloc(count, size)

ClassesNext ==
    \/ \E c \in HeapConfigs, base \in ArenaBases : Create(c, base)
    \/ \E c \in HeapConfigs : CreateRefused(c)
    \/ CreateIndex
    \/ CreateFails
    \/ \E c \in SpanClassChoice : ClaimSpan(c)
    \/ Requests
    \/ Resizes
    \/ Returned

ClassesSpec == ClassesInit /\ [][ClassesNext]_ClassesVars

-----------------------------------------------------------------------------
(* Properties.                                                             *)

Fitting(bytes) == {c \in Classes : ClassSize(c) >= bytes}

(* A request is served by the smallest class that holds it, by a mapping   *)
(* exactly when no class holds it or the alignment is beyond what blocks   *)
(* have, and refused exactly when the alignment is not one or the product  *)
(* of calloc is not a size: the leading-zero arithmetic of                 *)
(* memx_heap_class_for_size agrees with the class table at every size.     *)
RequestServed ==
    LET bytes == AtLeastOne(call.count * call.size)
        aligned == call.align \in {Pow2[k] : k \in 3..(WordBits - 1)}
    IN  /\ call.to = "small" =>
              /\ call.class \in Fitting(bytes)
              /\ \A c \in Fitting(bytes) : call.class <= c
              /\ call.align <= MaxAlign
        /\ call.to = "large" => Fitting(bytes) = {} \/ call.align > MaxAlign
        /\ call.to = "null" <=> call # NoCallYet /\ (bytes > SizeMax \/ ~aligned)

(* A pointer is taken for a block by the checked paths exactly when it is  *)
(* the payload of a block carved from a claimed span, and then it is that  *)
(* block; the side table that the unchecked paths read names the class of  *)
(* the block; payloads are maximally aligned, as large as their class and  *)
(* end before the next header and before the span does.                    *)
BlocksFound ==
    call = NoCallYet /\ block = NoBlock =>
        LET InSpan(s) == 0..(BlockCount(spans[s]) - 1)
        IN  /\ \A s \in DOMAIN spans : \A i \in InSpan(s) :
                   LET payload == PayloadAt(s, i)
                       end == payload + ClassSize(spans[s])
                   IN  /\ memx_heap_small_block_locked(payload) = <<s, i>>
                       /\ memx_heap_class_for_arena_offset(payload) = spans[s]
                       /\ payload % MaxAlign = 0
                       /\ end <= s * SpanSize
                       /\ i + 1 \in InSpan(s) => end <= BlockAt(s, i + 1)
            /\ Live =>
                   Cardinality({offset \in 0..(heap_config.reserve_size - 1) :
                                  memx_heap_small_block_locked(offset) # NotABlock})
                     = Cardinality(UNION {{s} \X InSpan(s) : s \in DOMAIN spans})

(* Every configuration memx_heap_create accepts can serve every class: a   *)
(* span holds at least one block of it, the arena at least one span, and   *)
(* memx_index_create refuses the arena for lack of memory only and makes   *)
(* one region per span.                                                    *)
AcceptedHeapServes ==
    /\ pc = "returned" => status \in {"OK", "OUT_OF_MEMORY"}
    /\ Live =>
        /\ \A c \in Classes : BlockCount(c) > 0 /\ SpanSize > SpanHeader
        /\ SpanCapacity > 0
        /\ SpanCapacity * SpanSize = heap_config.reserve_size
        /\ index.region_count = SpanCapacity

(* Through any sequence of reallocs, between classes and mappings and in   *)
(* place, a block is at least as large as it was asked to be, keeps the    *)
(* bytes that both sizes have, no copy runs past either block, and the     *)
(* live counter is the size of what is live.                               *)
ReallocExact ==
    /\ live_requested_bytes = block.requested_size
    /\ memx_heap_usable_size(block) >= block.requested_size
    /\ last.kept = Smaller(last.old, block.requested_size)
=============================================================================
