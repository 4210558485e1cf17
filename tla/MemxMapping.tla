----------------------------- MODULE MemxMapping -----------------------------
(***************************************************************************)
(* Mappings obtained from the operating system: the overlay of a frozen     *)
(* index (src/memx/src/memx.c), the arena of a heap and its large           *)
(* allocations (src/memx/src/allocator/os_linux.c, heap.c), and the probe   *)
(* of the huge-page size, the only part of them that threads share.         *)
(*                                                                          *)
(* Addresses and sizes are words, computed modulo 2^WordBits.  The system   *)
(* places a mapping at any free page-aligned address other than NULL, works *)
(* in whole pages, and may refuse.                                          *)
(***************************************************************************)
EXTENDS Integers, FiniteSets, MemxPowers

CONSTANTS
    Threads,
    WordBits,
    PageSize,      \* a power of two
    SpanSize,      \* 1 << config.span_shift, a power of two, PageSize or more
    Sizes,         \* sizes that callers request
    Alignments,    \* alignments of large requests, powers of two
    FileValues,    \* what hpage_pmd_size may hold; 0 when it cannot be read
    Unknown        \* SIZE_MAX, not probed yet

WordMax == Pow2[WordBits] - 1
Words == 0 .. WordMax
Wrapped(n) == n % (WordMax + 1)
PowersOfTwo == {Pow2[i] : i \in 0 .. WordBits - 1}

ASSUME MappingAssumption ==
    /\ WordBits \in Nat \ {0}
    /\ PageSize \in PowersOfTwo
    /\ SpanSize \in PowersOfTwo /\ SpanSize >= PageSize
    /\ Sizes \subseteq 1 .. WordMax
    /\ Alignments \subseteq PowersOfTwo
    /\ FileValues \subseteq Nat
    /\ Unknown \notin Nat

Bytes(base, size) == base .. base + size - 1

\* (n + unit - 1) & ~(unit - 1)
AlignUp(n, unit) ==
    LET sum == Wrapped(n + unit - 1) IN sum - (sum % unit)

VARIABLES
    cached_size,   \* the static atomic of the probe
    pc,            \* per thread: "cold", "probed", "published", "known"
    value,         \* per thread: what it read, then what the probe returned
    range,         \* the mapping under construction or in use
    mapped,        \* bytes mapped
    writable       \* those readable and writable

probe == <<cached_size, pc, value>>
vars == <<probe, range, mapped, writable>>

NoRange == [kind |-> "none"]

Init ==
    /\ cached_size = Unknown
    /\ pc = [t \in Threads |-> "cold"]
    /\ value = [t \in Threads |-> 0]
    /\ range = NoRange
    /\ mapped = {}
    /\ writable = {}

-----------------------------------------------------------------------------
(***************************************************************************)
(* memx_os_huge_page_size and memx_host_huge_page_size.                     *)
(***************************************************************************)
Usable(v) == IF v \in PowersOfTwo /\ v > PageSize THEN v ELSE 0

\* The first load; without a cached value the file is read.
ProbeRead(t, v) ==
    /\ pc[t] = "cold"
    /\ IF cached_size = Unknown
       THEN /\ pc' = [pc EXCEPT ![t] = "probed"]
            /\ value' = [value EXCEPT ![t] = Usable(v)]
       ELSE /\ pc' = [pc EXCEPT ![t] = "known"]
            /\ value' = [value EXCEPT ![t] = cached_size]
    /\ UNCHANGED <<cached_size, range, mapped, writable>>

\* Mutant: a plain store lets the last probe win.
ProbeStore(t) ==
    /\ pc[t] = "probed"
    /\ cached_size' = value[t]
    /\ pc' = [pc EXCEPT ![t] = "published"]
    /\ UNCHANGED <<value, range, mapped, writable>>

\* The first completed probe is published; later ones are dropped.
ProbePublish(t) ==
    /\ pc[t] = "probed"
    /\ cached_size' = IF cached_size = Unknown THEN value[t] ELSE cached_size
    /\ pc' = [pc EXCEPT ![t] = "published"]
    /\ UNCHANGED <<value, range, mapped, writable>>

ProbeReturn(t) ==
    /\ pc[t] = "published"
    /\ value' = [value EXCEPT ![t] = cached_size]
    /\ pc' = [pc EXCEPT ![t] = "known"]
    /\ UNCHANGED <<cached_size, range, mapped, writable>>

-----------------------------------------------------------------------------
(***************************************************************************)
(* The system calls.                                                        *)
(***************************************************************************)
Pages(size) == size + ((-size) % PageSize)

\* Addresses mmap may choose for size bytes.
mmap(size) ==
    {base \in Words : /\ base # 0 /\ base % PageSize = 0
                      /\ base + Pages(size) <= WordMax + 1}

\* munmap refuses an address that is not page-aligned.
munmap(bytes, base, size) ==
    IF base % PageSize = 0 THEN bytes \ Bytes(base, Pages(size)) ELSE bytes

-----------------------------------------------------------------------------
(***************************************************************************)
(* memx_overlay_allocate.                                                   *)
(***************************************************************************)
OverlayGranularity(bytes, huge) ==
    IF huge > PageSize /\ bytes >= huge THEN huge ELSE PageSize

\* Neither the rounded size nor the reservation overflows.
OverlayRepresentable(bytes, granularity) ==
    /\ bytes <= WordMax - (granularity - 1)
    /\ granularity <= WordMax \div 2
    /\ AlignUp(bytes, granularity) <= WordMax - granularity * 2

\* Mutant: the payload of an aligned mapping starts with it.
PayloadAtMapping(mapping, granularity) == AlignUp(mapping, granularity)

\* The payload starts past the mapping, never with it.
OverlayPayload(mapping, granularity) == AlignUp(mapping + 1, granularity)

OverlayMap(t, bytes, huge) ==
    LET granularity == OverlayGranularity(bytes, IF huge THEN value[t] ELSE 0)
        rounded == AlignUp(bytes, granularity)
        reserved == Wrapped(rounded + granularity * 2)
    IN  /\ range = NoRange
        /\ huge => pc[t] = "known"
        /\ OverlayRepresentable(bytes, granularity)
        /\ \E mapping \in mmap(reserved) :
            /\ range' = [kind |-> "overlay_mapped",
                         mapping |-> mapping,
                         reserved |-> reserved,
                         base |-> OverlayPayload(mapping, granularity),
                         size |-> bytes,
                         rounded |-> rounded,
                         alignment |-> granularity]
            /\ mapped' = Bytes(mapping, Pages(reserved))
        /\ UNCHANGED <<probe, writable>>

\* Mutant: a failed mprotect leaves the reservation.
ProtectFailureLeaks ==
    /\ range.kind = "overlay_mapped"
    /\ range' = NoRange
    /\ UNCHANGED <<probe, mapped, writable>>

\* mprotect fails: the reservation is unmapped.
OverlayProtectFails ==
    /\ range.kind = "overlay_mapped"
    /\ range' = NoRange
    /\ mapped' = munmap(mapped, range.mapping, range.reserved)
    /\ UNCHANGED <<probe, writable>>

OverlayProtect ==
    /\ range.kind = "overlay_mapped"
    /\ range' = [range EXCEPT !.kind = "overlay"]
    /\ writable' = Bytes(range.base, range.rounded)
    /\ UNCHANGED <<probe, mapped>>

-----------------------------------------------------------------------------
(***************************************************************************)
(* The arena: memx_os_reserve_aligned for memx_heap_create, which then      *)
(* commits it from the bottom.                                              *)
(***************************************************************************)
CommitGranularity(size, huge) ==
    IF huge > SpanSize /\ size % huge = 0 THEN huge ELSE SpanSize

ReserveArena(t, size) ==
    LET alignment == CommitGranularity(size, value[t])
        request == Wrapped(size + alignment)
    IN  /\ range = NoRange
        /\ pc[t] = "known"
        /\ size % SpanSize = 0
        /\ size <= WordMax - alignment
        /\ \E mapping \in mmap(request) :
            LET aligned == AlignUp(mapping, alignment)
                prefix == aligned - mapping
                suffix == request - prefix - size
                all == Bytes(mapping, Pages(request))
                trimmed == IF prefix # 0 THEN munmap(all, mapping, prefix) ELSE all
            IN  /\ range' = [kind |-> "arena",
                             mapping |-> aligned,
                             reserved |-> size,
                             base |-> aligned,
                             size |-> size,
                             rounded |-> 0,       \* committed_bytes
                             alignment |-> alignment]
                /\ mapped' = IF suffix # 0
                             THEN munmap(trimmed, aligned + size, suffix)
                             ELSE trimmed
        /\ UNCHANGED <<probe, writable>>

\* The target of memx_heap_commit_through_locked.
CommitTarget(required) ==
    LET target == AlignUp(required, range.alignment)
    IN  IF target = 0 \/ target > range.size THEN range.size ELSE target

\* memx_heap_commit_through_locked for the next span the heap claims.
CommitThrough(required) ==
    /\ range.kind = "arena"
    /\ required % SpanSize = 0
    /\ required \in range.rounded + 1 .. range.size
    /\ range' = [range EXCEPT !.rounded = CommitTarget(required)]
    /\ writable' = writable \cup
            Bytes(range.base + range.rounded, CommitTarget(required) - range.rounded)
    /\ UNCHANGED <<probe, mapped>>

-----------------------------------------------------------------------------
\* memx_os_large_allocate; the whole mapping is kept and released.
LargeAllocate(size, alignment) ==
    LET effective == IF alignment < PageSize THEN PageSize ELSE alignment
        request == Wrapped(size + effective)
    IN  /\ range = NoRange
        /\ size <= WordMax - effective
        /\ \E mapping \in mmap(request) :
            /\ range' = [kind |-> "large",
                         mapping |-> mapping,
                         reserved |-> request,
                         base |-> AlignUp(mapping, effective),
                         size |-> size,
                         rounded |-> 0,
                         alignment |-> alignment]
            /\ mapped' = Bytes(mapping, Pages(request))
            /\ writable' = Bytes(mapping, Pages(request))
        /\ UNCHANGED probe

\* memx_overlay_deallocate and memx_os_release.
Release ==
    /\ range.kind \in {"overlay", "arena", "large"}
    /\ range' = NoRange
    /\ mapped' = munmap(mapped, range.mapping, range.reserved)
    /\ writable' = munmap(writable, range.mapping, range.reserved)
    /\ UNCHANGED probe

Next ==
    \/ \E t \in Threads, v \in FileValues : ProbeRead(t, v)
    \/ \E t \in Threads : ProbePublish(t) \/ ProbeReturn(t)
    \/ \E t \in Threads, bytes \in Sizes, huge \in BOOLEAN :
            OverlayMap(t, bytes, huge)
    \/ OverlayProtect
    \/ OverlayProtectFails
    \/ \E t \in Threads, size \in Sizes : ReserveArena(t, size)
    \/ \E required \in Words : CommitThrough(required)
    \/ \E size \in Sizes, alignment \in Alignments : LargeAllocate(size, alignment)
    \/ Release

Spec == Init /\ [][Next]_vars

-----------------------------------------------------------------------------
(***************************************************************************)
(* Properties.                                                              *)
(***************************************************************************)

\* Wherever the system puts a mapping, also at the top of the address space,
\* what the caller is given is aligned and inside it; a payload is writable,
\* the overlay has an inaccessible page of the reservation on either side, and
\* the committed part of an arena is a prefix in whole commit granules, so that
\* no huge page is committed in parts.
PlacementSound ==
    range # NoRange =>
        /\ range.base % range.alignment = 0
        /\ Bytes(range.base, range.size) \subseteq mapped
        /\ writable \subseteq mapped
        /\ range.kind \in {"overlay", "large"} =>
                Bytes(range.base, range.size) \subseteq writable
        /\ range.kind = "overlay" =>
                LET guards == Bytes(range.base - PageSize, PageSize)
                            \cup Bytes(range.base + range.rounded, PageSize)
                IN  guards \subseteq mapped \ writable
        /\ range.kind = "arena" =>
                /\ writable = Bytes(range.base, range.rounded)
                /\ range.rounded % range.alignment = 0

\* Nothing stays mapped that the caller could not release: trimming the arena
\* leaves exactly the arena, and failures and releases leave nothing.
NothingLeftMapped ==
    mapped = IF range = NoRange THEN {}
             ELSE Bytes(range.mapping, Pages(range.reserved))

\* Threads that probe concurrently, and may read different values, all use the
\* same huge-page size.
ProbesAgree ==
    \A t, u \in Threads :
        (pc[t] = "known" /\ pc[u] = "known") => value[t] = value[u]
=============================================================================
