------------------------------- MODULE MemxShim -------------------------------
(***************************************************************************)
(* The malloc interposer (src/memx/bench/memx_malloc_shim.c): malloc, free, *)
(* realloc, calloc, the aligned allocations and malloc_usable_size of a     *)
(* whole process, served by a MEMX heap that itself calls malloc and free.  *)
(*                                                                          *)
(* The heap is created by the first call, under pthread_once.  A call the   *)
(* heap makes while it serves a call, and every call while there is no      *)
(* heap, is served from a bump arena whose blocks are never reused; a       *)
(* pointer is recognised as the arena's by its address.                     *)
(*                                                                          *)
(* Each thread has a stack of the calls it is in, the innermost first.  The *)
(* heap is what MemxHeap and MemxLarge show it to be: it hands out blocks   *)
(* nobody holds, and makes at most NestedMax allocations in one call.       *)
(***************************************************************************)
EXTENDS Integers, Sequences, FiniteSets

CONSTANTS
    Threads,
    Null,
    SizeMax,       \* SIZE_MAX, which is also UINTPTR_MAX
    ArenaBase,     \* where mmap puts the bootstrap arena
    ArenaBytes,    \* BOOTSTRAP_BYTES
    ArenaAlign,    \* BOOTSTRAP_ALIGNMENT
    WordBytes,     \* sizeof(void *) and sizeof(bootstrap_header_t)
    HeapPointers,  \* where the heap has blocks
    Sizes,         \* sizes and counts that callers pass
    Alignments,    \* alignments that callers pass
    NestedMax,     \* allocations the heap makes in one call
    NestedSize     \* and the size of each

\* The numbers of a word with one bit set: those without an odd divisor.
PowersOfTwo == {x \in 1 .. SizeMax : \A d \in 2 .. x : x % d = 0 => d % 2 = 0}

ASSUME ShimAssumption ==
    /\ SizeMax \in Nat /\ ArenaBytes \in Nat
    /\ NestedMax \in Nat /\ NestedSize \in 0 .. SizeMax
    /\ ArenaAlign \in PowersOfTwo /\ WordBytes \in PowersOfTwo
    /\ WordBytes <= ArenaAlign
    /\ ArenaBase \in 1 .. SizeMax /\ ArenaBase + ArenaBytes <= SizeMax
    /\ Null \notin Int
    /\ Sizes \subseteq 0 .. SizeMax /\ Alignments \subseteq 0 .. SizeMax
    /\ HeapPointers \subseteq (1 .. SizeMax)
                        \ (ArenaBase .. (ArenaBase + ArenaBytes - 1))

VARIABLES
    bootstrap_base,   \* Null until mmap has succeeded
    bootstrap_used,
    blocks,           \* what the arena has handed out
    shim_heap,        \* the heap has been published
    once,             \* shim_once: "new", "running" or "done"
    shim_busy,        \* thread-local
    stack,            \* per thread, the calls it is in
    heap_live,        \* blocks of the heap that are allocated
    internal,         \* pointers the heap keeps for itself
    program           \* pointers the program holds and has not passed to a call

arena == <<bootstrap_base, bootstrap_used, blocks>>
owners == <<heap_live, internal, program>>
vars == <<arena, shim_heap, once, shim_busy, stack, owners>>

Init ==
    /\ bootstrap_base = Null
    /\ bootstrap_used = 0
    /\ blocks = {}
    /\ shim_heap = FALSE
    /\ once = "new"
    /\ shim_busy = [t \in Threads |-> FALSE]
    /\ stack = [t \in Threads |-> <<>>]
    /\ heap_live = {}
    /\ internal = {}
    /\ program = {}

-----------------------------------------------------------------------------
(***************************************************************************)
(* The bootstrap arena.                                                     *)
(***************************************************************************)
Wrap(x) == x % (SizeMax + 1)
AlignDown(x, a) == x - (x % a)

\* Mutant: one byte past the arena is still taken for the arena's.
FromBootstrapOrEnd(p) ==
    bootstrap_base # Null /\ p >= bootstrap_base /\ p - bootstrap_base <= ArenaBytes

from_bootstrap(p) ==
    bootstrap_base # Null /\ p >= bootstrap_base /\ p - bootstrap_base < ArenaBytes

PayloadSize(size) ==
    LET rounded == AlignDown(Wrap(size + ArenaAlign - 1), ArenaAlign)
    IN  IF rounded = 0 THEN ArenaAlign ELSE rounded

\* Offset of the payload when current bytes are in use: behind the header.
Start(current, align) ==
    AlignDown(Wrap(bootstrap_base + current + WordBytes + align - 1), align)
        - bootstrap_base

\* The refusals of bootstrap_alloc in one pass of its loop.
Refused(current, size, align) ==
    LET start == Start(current, align)
    IN  \/ bootstrap_base = Null
        \/ align \notin PowersOfTwo \/ align < WordBytes
        \/ size > SizeMax - (ArenaAlign - 1)
        \/ current > ArenaBytes
        \/ bootstrap_base + current + WordBytes > SizeMax - (align - 1)
        \/ start > ArenaBytes \/ start < current
        \/ PayloadSize(size) > ArenaBytes - start
        \/ start - current + PayloadSize(size) > ArenaBytes - current

Block(current, size, align) ==
    [start |-> bootstrap_base + Start(current, align),
     payload |-> PayloadSize(size),
     align |-> align,
     requested |-> size]

-----------------------------------------------------------------------------
(***************************************************************************)
(* Calls and returns.                                                       *)
(***************************************************************************)
Frame(fn, size, align, ptr) ==
    [fn |-> fn, at |-> "enter", size |-> size, align |-> align, ptr |-> ptr,
     current |-> 0, nested |-> 0]

At(t, label) == stack[t] # <<>> /\ Head(stack[t]).at = label
Top(t) == Head(stack[t])

Goto(t, label) == stack' = [stack EXCEPT ![t][1].at = label]
Push(t, frame) == stack' = [stack EXCEPT ![t] = <<frame>> \o @]

\* The heap is executing, for the call below it, and may call the allocator.
InHeap(t) == At(t, "heap") \/ At(t, "create")

\* The innermost call of t returns r.  It goes to the program, to the heap, or
\* to realloc, which then returns it too; given is what the program may use
\* again, beside r.
Return(t, r, given) ==
    LET below == Tail(stack[t])
        got == {r} \ {Null}
    IN  IF below = <<>>
        THEN /\ stack' = [stack EXCEPT ![t] = below]
             /\ program' = program \cup got \cup given
             /\ UNCHANGED internal
        ELSE IF Head(below).fn = "realloc" /\ Head(below).at = "moving"
        THEN /\ stack' = [stack EXCEPT ![t] = Tail(below)]
             /\ program' = program \cup (IF r = Null THEN {Head(below).ptr} ELSE got)
             /\ UNCHANGED internal
        ELSE /\ stack' = [stack EXCEPT ![t] = below]
             /\ internal' = internal \cup got
             /\ UNCHANGED program

\* malloc, and what calloc and the aligned functions do with their arguments:
\* the request that is left, or the refusal before anything has happened.
malloc(size) == Frame("alloc", size, ArenaAlign, Null)

calloc(count, size) ==
    IF count # 0 /\ size > SizeMax \div count
    THEN Null
    ELSE Frame("alloc", count * size, ArenaAlign, Null)

shim_aligned_allocate(alignment, size, exact) ==
    IF alignment \notin PowersOfTwo \/ (exact /\ size % alignment # 0)
    THEN Null
    ELSE Frame("alloc", size,
               IF alignment < WordBytes THEN WordBytes ELSE alignment, Null)

posix_memalign(alignment, size) ==
    IF alignment < WordBytes \/ alignment \notin PowersOfTwo
    THEN Null
    ELSE shim_aligned_allocate(alignment, size, FALSE)

AllocationCalls ==
    {malloc(size) : size \in Sizes}
    \cup {calloc(count, size) : count \in Sizes, size \in Sizes}
    \cup {shim_aligned_allocate(a, size, exact) :
            a \in Alignments, size \in Sizes, exact \in BOOLEAN}
    \cup {posix_memalign(a, size) : a \in Alignments, size \in Sizes}

\* The program allocates.
CallAllocate(t) ==
    /\ stack[t] = <<>>
    /\ \E frame \in AllocationCalls \ {Null} : Push(t, frame)
    /\ UNCHANGED <<arena, shim_heap, once, shim_busy, owners>>

\* The program passes a pointer it holds, and gives it up for the call.
CallWith(t, p, size) ==
    /\ stack[t] = <<>>
    /\ p \in program
    /\ \E fn \in {"free", "realloc", "malloc_usable_size"} :
            Push(t, Frame(fn, IF fn = "realloc" THEN size ELSE 0, ArenaAlign, p))
    /\ program' = program \ {p}
    /\ UNCHANGED <<arena, shim_heap, once, shim_busy, heap_live, internal>>

\* The heap allocates with calloc, or frees a pointer of its own.
NestedAllocate(t) ==
    /\ InHeap(t)
    /\ Top(t).nested < NestedMax
    /\ stack' = [stack EXCEPT ![t] =
           <<calloc(1, NestedSize), [Top(t) EXCEPT !.nested = @ + 1]>> \o Tail(@)]
    /\ UNCHANGED <<arena, shim_heap, once, shim_busy, owners>>

NestedFree(t, p) ==
    /\ InHeap(t)
    /\ p \in internal
    /\ Push(t, Frame("free", 0, ArenaAlign, p))
    /\ internal' = internal \ {p}
    /\ UNCHANGED <<arena, shim_heap, once, shim_busy, heap_live, program>>

-----------------------------------------------------------------------------
(***************************************************************************)
(* Routing.                                                                 *)
(***************************************************************************)

\* A call is passed on to the heap; of its arguments only those the shim looks
\* at again are kept.
PassToHeap(t) ==
    /\ shim_busy' = [shim_busy EXCEPT ![t] = TRUE]
    /\ stack' = [stack EXCEPT ![t][1] =
           [Frame(@.fn, IF @.fn = "realloc" THEN @.size ELSE 0, ArenaAlign, @.ptr)
               EXCEPT !.at = "heap"]]

\* The first test of shim_ready.
Ready(t) ==
    IF shim_heap THEN PassToHeap(t) ELSE Goto(t, "once") /\ UNCHANGED shim_busy

\* Mutant: the test of shim_busy is missing.
EnterNotBusy(t) ==
    /\ At(t, "enter") /\ Top(t).fn = "alloc"
    /\ Ready(t)
    /\ UNCHANGED <<arena, shim_heap, once, owners>>

EnterAllocate(t) ==
    /\ At(t, "enter") /\ Top(t).fn = "alloc"
    /\ IF shim_busy[t]
       THEN Goto(t, "arena") /\ UNCHANGED shim_busy
       ELSE Ready(t)
    /\ UNCHANGED <<arena, shim_heap, once, owners>>

\* realloc does not look at shim_busy.  A pointer of the arena is replaced by
\* a malloc and a copy, and its block is abandoned.
EnterRealloc(t) ==
    /\ At(t, "enter") /\ Top(t).fn = "realloc"
    /\ IF from_bootstrap(Top(t).ptr)
       THEN /\ stack' = [stack EXCEPT ![t] =
                   <<malloc(Top(t).size), [Top(t) EXCEPT !.at = "moving"]>> \o Tail(@)]
            /\ UNCHANGED shim_busy
       ELSE Ready(t)
    /\ UNCHANGED <<arena, shim_heap, once, owners>>

\* free, and malloc_usable_size in the same way: nothing happens to a pointer
\* of the arena, nor while there is no heap.
EnterFree(t) ==
    LET f == Top(t)
        kept == IF f.fn = "free" THEN {} ELSE {f.ptr}
    IN  /\ At(t, "enter") /\ f.fn \in {"free", "malloc_usable_size"}
        /\ IF from_bootstrap(f.ptr) \/ ~shim_heap
           THEN Return(t, Null, kept) /\ UNCHANGED shim_busy
           ELSE PassToHeap(t) /\ UNCHANGED <<internal, program>>
        /\ UNCHANGED <<arena, shim_heap, once, heap_live>>

\* pthread_once: the first caller runs shim_init, the others wait for it.
Once(t) ==
    /\ At(t, "once")
    /\ once # "running"
    /\ once' = IF once = "new" THEN "running" ELSE once
    /\ Goto(t, IF once = "new" THEN "init" ELSE "ready")
    /\ UNCHANGED <<arena, shim_heap, shim_busy, owners>>

\* shim_init: the arena is mapped or not, then the heap is created.
InitMap(t) ==
    /\ At(t, "init")
    /\ bootstrap_base' \in {ArenaBase, Null}
    /\ shim_busy' = [shim_busy EXCEPT ![t] = TRUE]
    /\ Goto(t, "create")
    /\ UNCHANGED <<bootstrap_used, blocks, shim_heap, once, owners>>

\* memx_heap_create succeeds with an object of its own, or fails and has given
\* everything back; the result is published.
CreateReturns(t) ==
    /\ At(t, "create")
    /\ shim_heap' = (internal # {})
    /\ Goto(t, "published")
    /\ UNCHANGED <<arena, once, shim_busy, owners>>

InitDone(t) ==
    /\ At(t, "published")
    /\ shim_busy' = [shim_busy EXCEPT ![t] = FALSE]
    /\ once' = "done"
    /\ Goto(t, "ready")
    /\ UNCHANGED <<arena, shim_heap, owners>>

\* The result of shim_ready decides.
EnterHeap(t) ==
    /\ At(t, "ready")
    /\ CASE shim_heap -> PassToHeap(t) /\ UNCHANGED <<internal, program>>
         [] ~shim_heap /\ Top(t).fn = "alloc" ->
                Goto(t, "arena") /\ UNCHANGED <<internal, program, shim_busy>>
         [] OTHER -> Return(t, Null, {Top(t).ptr}) /\ UNCHANGED shim_busy
    /\ UNCHANGED <<arena, shim_heap, once, heap_live>>

-----------------------------------------------------------------------------
(***************************************************************************)
(* bootstrap_alloc.                                                         *)
(***************************************************************************)
ArenaLoad(t) ==
    LET f == Top(t)
    IN  /\ At(t, "arena")
        /\ IF Refused(bootstrap_used, f.size, f.align)
           THEN Return(t, Null, {})
           ELSE /\ stack' = [stack EXCEPT ![t][1] =
                       [@ EXCEPT !.at = "cas", !.current = bootstrap_used]]
                /\ UNCHANGED <<internal, program>>
        /\ UNCHANGED <<arena, shim_heap, once, shim_busy, heap_live>>

Handed(t) ==
    LET f == Top(t)
        b == Block(f.current, f.size, f.align)
    IN  /\ bootstrap_used' = Start(f.current, f.align) + b.payload
        /\ blocks' = blocks \cup {b}
        /\ Return(t, b.start, {})

\* Mutant: the bump is a plain store.
ArenaStore(t) ==
    /\ At(t, "cas")
    /\ Handed(t)
    /\ UNCHANGED <<bootstrap_base, shim_heap, once, shim_busy, heap_live>>

\* Mutant: after a failed exchange the loop does not load the counter again.
ArenaCasStale(t) ==
    /\ At(t, "cas")
    /\ IF bootstrap_used = Top(t).current
       THEN Handed(t)
       ELSE UNCHANGED <<bootstrap_used, blocks, stack, internal, program>>
    /\ UNCHANGED <<bootstrap_base, shim_heap, once, shim_busy, heap_live>>

\* The exchange.  The weak one may also fail without reason, and the loop then
\* finds the counter as it was.
ArenaCas(t) ==
    /\ At(t, "cas")
    /\ IF bootstrap_used = Top(t).current
       THEN Handed(t)
       ELSE /\ Goto(t, "arena")
            /\ UNCHANGED <<bootstrap_used, blocks, internal, program>>
    /\ UNCHANGED <<bootstrap_base, shim_heap, once, shim_busy, heap_live>>

-----------------------------------------------------------------------------
(***************************************************************************)
(* The heap returns, and the shim clears shim_busy.                         *)
(***************************************************************************)
HeapReturns(t, r, freed, given) ==
    /\ heap_live' = (heap_live \ freed) \cup ({r} \ {Null})
    /\ shim_busy' = [shim_busy EXCEPT ![t] = FALSE]
    /\ Return(t, r, given)
    /\ UNCHANGED <<arena, shim_heap, once>>

HeapAllocates(t, r) ==
    /\ At(t, "heap") /\ Top(t).fn = "alloc"
    /\ r \in (HeapPointers \ heap_live) \cup {Null}
    /\ HeapReturns(t, r, {}, {})

HeapFrees(t) ==
    /\ At(t, "heap") /\ Top(t).fn = "free"
    /\ HeapReturns(t, Null, {Top(t).ptr}, {})

HeapAnswersSize(t) ==
    /\ At(t, "heap") /\ Top(t).fn = "malloc_usable_size"
    /\ HeapReturns(t, Null, {}, {Top(t).ptr})

\* memx_heap_realloc_unchecked: in place, moved, freed (size 0) or failed.
HeapReallocs(t, r) ==
    LET p == Top(t).ptr
    IN  /\ At(t, "heap") /\ Top(t).fn = "realloc"
        /\ IF Top(t).size = 0
           THEN r = Null /\ HeapReturns(t, Null, {p}, {})
           ELSE /\ r \in (HeapPointers \ heap_live) \cup {p, Null}
                /\ IF r = Null THEN HeapReturns(t, Null, {}, {p})
                               ELSE HeapReturns(t, r, {p}, {})

-----------------------------------------------------------------------------
Call(t) ==
    \/ CallAllocate(t)
    \/ \E p \in program, size \in Sizes : CallWith(t, p, size)

Step(t) ==
    \/ NestedAllocate(t)
    \/ \E p \in internal : NestedFree(t, p)
    \/ EnterAllocate(t) \/ EnterRealloc(t) \/ EnterFree(t)
    \/ Once(t) \/ InitMap(t) \/ CreateReturns(t) \/ InitDone(t)
    \/ EnterHeap(t)
    \/ ArenaLoad(t) \/ ArenaCas(t)
    \/ \E r \in HeapPointers \cup {Null} : HeapAllocates(t, r) \/ HeapReallocs(t, r)
    \/ HeapFrees(t) \/ HeapAnswersSize(t)

Next == \E t \in Threads : Call(t) \/ Step(t)

\* The scheduler keeps running every thread.
Spec == Init /\ [][Next]_vars /\ \A t \in Threads : WF_vars(Step(t))

-----------------------------------------------------------------------------
(***************************************************************************)
(* Properties.                                                              *)
(***************************************************************************)
Footprint(b) == (b.start - WordBytes) .. (b.start + b.payload - 1)

\* Whatever threads race in bootstrap_alloc and whatever they ask for, blocks
\* of the arena are aligned, hold what was asked, lie in the arena with their
\* headers and share no byte: none was handed out before, so it is still zero
\* (which calloc relies on) and the size realloc reads in front of a block is
\* the block's.
ArenaSound ==
    /\ \A b \in blocks :
           /\ b.start % b.align = 0
           /\ b.requested <= b.payload
           /\ Footprint(b) \subseteq ArenaBase .. (ArenaBase + ArenaBytes - 1)
           /\ \A c \in blocks \ {b} : Footprint(b) \cap Footprint(c) = {}
    /\ Cardinality({b.start : b \in blocks}) = Cardinality(blocks)

\* The heap is never entered by a thread that is inside it, and pthread_once
\* never from shim_init: while a thread executes the heap, shim_busy is set
\* and the calls above it are served without it.  free and realloc clear
\* shim_busy without having tested it, so this rests on the heap's own
\* pointers never being the heap's blocks.
NeverReentered ==
    \A t \in Threads :
        LET inside == {i \in DOMAIN stack[t] : stack[t][i].at \in {"heap", "create"}}
        IN  /\ Cardinality(inside) <= 1
            /\ shim_busy[t] <=> inside # {} \/ At(t, "published")
            /\ \A i \in inside : \A j \in 1 .. (i - 1) :
                    stack[t][j].at \in {"enter", "arena", "cas"}

Passed == (UNION {{f.ptr : f \in {stack[t][i] : i \in DOMAIN stack[t]}} :
                    t \in Threads}) \ {Null}

\* Every pointer goes back to the allocator it came from: the heap is asked to
\* free or resize only blocks it has handed out, no block of the heap is
\* dropped on the way (each allocated one is with the program or in a call),
\* and the heap and the program never hold the same block of the arena.
RoutedToOwner ==
    /\ heap_live = (program \cup Passed) \cap HeapPointers
    /\ \A t \in Threads :
           At(t, "heap") /\ Top(t).fn # "alloc" => Top(t).ptr \in heap_live
    /\ internal \cap (program \cup HeapPointers) = {}
    /\ program \ HeapPointers \subseteq {b.start : b \in blocks}

\* Every call returns: waiting for shim_init ends, and a lost exchange is
\* followed by another attempt on the new value until the arena is full.
CallsReturn == \A t \in Threads : stack[t] # <<>> ~> stack[t] = <<>>
=============================================================================
