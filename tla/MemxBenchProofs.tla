--------------------------- MODULE MemxBenchProofs ---------------------------
(***************************************************************************)
(* Proofs about the shim and the structures and traces of src/memx/bench.   *)
(*                                                                          *)
(* MemxShim, for every number of threads, every placement and size of the   *)
(* arena, every request and every number of nested calls: the arena hands   *)
(* out each byte once, the heap is never entered twice by one thread, and   *)
(* every pointer goes back to the allocator it came from.                   *)
(*                                                                          *)
(* MemxTrace, for every word, hash, table capacity, geometry and trace: the *)
(* oracle's hash table is an exact map, replay agrees with it, the derived  *)
(* range holds all that is mapped, and a load is all or nothing.            *)
(*                                                                          *)
(* MemxBaselines, for every word, configuration and cache size: the three   *)
(* structures and the leaf cache answer like a plain map, and the sizes     *)
(* they report are those of their blocks, unless the root count of the      *)
(* two-level table wraps.                                                   *)
(***************************************************************************)
EXTENDS MemxShim, MemxTrace, MemxBaselines, MemxArithmetic, SequenceTheorems

-----------------------------------------------------------------------------
(***************************************************************************)
(* Arithmetic of the arena.                                                 *)
(***************************************************************************)
\* The constants.
LEMMA Constants ==
    /\ SizeMax \in Nat /\ ArenaBytes \in Nat /\ ArenaBase \in Nat /\ ArenaBase >= 1
    /\ ArenaBase + ArenaBytes <= SizeMax
    /\ ArenaAlign \in Nat /\ ArenaAlign >= 1 /\ WordBytes \in Nat /\ WordBytes >= 1
    /\ WordBytes <= ArenaAlign
    /\ Null \notin Int
    /\ \A a \in PowersOfTwo : a \in Nat /\ a >= 1
BY ShimAssumption DEF PowersOfTwo

\* Rounding down.
LEMMA RoundedDown ==
    ASSUME NEW x \in Nat, NEW a \in Nat, a >= 1
    PROVE  /\ AlignDown(x, a) \in Nat
           /\ AlignDown(x, a) <= x /\ AlignDown(x, a) > x - a
           /\ AlignDown(x, a) % a = 0
<1>1. x % a \in 0..(a - 1)
  OBVIOUS
<1>2. PICK q \in Int : x - (x % a) = a * q
  OBVIOUS
<1>3. (a * q) % a = 0
  OBVIOUS
<1>4. x - (x % a) \in Nat
  <2>1. x % a <= x
    OBVIOUS
  <2> QED BY <1>1, <2>1
<1> QED BY <1>1, <1>2, <1>3, <1>4 DEF AlignDown

\* Below SIZE_MAX nothing wraps.
LEMMA NoWrap ==
    ASSUME NEW x \in Nat, x <= SizeMax
    PROVE  Wrap(x) = x
<1>1. SizeMax \in Nat
  BY Constants
<1>2. x \in 0..((SizeMax + 1) - 1)
  BY <1>1
<1>3. x % (SizeMax + 1) = x
  BY <1>1, <1>2
<1> QED BY <1>3 DEF Wrap

\* The payload holds the request and is not empty.
LEMMA PayloadHolds ==
    ASSUME NEW size \in Nat, size <= SizeMax - (ArenaAlign - 1)
    PROVE  /\ PayloadSize(size) \in Nat /\ PayloadSize(size) >= 1
           /\ size <= PayloadSize(size)
<1>1. PICK x : x = size + ArenaAlign - 1
  OBVIOUS
<1>2. x \in Nat /\ x <= SizeMax
  BY <1>1, Constants
<1>3. Wrap(size + ArenaAlign - 1) = x
  BY <1>1, <1>2, NoWrap
<1>4. PICK rounded : rounded = AlignDown(x, ArenaAlign)
  OBVIOUS
<1>5. rounded \in Nat /\ rounded > x - ArenaAlign
  BY <1>2, <1>4, Constants, RoundedDown
<1>6. PayloadSize(size) = IF rounded = 0 THEN ArenaAlign ELSE rounded
  BY <1>3, <1>4 DEF PayloadSize
<1>7. size <= rounded
  BY <1>1, <1>5, Constants
<1> QED BY <1>5, <1>6, <1>7, Constants

\* What a pass of bootstrap_alloc that refuses nothing has found: a payload
\* aligned as asked, behind a header behind what is in use, within the arena.
LEMMA NotRefused ==
    ASSUME bootstrap_base \in {Null, ArenaBase},
           NEW current \in Nat, NEW size \in Nat, NEW align \in Nat,
           ~Refused(current, size, align)
    PROVE  /\ bootstrap_base = ArenaBase
           /\ Start(current, align) \in Nat
           /\ (ArenaBase + Start(current, align)) % align = 0
           /\ Start(current, align) >= current + WordBytes
           /\ PayloadSize(size) \in Nat /\ PayloadSize(size) >= 1 /\ size <= PayloadSize(size)
           /\ Start(current, align) + PayloadSize(size) <= ArenaBytes
<1>1. /\ bootstrap_base # Null /\ align \in PowersOfTwo
      /\ ~(size > SizeMax - (ArenaAlign - 1))
      /\ ~(bootstrap_base + current + WordBytes > SizeMax - (align - 1))
      /\ ~(PayloadSize(size) > ArenaBytes - Start(current, align))
  BY DEF Refused
<1>2. bootstrap_base = ArenaBase /\ align >= 1
  BY <1>1, Constants
<1>3. PICK x : x = ArenaBase + current + WordBytes + align - 1
  OBVIOUS
<1>4. x \in Nat /\ x <= SizeMax
  BY <1>1, <1>2, <1>3, Constants
<1>5. Wrap(bootstrap_base + current + WordBytes + align - 1) = x
  BY <1>2, <1>3, <1>4, NoWrap
<1>6. PICK y : y = AlignDown(x, align)
  OBVIOUS
<1>7. y \in Nat /\ y > x - align /\ y % align = 0
  BY <1>2, <1>4, <1>6, RoundedDown
<1>8. Start(current, align) = y - ArenaBase
  BY <1>2, <1>5, <1>6 DEF Start
<1>9. y - ArenaBase \in Nat /\ y - ArenaBase >= current + WordBytes
  BY <1>2, <1>3, <1>7, Constants
<1>10. ArenaBase + (y - ArenaBase) = y
  BY <1>7, Constants
<1>11. PayloadSize(size) \in Nat /\ PayloadSize(size) >= 1 /\ size <= PayloadSize(size)
  BY <1>1, Constants, PayloadHolds
<1>12. (y - ArenaBase) + PayloadSize(size) <= ArenaBytes
  BY <1>1, <1>8, <1>9, <1>11, Constants
<1> QED BY <1>2, <1>7, <1>8, <1>9, <1>10, <1>11, <1>12

-----------------------------------------------------------------------------
(***************************************************************************)
(* The stack of a thread.                                                   *)
(***************************************************************************)
Labels == {"enter", "once", "init", "create", "published", "ready", "arena", "cas", "heap",
           "moving"}

Frames == [fn : {"alloc", "free", "realloc", "malloc_usable_size"}, at : Labels,
           size : Nat, align : Nat, ptr : Int \cup {Null}, current : Nat, nested : Nat]

\* What a call may be doing, and the pointer it was given: past the test of
\* the address it is the heap's, and the arena's where realloc moves it.
FrameOK(f) ==
    /\ f \in Frames
    /\ f.at = "moving" => f.fn = "realloc" /\ f.ptr \notin HeapPointers
    /\ f.fn \in {"free", "malloc_usable_size"} => f.at \in {"enter", "heap"}
    /\ f.fn = "realloc" => f.at \notin {"arena", "cas"}
    /\ f.fn = "alloc" <=> f.ptr = Null
    /\ f.fn # "alloc" /\ f.at \notin {"enter", "moving"} => f.ptr \in HeapPointers

\* The program's call; a malloc that realloc has called; and a call of the heap
\* while it serves either.
Alone(s) == Len(s) = 1 /\ s[1].at # "moving"
Replacing(s) == Len(s) = 2 /\ s[2].at = "moving" /\ s[1].fn = "alloc"
Nested(s) ==
    /\ Len(s) \in {2, 3}
    /\ s[1].fn \in {"alloc", "free"} /\ s[1].at \in {"enter", "arena", "cas"}
    /\ s[2].at \in {"heap", "create"}
    /\ Len(s) = 3 => s[3].at = "moving" /\ s[2].fn = "alloc"

StackOK(s) ==
    /\ s \in Seq(Frames)
    /\ \A i \in 1..Len(s) : FrameOK(s[i])
    /\ s = << >> \/ Alone(s) \/ Replacing(s) \/ Nested(s)

\* What the call is doing that is not the heap's own, and the pointer of the
\* program it has.
MainAt(s) == IF s = << >> THEN "none" ELSE IF Nested(s) THEN s[2].at ELSE s[1].at
OwnPtr(s) == IF s = << >> THEN Null ELSE s[Len(s)].ptr

\* The innermost call becomes f.
Topped(s, f, new) ==
    /\ new \in Seq(Frames) /\ Len(new) = Len(s) /\ new[1] = f
    /\ \A i \in 2..Len(s) : new[i] = s[i]

LEMMA StackFacts ==
    ASSUME NEW s, StackOK(s)
    PROVE  /\ Len(s) \in Nat /\ DOMAIN s = 1..Len(s)
           /\ s = << >> <=> Len(s) = 0
           /\ \A i \in 1..Len(s) : s[i] \in Frames
           /\ s # << >> => 1 \in 1..Len(s) /\ Head(s) = s[1]
<1>1. s \in Seq(Frames)
  BY DEF StackOK
<1>2. Len(s) \in Nat /\ DOMAIN s = 1..Len(s) /\ (s = << >> <=> Len(s) = 0)
  BY <1>1, LenProperties, EmptySeq
<1>3. \A i \in 1..Len(s) : s[i] \in Frames
  BY <1>1, ElementOfSeq
<1>4. s # << >> => 1 \in 1..Len(s) /\ Head(s) = s[1]
  BY <1>1, <1>2
<1> QED BY <1>2, <1>3, <1>4

\* Changing the innermost call.
LEMMA TopChanged ==
    ASSUME NEW s, StackOK(s), s # << >>, NEW f \in Frames,
           NEW new, new = [s EXCEPT ![1] = f]
    PROVE  Topped(s, f, new)
<1>1. s \in Seq(Frames) /\ 1 \in 1..Len(s)
  BY StackFacts DEF StackOK
<1> QED BY <1>1, ExceptSeq DEF Topped

\* A call that goes on keeps the stack in shape; the heap's own calls stay
\* where the heap does not come in.
LEMMA GoesOn ==
    ASSUME NEW s, StackOK(s), s # << >>, NEW f, NEW new, Topped(s, f, new), FrameOK(f),
           f.fn = s[1].fn, f.ptr = s[1].ptr, f.at # "moving",
           Nested(s) => f.at \in {"enter", "arena", "cas"}
    PROVE  /\ StackOK(new) /\ new # << >> /\ (Nested(new) <=> Nested(s))
           /\ OwnPtr(new) = OwnPtr(s)
           /\ MainAt(new) = IF Nested(s) THEN MainAt(s) ELSE f.at
<1>1. /\ Len(s) \in Nat /\ Len(s) >= 1 /\ Len(s) \in {1, 2, 3}
      /\ s[1] \in Frames
  BY StackFacts DEF StackOK, Alone, Replacing, Nested
<1>2. /\ new \in Seq(Frames) /\ Len(new) = Len(s) /\ new[1] = f
      /\ \A i \in 2..Len(s) : new[i] = s[i]
  BY DEF Topped
<1>3. \A i \in 1..Len(new) : FrameOK(new[i])
  BY <1>1, <1>2 DEF StackOK
<1>4. new # << >>
  BY <1>1, <1>2
<1>5. (Len(s) >= 2 => new[2] = s[2]) /\ (Len(s) = 3 => new[3] = s[3])
  BY <1>1, <1>2
<1>6. Alone(s) \/ Replacing(s) \/ Nested(s)
  BY DEF StackOK
<1>7. Nested(s) => Nested(new)
  BY <1>2, <1>5 DEF Nested
<1>8. ~Nested(s) => Alone(new) \/ Replacing(new)
  BY <1>1, <1>2, <1>5, <1>6 DEF Alone, Replacing
<1>9. Nested(new) => Nested(s)
  BY <1>1, <1>2, <1>5, <1>8 DEF Nested, Alone, Replacing
<1>10. StackOK(new)
  BY <1>2, <1>3, <1>6, <1>7, <1>8 DEF StackOK
<1>11. OwnPtr(new) = OwnPtr(s)
  <2>1. CASE Len(s) = 1
    BY <1>1, <1>2, <1>4, <2>1 DEF OwnPtr
  <2>2. CASE Len(s) # 1
    BY <1>1, <1>2, <1>4, <2>2 DEF OwnPtr
  <2> QED BY <2>1, <2>2
<1>12. MainAt(new) = IF Nested(s) THEN MainAt(s) ELSE f.at
  <2>1. CASE Nested(s)
    BY <1>4, <1>5, <1>7, <2>1 DEF MainAt, Nested
  <2>2. CASE ~Nested(s)
    BY <1>2, <1>4, <1>9, <2>2 DEF MainAt
  <2> QED BY <2>1, <2>2
<1> QED BY <1>4, <1>7, <1>9, <1>10, <1>11, <1>12

\* A call on top of another.
LEMMA CallOnTop ==
    ASSUME NEW s \in Seq(Frames), NEW f \in Frames, NEW new, new = <<f>> \o s
    PROVE  /\ new \in Seq(Frames) /\ Len(new) = Len(s) + 1 /\ new[1] = f
           /\ \A i \in 1..Len(s) : new[i + 1] = s[i]
<1>1. <<f>> \in Seq(Frames) /\ Len(<<f>>) = 1 /\ <<f>>[1] = f
  OBVIOUS
<1> QED BY <1>1

\* A call that ends.
LEMMA CallOff ==
    ASSUME NEW s, StackOK(s), s # << >>, NEW below, below = Tail(s)
    PROVE  /\ below \in Seq(Frames) /\ Len(below) = Len(s) - 1
           /\ \A i \in 1..(Len(s) - 1) : below[i] = s[i + 1]
           /\ below = << >> <=> Len(s) = 1
<1>1. s \in Seq(Frames) /\ Len(s) \in Nat /\ Len(s) # 0
  BY StackFacts DEF StackOK
<1>2. below \in Seq(Frames) /\ Len(below) = Len(s) - 1
      /\ \A i \in 1..(Len(s) - 1) : below[i] = s[i + 1]
  BY <1>1, HeadTailProperties
<1>3. below = << >> <=> Len(below) = 0
  BY <1>2, EmptySeq
<1> QED BY <1>1, <1>2, <1>3

\* The call of a program or of realloc ends with an empty stack, one the heap
\* has made leaves the heap's.
LEMMA Popped ==
    ASSUME NEW s, StackOK(s), s # << >>, NEW below, below = Tail(s)
    PROVE  /\ Alone(s) => below = << >> /\ ~Nested(s) /\ ~Replacing(s)
           /\ Replacing(s) => /\ below # << >> /\ Head(below) = s[2] /\ Tail(below) = << >>
                              /\ s[2].fn = "realloc" /\ s[2].at = "moving"
                              /\ OwnPtr(s) = s[2].ptr /\ ~Nested(s)
           /\ Nested(s) => /\ below # << >> /\ Head(below) = s[2]
                           /\ s[2].at # "moving"
                           /\ StackOK(below) /\ ~Nested(below) /\ OwnPtr(below) = OwnPtr(s)
                           /\ MainAt(below) = MainAt(s) /\ below[1] = s[2]
<1>1. /\ below \in Seq(Frames) /\ Len(below) = Len(s) - 1 /\ Len(s) \in Nat
      /\ \A i \in 1..(Len(s) - 1) : below[i] = s[i + 1]
      /\ below = << >> <=> Len(s) = 1
      /\ Len(s) \in {1, 2, 3}
  BY CallOff, StackFacts DEF StackOK, Alone, Replacing, Nested
<1>2. Alone(s) => below = << >> /\ ~Nested(s) /\ ~Replacing(s)
  BY <1>1 DEF Alone, Nested, Replacing
<1>3. ASSUME Replacing(s)
      PROVE  /\ below # << >> /\ Head(below) = s[2] /\ Tail(below) = << >>
             /\ s[2].fn = "realloc" /\ s[2].at = "moving" /\ OwnPtr(s) = s[2].ptr /\ ~Nested(s)
  <2>1. Len(s) = 2 /\ s[2].at = "moving" /\ Len(below) = 1 /\ below # << >> /\ below[1] = s[2]
    BY <1>1, <1>3 DEF Replacing
  <2>2. Head(below) = s[2] /\ Tail(below) = << >>
    <3>1. Head(below) = below[1]
      BY <1>1, <2>1
    <3>2. Tail(below) \in Seq(Frames) /\ Len(Tail(below)) = 0
      BY <1>1, <2>1, HeadTailProperties
    <3>3. Tail(below) = << >>
      BY <3>2, EmptySeq
    <3> QED BY <2>1, <3>1, <3>3
  <2>3. s[2].fn = "realloc"
    BY <2>1 DEF StackOK, FrameOK
  <2>4. OwnPtr(s) = s[2].ptr /\ ~Nested(s)
    BY <2>1 DEF OwnPtr, Nested
  <2> QED BY <2>1, <2>2, <2>3, <2>4
<1>4. ASSUME Nested(s)
      PROVE  /\ below # << >> /\ Head(below) = s[2] /\ s[2].at # "moving"
             /\ StackOK(below) /\ ~Nested(below) /\ OwnPtr(below) = OwnPtr(s)
             /\ MainAt(below) = MainAt(s) /\ below[1] = s[2]
  <2>1. /\ Len(s) \in {2, 3} /\ s[2].at \in {"heap", "create"} /\ below[1] = s[2]
        /\ below # << >> /\ (Len(s) = 3 => s[3].at = "moving" /\ s[2].fn = "alloc")
        /\ (Len(s) = 3 => below[2] = s[3])
    BY <1>1, <1>4 DEF Nested
  <2>2. Head(below) = s[2]
    BY <1>1, <2>1
  <2>3. \A i \in 1..Len(below) : FrameOK(below[i])
    BY <1>1 DEF StackOK
  <2>4. Len(s) = 2 => Alone(below)
    BY <1>1, <2>1 DEF Alone
  <2>5. ASSUME Len(s) = 3 PROVE Replacing(below)
    <3>1. Len(below) = 2
      BY <1>1, <2>5
    <3> QED BY <2>1, <2>5, <3>1 DEF Replacing
  <2>6. ~Nested(below)
    BY <2>1 DEF Nested
  <2>7. StackOK(below)
    BY <1>1, <2>1, <2>3, <2>4, <2>5 DEF StackOK
  <2>8. OwnPtr(below) = OwnPtr(s) /\ MainAt(below) = MainAt(s)
    BY <1>1, <1>4, <2>1, <2>6 DEF OwnPtr, MainAt
  <2> QED BY <2>1, <2>2, <2>6, <2>7, <2>8
<1> QED BY <1>2, <1>3, <1>4
-----------------------------------------------------------------------------
(***************************************************************************)
(* The inductive invariant.                                                 *)
(***************************************************************************)
Starts == {b.start : b \in blocks}

ShimType ==
    /\ bootstrap_base \in {Null, ArenaBase}
    /\ bootstrap_used \in Nat
    /\ shim_heap \in BOOLEAN
    /\ once \in {"new", "running", "done"}
    /\ shim_busy \in [Threads -> BOOLEAN]
    /\ stack \in [Threads -> Seq(Frames)]
    /\ \A t \in Threads : StackOK(stack[t])

\* The arena: its blocks lie one behind the other in the bytes in use.
BlockOK(b) ==
    /\ b.start \in Nat /\ b.payload \in Nat /\ b.payload >= 1
    /\ b.start % b.align = 0
    /\ b.requested <= b.payload
    /\ ArenaBase + WordBytes <= b.start
    /\ b.start + b.payload <= ArenaBase + bootstrap_used

ArenaInv ==
    /\ bootstrap_used <= ArenaBytes
    /\ blocks # {} => bootstrap_base = ArenaBase
    /\ \A b \in blocks : BlockOK(b)
    /\ \A b, c \in blocks : b # c => \/ b.start + b.payload <= c.start - WordBytes
                                     \/ c.start + c.payload <= b.start - WordBytes
    /\ IsFiniteSet(blocks) /\ IsFiniteSet(Starts)
    /\ Cardinality(Starts) = Cardinality(blocks)

\* What the exchange will commit to was not refused.
CasInv ==
    \A t \in Threads :
        stack[t] # << >> /\ stack[t][1].at = "cas" =>
            ~Refused(stack[t][1].current, stack[t][1].size, stack[t][1].align)

\* The thread-local flag says where the call is.
BusyInv ==
    \A t \in Threads : shim_busy[t] <=> MainAt(stack[t]) \in {"heap", "create", "published"}

\* shim_init is run by one thread, once, and the heap is entered after it.
Initializing == {"init", "create", "published"}
OnceInv ==
    /\ \A t \in Threads : MainAt(stack[t]) \in Initializing => once = "running"
    /\ \A t, u \in Threads :
           MainAt(stack[t]) \in Initializing /\ MainAt(stack[u]) \in Initializing => t = u
    /\ once = "new" => bootstrap_base = Null /\ ~shim_heap
    /\ \A t \in Threads :
           /\ MainAt(stack[t]) = "init" => bootstrap_base = Null
           /\ MainAt(stack[t]) \in {"init", "create"} => ~shim_heap
           /\ MainAt(stack[t]) = "heap" => shim_heap

\* Who has which pointer.
PtrInv ==
    /\ internal \subseteq Starts
    /\ program \subseteq Starts \cup HeapPointers
    /\ internal \cap program = {}
    /\ \A t \in Threads :
           /\ OwnPtr(stack[t]) \in {Null} \cup Starts \cup HeapPointers
           /\ OwnPtr(stack[t]) \notin program \cup internal
           /\ Nested(stack[t]) /\ stack[t][1].fn = "free" => stack[t][1].ptr \in Starts
    /\ \A t, u \in Threads :
           t # u /\ OwnPtr(stack[t]) # Null => OwnPtr(stack[t]) # OwnPtr(stack[u])
    /\ heap_live = HeapPointers \cap (program \cup {OwnPtr(stack[t]) : t \in Threads})
    /\ heap_live # {} => shim_heap

ShimInv == ShimType /\ ArenaInv /\ CasInv /\ BusyInv /\ OnceInv /\ PtrInv

\* The heap has no block in the arena.
LEMMA StartsApart ==
    ASSUME ShimType, ArenaInv
    PROVE  /\ Starts \cap HeapPointers = {}
           /\ \A p \in Starts : from_bootstrap(p) /\ p \in Int
           /\ \A p \in HeapPointers : ~from_bootstrap(p) /\ p \in Int
           /\ Null \notin Starts \cup HeapPointers
<1>1. ASSUME NEW p \in Starts
      PROVE  /\ bootstrap_base = ArenaBase /\ p \in Nat
             /\ ArenaBase <= p /\ p < ArenaBase + ArenaBytes
  <2>1. PICK b \in blocks : p = b.start
    BY DEF Starts
  <2>2. BlockOK(b) /\ bootstrap_used <= ArenaBytes /\ bootstrap_used \in Nat
        /\ bootstrap_base = ArenaBase
    BY DEF ArenaInv, ShimType
  <2> QED BY <2>1, <2>2, Constants DEF BlockOK
<1>2. \A p \in Starts : from_bootstrap(p) /\ p \in Int
  BY <1>1, Constants DEF from_bootstrap
<1>3. ASSUME NEW p \in HeapPointers
      PROVE  p \in Int /\ ~(ArenaBase <= p /\ p < ArenaBase + ArenaBytes)
  BY ShimAssumption, Constants
<1>4. \A p \in HeapPointers : ~from_bootstrap(p) /\ p \in Int
  BY <1>3, Constants DEF from_bootstrap, ShimType
<1> QED BY <1>1, <1>2, <1>3, <1>4, Constants

LEMMA StartsApartNext ==
    ShimType' /\ ArenaInv' =>
        Starts' \cap HeapPointers = {} /\ Null \notin Starts' \cup HeapPointers
<1>1. ShimType /\ ArenaInv => Starts \cap HeapPointers = {} /\ Null \notin Starts \cup HeapPointers
  BY StartsApart
<1>2. (ShimType /\ ArenaInv => Starts \cap HeapPointers = {} /\ Null \notin Starts \cup HeapPointers)'
  BY <1>1, PTL
<1> QED BY <1>2

-----------------------------------------------------------------------------
(***************************************************************************)
(* What a step of one thread leaves as it is.                               *)
(***************************************************************************)
OthersStay(t) ==
    /\ stack' \in [Threads -> Seq(Frames)] /\ shim_busy' \in [Threads -> BOOLEAN]
    /\ \A u \in Threads \ {t} : stack'[u] = stack[u] /\ shim_busy'[u] = shim_busy[u]

\* The arena is untouched.
LEMMA ArenaKept ==
    ASSUME ShimInv, bootstrap_base' = bootstrap_base, bootstrap_used' = bootstrap_used,
           blocks' = blocks
    PROVE  ArenaInv' /\ Starts' = Starts
BY DEF ShimInv, ArenaInv, BlockOK, Starts

\* The flag and the initialisation, in a step outside shim_init.
LEMMA ControlStep ==
    ASSUME ShimInv, NEW t \in Threads, OthersStay(t), StackOK(stack'[t]),
           bootstrap_base' = bootstrap_base, bootstrap_used' \in Nat,
           shim_heap' = shim_heap, once' = once,
           shim_busy'[t] <=> MainAt(stack'[t]) \in {"heap", "create", "published"},
           MainAt(stack'[t]) \in Initializing => MainAt(stack'[t]) = MainAt(stack[t]),
           MainAt(stack'[t]) = "heap" => shim_heap
    PROVE  ShimType' /\ BusyInv' /\ OnceInv'
<1>1. ShimType'
  BY DEF ShimInv, ShimType, OthersStay
<1>2. BusyInv'
  BY DEF ShimInv, BusyInv, OthersStay
<1>3. \A u \in Threads : MainAt(stack'[u]) \in Initializing => MainAt(stack'[u]) = MainAt(stack[u])
  BY DEF OthersStay
<1>4. \A u \in Threads : MainAt(stack'[u]) = "heap" => shim_heap
  BY DEF OthersStay, ShimInv, OnceInv
<1>5. OnceInv'
  BY <1>3, <1>4 DEF ShimInv, OnceInv, Initializing
<1> QED BY <1>1, <1>2, <1>5

\* What the other threads are about to exchange stays acceptable.
LEMMA CasStep ==
    ASSUME ShimInv, NEW t \in Threads, OthersStay(t), bootstrap_base' = bootstrap_base,
           stack'[t] # << >> /\ stack'[t][1].at = "cas" =>
               ~Refused(stack'[t][1].current, stack'[t][1].size, stack'[t][1].align)
    PROVE  CasInv'
<1>1. \A current, size, align :
         Refused(current, size, align)' <=> Refused(current, size, align)
  BY DEF Refused, Start
<1>2. ASSUME NEW u \in Threads, stack'[u] # << >>, stack'[u][1].at = "cas"
      PROVE  ~Refused(stack'[u][1].current, stack'[u][1].size, stack'[u][1].align)
  BY <1>2 DEF OthersStay, ShimInv, CasInv
<1> QED BY <1>1, <1>2 DEF CasInv

\* Nobody's pointers change.
LEMMA PtrKept ==
    ASSUME ShimInv, NEW t \in Threads, OthersStay(t), Starts' = Starts,
           OwnPtr(stack'[t]) = OwnPtr(stack[t]),
           Nested(stack'[t]) /\ stack'[t][1].fn = "free" => stack'[t][1].ptr \in Starts,
           internal' = internal, program' = program, heap_live' = heap_live,
           heap_live # {} => shim_heap'
    PROVE  PtrInv'
<1>1. \A u \in Threads : OwnPtr(stack'[u]) = OwnPtr(stack[u])
  BY DEF OthersStay
<1>2. \A u \in Threads :
         Nested(stack'[u]) /\ stack'[u][1].fn = "free" => stack'[u][1].ptr \in Starts
  BY DEF OthersStay, ShimInv, PtrInv
<1>3. {OwnPtr(stack'[u]) : u \in Threads} = {OwnPtr(stack[u]) : u \in Threads}
  BY <1>1
<1> QED BY <1>1, <1>2, <1>3 DEF ShimInv, PtrInv

-----------------------------------------------------------------------------
(***************************************************************************)
(* A call that goes on: its frame changes, its pointer and function do not. *)
(***************************************************************************)
Continues(t, f) ==
    /\ stack' \in [Threads -> Seq(Frames)]
    /\ \A u \in Threads \ {t} : stack'[u] = stack[u]
    /\ stack[t] # << >>
    /\ Topped(stack[t], f, stack'[t])
    /\ FrameOK(f) /\ f.at # "moving"
    /\ f.fn = stack[t][1].fn /\ f.ptr = stack[t][1].ptr
    /\ Nested(stack[t]) => f.at \in {"enter", "arena", "cas"}

\* shim_busy as a call that goes on leaves it.
BusyFollows(t, f) ==
    /\ shim_busy' \in [Threads -> BOOLEAN]
    /\ \A u \in Threads \ {t} : shim_busy'[u] = shim_busy[u]
    /\ IF Nested(stack[t]) THEN shim_busy'[t] = shim_busy[t]
       ELSE shim_busy'[t] <=> f.at \in {"heap", "create", "published"}

LEMMA ContinueShape ==
    ASSUME ShimInv, NEW t \in Threads, NEW f, Continues(t, f), BusyFollows(t, f)
    PROVE  /\ OthersStay(t) /\ StackOK(stack'[t]) /\ stack'[t] # << >> /\ stack'[t][1] = f
           /\ OwnPtr(stack'[t]) = OwnPtr(stack[t])
           /\ Nested(stack'[t]) <=> Nested(stack[t])
           /\ MainAt(stack'[t]) = IF Nested(stack[t]) THEN MainAt(stack[t]) ELSE f.at
           /\ shim_busy'[t] <=> MainAt(stack'[t]) \in {"heap", "create", "published"}
<1>1. StackOK(stack[t])
  BY DEF ShimInv, ShimType
<1>2. /\ StackOK(stack'[t]) /\ stack'[t] # << >> /\ OwnPtr(stack'[t]) = OwnPtr(stack[t])
      /\ Nested(stack'[t]) <=> Nested(stack[t])
      /\ MainAt(stack'[t]) = IF Nested(stack[t]) THEN MainAt(stack[t]) ELSE f.at
  BY <1>1, GoesOn DEF Continues
<1>3. OthersStay(t) /\ stack'[t][1] = f
  BY DEF Continues, BusyFollows, OthersStay, Topped
<1>4. shim_busy'[t] <=> MainAt(stack'[t]) \in {"heap", "create", "published"}
  BY <1>2 DEF BusyFollows, ShimInv, BusyInv
<1> QED BY <1>2, <1>3, <1>4

\* Its pointer stays with it.
LEMMA ContinuePtr ==
    ASSUME ShimInv, NEW t \in Threads, NEW f, Continues(t, f), BusyFollows(t, f),
           Starts' = Starts,
           internal' = internal, program' = program, heap_live' = heap_live,
           heap_live # {} => shim_heap'
    PROVE  PtrInv'
<1>1. /\ OthersStay(t) /\ stack'[t][1] = f /\ OwnPtr(stack'[t]) = OwnPtr(stack[t])
      /\ Nested(stack'[t]) <=> Nested(stack[t])
  BY ContinueShape
<1>2. f.fn = stack[t][1].fn /\ f.ptr = stack[t][1].ptr
  BY DEF Continues
<1>3. Nested(stack'[t]) /\ stack'[t][1].fn = "free" => stack'[t][1].ptr \in Starts
  BY <1>1, <1>2 DEF ShimInv, PtrInv
<1> QED BY <1>1, <1>3, PtrKept

LEMMA ContinueInv ==
    ASSUME ShimInv, NEW t \in Threads, NEW f, Continues(t, f), BusyFollows(t, f),
           UNCHANGED <<arena, shim_heap, once, owners>>,
           ~Nested(stack[t]) => f.at \notin Initializing,
           f.at = "heap" => shim_heap,
           f.at = "cas" => ~Refused(f.current, f.size, f.align)
    PROVE  ShimInv'
<1>1. /\ bootstrap_base' = bootstrap_base /\ bootstrap_used' = bootstrap_used
      /\ blocks' = blocks /\ shim_heap' = shim_heap /\ once' = once
      /\ internal' = internal /\ program' = program /\ heap_live' = heap_live
  BY DEF arena, owners
<1>2. ArenaInv' /\ Starts' = Starts
  BY <1>1, ArenaKept
<1>3. /\ OthersStay(t) /\ StackOK(stack'[t]) /\ stack'[t][1] = f
      /\ MainAt(stack'[t]) = IF Nested(stack[t]) THEN MainAt(stack[t]) ELSE f.at
      /\ shim_busy'[t] <=> MainAt(stack'[t]) \in {"heap", "create", "published"}
  BY ContinueShape
<1>4. ShimType' /\ BusyInv' /\ OnceInv'
  <2>1. MainAt(stack'[t]) = "heap" => shim_heap
    BY <1>3 DEF ShimInv, OnceInv
  <2>2. bootstrap_used' \in Nat
    BY <1>1 DEF ShimInv, ShimType
  <2> QED BY <1>1, <1>3, <2>1, <2>2, ControlStep
<1>5. CasInv'
  BY <1>1, <1>3, CasStep
<1>6. PtrInv'
  BY <1>1, <1>2, ContinuePtr DEF ShimInv, PtrInv
<1> QED BY <1>2, <1>4, <1>5, <1>6 DEF ShimInv

\* The frame on top is replaced.
Retop(t, f) == stack' = [stack EXCEPT ![t] = [stack[t] EXCEPT ![1] = f]]

\* The same frame with another label, or passed on to the heap.
Labelled(f, l) == [f EXCEPT !.at = l]
ForHeap(f) ==
    [Frame(f.fn, IF f.fn = "realloc" THEN f.size ELSE 0, ArenaAlign, f.ptr) EXCEPT !.at = "heap"]

LEMMA RetopContinues ==
    ASSUME ShimInv, NEW t \in Threads, stack[t] # << >>, NEW f, FrameOK(f), Retop(t, f),
           f.at # "moving", f.fn = stack[t][1].fn, f.ptr = stack[t][1].ptr,
           Nested(stack[t]) => f.at \in {"enter", "arena", "cas"}
    PROVE  Continues(t, f)
<1>1. StackOK(stack[t]) /\ stack \in [Threads -> Seq(Frames)] /\ f \in Frames
  BY DEF ShimInv, ShimType, FrameOK
<1>2. PICK new : new = [stack[t] EXCEPT ![1] = f]
  OBVIOUS
<1>3. Topped(stack[t], f, new)
  BY <1>1, <1>2, TopChanged
<1>4. stack' = [stack EXCEPT ![t] = new] /\ new \in Seq(Frames)
  BY <1>2, <1>3 DEF Retop, Topped
<1>5. stack'[t] = new /\ stack' \in [Threads -> Seq(Frames)]
      /\ \A u \in Threads \ {t} : stack'[u] = stack[u]
  BY <1>1, <1>4
<1> QED BY <1>3, <1>5 DEF Continues

\* The frame on top of a stack.
LEMMA TopFrame ==
    ASSUME ShimInv, NEW t \in Threads, stack[t] # << >>
    PROVE  /\ StackOK(stack[t]) /\ FrameOK(stack[t][1]) /\ stack[t][1] \in Frames
           /\ Top(t) = stack[t][1] /\ stack[t][1].at # "moving"
           /\ Alone(stack[t]) \/ Replacing(stack[t]) \/ Nested(stack[t])
           /\ Alone(stack[t]) => ~Nested(stack[t]) /\ OwnPtr(stack[t]) = stack[t][1].ptr
           /\ Replacing(stack[t]) => ~Nested(stack[t]) /\ stack[t][1].fn = "alloc"
           /\ Nested(stack[t]) => /\ stack[t][1].at \in {"enter", "arena", "cas"}
                                  /\ stack[t][1].fn \in {"alloc", "free"}
           /\ \A l : At(t, l) <=> stack[t][1].at = l
<1>1. StackOK(stack[t])
  BY DEF ShimInv, ShimType
<1>2. 1 \in 1..Len(stack[t]) /\ Head(stack[t]) = stack[t][1] /\ stack[t][1] \in Frames
  BY <1>1, StackFacts
<1>3. FrameOK(stack[t][1])
  BY <1>1, <1>2 DEF StackOK
<1>4. Alone(stack[t]) \/ Replacing(stack[t]) \/ Nested(stack[t])
  BY <1>1 DEF StackOK
<1>5. /\ Alone(stack[t]) => ~Nested(stack[t]) /\ OwnPtr(stack[t]) = stack[t][1].ptr
      /\ Replacing(stack[t]) => ~Nested(stack[t]) /\ stack[t][1].fn = "alloc"
      /\ Nested(stack[t]) => /\ stack[t][1].at \in {"enter", "arena", "cas"}
                             /\ stack[t][1].fn \in {"alloc", "free"}
  BY DEF Alone, Replacing, Nested, OwnPtr
<1>6. stack[t][1].at # "moving"
  BY <1>3, <1>4 DEF Alone, Replacing, Nested, FrameOK
<1> QED BY <1>1, <1>2, <1>3, <1>4, <1>5, <1>6 DEF At, Top

\* A thread at some label is in a call.
LEMMA AtInCall ==
    ASSUME ShimInv, NEW t \in Threads, NEW l, At(t, l)
    PROVE  stack[t] # << >> /\ stack[t][1].at = l
BY TopFrame DEF At

LEMMA GotoContinues ==
    ASSUME ShimInv, NEW t \in Threads, stack[t] # << >>, NEW l \in Labels, Goto(t, l),
           FrameOK(Labelled(stack[t][1], l)), l # "moving",
           Nested(stack[t]) => l \in {"enter", "arena", "cas"}
    PROVE  Continues(t, Labelled(stack[t][1], l)) /\ Labelled(stack[t][1], l).at = l
<1>1. PICK f : f = Labelled(stack[t][1], l)
  OBVIOUS
<1>2. stack[t][1] \in Frames
  BY TopFrame
<1>3. f.at = l /\ f.fn = stack[t][1].fn /\ f.ptr = stack[t][1].ptr
  BY <1>1, <1>2 DEF Labelled, Frames
<1>4. Retop(t, f)
  BY <1>1 DEF Goto, Retop, Labelled
<1>5. Continues(t, f)
  BY <1>1, <1>3, <1>4, RetopContinues
<1> QED BY <1>1, <1>3, <1>5

\* The heap is entered by a call that is not the heap's own, with a pointer of
\* the heap if with any.
LEMMA PassToHeapInv ==
    ASSUME ShimInv, NEW t \in Threads, stack[t] # << >>, ~Nested(stack[t]), shim_heap,
           stack[t][1].fn # "alloc" => stack[t][1].ptr \in HeapPointers,
           PassToHeap(t), UNCHANGED <<arena, shim_heap, once, owners>>
    PROVE  ShimInv'
<1>1. PICK f : f = ForHeap(stack[t][1])
  OBVIOUS
<1>2. stack[t][1] \in Frames /\ FrameOK(stack[t][1])
  BY TopFrame
<1>3. f \in Frames /\ f.at = "heap" /\ f.fn = stack[t][1].fn /\ f.ptr = stack[t][1].ptr
  BY <1>1, <1>2, Constants DEF ForHeap, Frame, Frames, Labels
<1>4. FrameOK(f)
  BY <1>2, <1>3 DEF FrameOK
<1>5. Retop(t, f) /\ shim_busy' = [shim_busy EXCEPT ![t] = TRUE]
  BY <1>1 DEF PassToHeap, Retop, ForHeap
<1>6. Continues(t, f)
  BY <1>3, <1>4, <1>5, RetopContinues
<1>7. BusyFollows(t, f)
  BY <1>3, <1>5 DEF BusyFollows, ShimInv, ShimType
<1> QED BY <1>3, <1>6, <1>7, ContinueInv DEF Initializing

\* A call goes to another place outside shim_init and the heap.
LEMMA GotoInv ==
    ASSUME ShimInv, NEW t \in Threads, stack[t] # << >>, NEW l, Goto(t, l),
           l \in {"once", "ready", "arena"}, l = "arena" => stack[t][1].fn = "alloc",
           FrameOK(Labelled(stack[t][1], l)),
           Nested(stack[t]) => l = "arena",
           ~Nested(stack[t]) => ~shim_busy[t],
           shim_busy' = shim_busy, UNCHANGED <<arena, shim_heap, once, owners>>
    PROVE  ShimInv'
<1>1. PICK f : f = Labelled(stack[t][1], l)
  OBVIOUS
<1>2. Continues(t, f) /\ f.at = l
  BY <1>1, GotoContinues DEF Labels
<1>3. BusyFollows(t, f)
  BY <1>2 DEF BusyFollows, ShimInv, ShimType
<1> QED BY <1>2, <1>3, ContinueInv DEF Initializing

-----------------------------------------------------------------------------
(***************************************************************************)
(* New calls, of the program, of realloc and of the heap.                   *)
(***************************************************************************)
\* A frame of a call that begins.
Entering(f) == FrameOK(f) /\ f.at = "enter"

LEMMA NewFrame ==
    ASSUME NEW fn \in {"alloc", "free", "realloc", "malloc_usable_size"},
           NEW size \in Nat, NEW align \in Nat, NEW p \in Int \cup {Null},
           fn = "alloc" <=> p = Null, NEW f, f = Frame(fn, size, align, p)
    PROVE  Entering(f) /\ f.fn = fn /\ f.ptr = p
<1>1. f \in Frames /\ f.at = "enter" /\ f.fn = fn /\ f.ptr = p
  BY DEF Frame, Frames, Labels
<1> QED BY <1>1 DEF FrameOK, Entering

\* Every allocation function comes down to one kind of call.
LEMMA AllocationFrame ==
    ASSUME NEW f \in AllocationCalls, f # Null
    PROVE  Entering(f) /\ f.fn = "alloc" /\ f.ptr = Null
<1>1. /\ Sizes \subseteq Nat /\ Alignments \subseteq Nat /\ ArenaAlign \in Nat /\ WordBytes \in Nat
  BY ShimAssumption, Constants
<1>2. ASSUME NEW size \in Sizes, f = malloc(size)
      PROVE  \E n, a \in Nat : f = Frame("alloc", n, a, Null)
  BY <1>1, <1>2 DEF malloc
<1>3. ASSUME NEW count \in Sizes, NEW size \in Sizes, f = calloc(count, size)
      PROVE  \E n, a \in Nat : f = Frame("alloc", n, a, Null)
  <2>1. f = Frame("alloc", count * size, ArenaAlign, Null)
    BY <1>3 DEF calloc
  <2>2. count * size \in Nat
    BY <1>1
  <2> QED BY <1>1, <2>1, <2>2
<1>4. ASSUME NEW a \in Alignments, NEW size \in Sizes, NEW exact \in BOOLEAN,
             f = shim_aligned_allocate(a, size, exact)
      PROVE  \E n, b \in Nat : f = Frame("alloc", n, b, Null)
  <2>1. f = Frame("alloc", size, IF a < WordBytes THEN WordBytes ELSE a, Null)
    BY <1>4 DEF shim_aligned_allocate
  <2> QED BY <1>1, <2>1
<1>5. ASSUME NEW a \in Alignments, NEW size \in Sizes, f = posix_memalign(a, size)
      PROVE  \E n, b \in Nat : f = Frame("alloc", n, b, Null)
  <2>1. f = shim_aligned_allocate(a, size, FALSE)
    BY <1>5 DEF posix_memalign
  <2> QED BY <1>4, <2>1
<1>6. PICK n, a \in Nat : f = Frame("alloc", n, a, Null)
  BY <1>2, <1>3, <1>4, <1>5 DEF AllocationCalls
<1>7. PICK fn, p : fn = "alloc" /\ p = Null
  OBVIOUS
<1>8. f = Frame(fn, n, a, p) /\ (fn = "alloc" <=> p = Null) /\ p \in Int \cup {Null}
      /\ fn \in {"alloc", "free", "realloc", "malloc_usable_size"}
  BY <1>6, <1>7
<1> QED BY <1>7, <1>8, NewFrame

\* What a new call leaves alone.
Called(t) ==
    /\ stack' \in [Threads -> Seq(Frames)]
    /\ \A u \in Threads \ {t} : stack'[u] = stack[u]
    /\ UNCHANGED <<arena, shim_heap, once, shim_busy>>
    /\ StackOK(stack'[t]) /\ stack'[t][1].at # "cas"
    /\ \/ MainAt(stack'[t]) = MainAt(stack[t])
       \/ MainAt(stack'[t]) = "enter" /\ ~shim_busy[t]

LEMMA CalledInv ==
    ASSUME ShimInv, NEW t \in Threads, Called(t)
    PROVE  /\ ShimType' /\ ArenaInv' /\ CasInv' /\ BusyInv' /\ OnceInv'
           /\ OthersStay(t) /\ Starts' = Starts
<1>1. /\ bootstrap_base' = bootstrap_base /\ bootstrap_used' = bootstrap_used
      /\ blocks' = blocks /\ shim_heap' = shim_heap /\ once' = once /\ shim_busy' = shim_busy
  BY DEF arena, Called
<1>2. OthersStay(t)
  BY <1>1 DEF OthersStay, Called, ShimInv, ShimType
<1>3. ArenaInv' /\ Starts' = Starts
  BY <1>1, ArenaKept
<1>4. CasInv'
  BY <1>1, <1>2, CasStep DEF Called
<1>5. ShimType' /\ BusyInv' /\ OnceInv'
  <2>1. /\ shim_busy'[t] <=> MainAt(stack'[t]) \in {"heap", "create", "published"}
        /\ MainAt(stack'[t]) \in Initializing => MainAt(stack'[t]) = MainAt(stack[t])
        /\ MainAt(stack'[t]) = "heap" => shim_heap
        /\ bootstrap_used' \in Nat /\ StackOK(stack'[t])
    BY <1>1 DEF Called, ShimInv, BusyInv, OnceInv, Initializing, ShimType
  <2> QED BY <1>1, <1>2, <2>1, ControlStep
<1> QED BY <1>2, <1>3, <1>4, <1>5

\* The first frame of a thread.
LEMMA FirstFrame ==
    ASSUME ShimInv, NEW t \in Threads, stack[t] = << >>, NEW f, Entering(f), Push(t, f)
    PROVE  /\ stack' \in [Threads -> Seq(Frames)]
           /\ \A u \in Threads \ {t} : stack'[u] = stack[u]
           /\ StackOK(stack'[t]) /\ stack'[t][1] = f /\ ~Nested(stack'[t])
           /\ MainAt(stack'[t]) = "enter" /\ OwnPtr(stack'[t]) = f.ptr
           /\ ~shim_busy[t] /\ OwnPtr(stack[t]) = Null
<1>1. f \in Frames /\ stack \in [Threads -> Seq(Frames)]
  BY DEF Entering, FrameOK, ShimInv, ShimType
<1>2. PICK new : new = <<f>>
  OBVIOUS
<1>3. new \in Seq(Frames) /\ Len(new) = 1 /\ new[1] = f /\ new # << >>
  BY <1>1, <1>2
<1>4. <<f>> \o stack[t] = new
  BY <1>1, <1>2
<1>5. stack'[t] = new /\ stack' \in [Threads -> Seq(Frames)]
      /\ \A u \in Threads \ {t} : stack'[u] = stack[u]
  <2>1. stack' = [stack EXCEPT ![t] = new]
    BY <1>4 DEF Push
  <2> QED BY <1>1, <1>3, <2>1
<1>6. Alone(new) /\ ~Nested(new)
  BY <1>3 DEF Alone, Nested, Entering
<1>7. StackOK(new)
  BY <1>3, <1>6 DEF StackOK, Entering
<1>8. MainAt(new) = "enter" /\ OwnPtr(new) = f.ptr
  BY <1>3, <1>6 DEF MainAt, OwnPtr, Entering
<1>9. ~shim_busy[t] /\ OwnPtr(stack[t]) = Null
  BY DEF ShimInv, BusyInv, MainAt, OwnPtr
<1> QED BY <1>3, <1>5, <1>6, <1>7, <1>8, <1>9

LEMMA CallAllocateInv ==
    ASSUME ShimInv, NEW t \in Threads, CallAllocate(t)
    PROVE  ShimInv'
<1>1. PICK f \in AllocationCalls \ {Null} : Push(t, f)
  BY DEF CallAllocate
<1>2. stack[t] = << >> /\ UNCHANGED <<arena, shim_heap, once, shim_busy, owners>>
  BY DEF CallAllocate
<1>3. Entering(f) /\ f.ptr = Null
  BY AllocationFrame
<1>4. /\ stack' \in [Threads -> Seq(Frames)]
      /\ \A u \in Threads \ {t} : stack'[u] = stack[u]
      /\ StackOK(stack'[t]) /\ stack'[t][1] = f /\ ~Nested(stack'[t])
      /\ MainAt(stack'[t]) = "enter" /\ OwnPtr(stack'[t]) = Null
      /\ ~shim_busy[t] /\ OwnPtr(stack[t]) = Null
  BY <1>1, <1>2, <1>3, FirstFrame
<1>5. Called(t)
  BY <1>2, <1>3, <1>4 DEF Called, Entering
<1>6. /\ ShimType' /\ ArenaInv' /\ CasInv' /\ BusyInv' /\ OnceInv'
      /\ OthersStay(t) /\ Starts' = Starts
  BY <1>5, CalledInv
<1>7. PtrInv'
  BY <1>2, <1>4, <1>6, PtrKept DEF owners, ShimInv, PtrInv
<1> QED BY <1>6, <1>7 DEF ShimInv

\* The program passes a pointer: it is now the call's.
LEMMA CallWithInv ==
    ASSUME ShimInv, NEW t \in Threads, NEW p \in program, NEW size \in Sizes, CallWith(t, p, size)
    PROVE  ShimInv'
<1>1. PICK fn \in {"free", "realloc", "malloc_usable_size"} :
         Push(t, Frame(fn, IF fn = "realloc" THEN size ELSE 0, ArenaAlign, p))
  BY DEF CallWith
<1>2. /\ stack[t] = << >> /\ program' = program \ {p}
      /\ UNCHANGED <<arena, shim_heap, once, shim_busy, heap_live, internal>>
  BY DEF CallWith
<1>3. PICK f : f = Frame(fn, IF fn = "realloc" THEN size ELSE 0, ArenaAlign, p)
  OBVIOUS
<1>4. p \in Starts \cup HeapPointers /\ p \in Int /\ p # Null
  BY StartsApart, Constants DEF ShimInv, PtrInv
<1>5. Entering(f) /\ f.fn = fn /\ f.ptr = p
  <2>1. size \in Nat /\ ArenaAlign \in Nat
    BY ShimAssumption, Constants
  <2>2. (IF fn = "realloc" THEN size ELSE 0) \in Nat
    BY <2>1
  <2> QED BY <1>3, <1>4, <2>1, <2>2, NewFrame
<1>6. /\ stack' \in [Threads -> Seq(Frames)]
      /\ \A u \in Threads \ {t} : stack'[u] = stack[u]
      /\ StackOK(stack'[t]) /\ stack'[t][1] = f /\ ~Nested(stack'[t])
      /\ MainAt(stack'[t]) = "enter" /\ OwnPtr(stack'[t]) = p
      /\ ~shim_busy[t] /\ OwnPtr(stack[t]) = Null
  BY <1>1, <1>2, <1>3, <1>5, FirstFrame
<1>7. Called(t)
  BY <1>2, <1>5, <1>6 DEF Called, Entering
<1>8. /\ ShimType' /\ ArenaInv' /\ CasInv' /\ BusyInv' /\ OnceInv'
      /\ OthersStay(t) /\ Starts' = Starts
  BY <1>7, CalledInv
<1>9. PtrInv'
  <2>1. /\ internal' = internal /\ heap_live' = heap_live /\ shim_heap' = shim_heap
    BY <1>2
  <2>2. \A u \in Threads \ {t} : OwnPtr(stack'[u]) = OwnPtr(stack[u]) /\ OwnPtr(stack[u]) # p
    BY <1>6 DEF ShimInv, PtrInv
  <2>3. heap_live = HeapPointers \cap ((program \ {p}) \cup {OwnPtr(stack'[u]) : u \in Threads})
    <3>1. heap_live = HeapPointers \cap (program \cup {OwnPtr(stack[u]) : u \in Threads})
      BY DEF ShimInv, PtrInv
    <3>2. Null \notin HeapPointers
      BY StartsApart DEF ShimInv
    <3>3. \A q \in HeapPointers :
             q \in program \cup {OwnPtr(stack[u]) : u \in Threads} <=>
             q \in (program \ {p}) \cup {OwnPtr(stack'[u]) : u \in Threads}
      <4> SUFFICES ASSUME NEW q \in HeapPointers
                   PROVE  q \in program \/ (\E u \in Threads : q = OwnPtr(stack[u])) <=>
                          q \in program \ {p} \/ (\E u \in Threads : q = OwnPtr(stack'[u]))
        OBVIOUS
      <4>1. CASE q = p
        BY <1>6, <4>1
      <4>2. CASE q # p
        BY <1>6, <2>2, <3>2, <4>2
      <4> QED BY <4>1, <4>2
    <3> QED BY <3>1, <3>3
  <2>4. \A u \in Threads :
           Nested(stack'[u]) /\ stack'[u][1].fn = "free" => stack'[u][1].ptr \in Starts
    BY <1>6 DEF ShimInv, PtrInv
  <2>5. \A u \in Threads :
           /\ OwnPtr(stack'[u]) \in {Null} \cup Starts \cup HeapPointers
           /\ OwnPtr(stack'[u]) \notin program' \cup internal
    BY <1>2, <1>4, <1>6, <2>2 DEF ShimInv, PtrInv
  <2>6. \A u, v \in Threads :
           u # v /\ OwnPtr(stack'[u]) # Null => OwnPtr(stack'[u]) # OwnPtr(stack'[v])
    BY <1>6, <2>2 DEF ShimInv, PtrInv
  <2> QED BY <1>2, <1>8, <2>1, <2>3, <2>4, <2>5, <2>6 DEF ShimInv, PtrInv
<1> QED BY <1>8, <1>9 DEF ShimInv

LEMMA OneMore == \A m, n : m \in {1, 2} /\ n = m + 1 => n \in {2, 3} /\ (n = 3 => m = 2)
OBVIOUS

LEMMA UpToThree == \A n, i : n \in {2, 3} /\ i \in 1..n => i = 1 \/ i = 2 \/ (i = 3 /\ n = 3)
OBVIOUS

\* The heap calls malloc or free while it serves a call.
LEMMA NestedShape ==
    ASSUME NEW s, StackOK(s), s # << >>, s[1].at \in {"heap", "create"},
           NEW new \in Seq(Frames), Len(new) = Len(s) + 1,
           Entering(new[1]), new[1].fn \in {"alloc", "free"},
           FrameOK(new[2]), new[2].at = s[1].at, new[2].fn = s[1].fn, new[2].ptr = s[1].ptr,
           \A i \in 2..Len(s) : new[i + 1] = s[i]
    PROVE  /\ StackOK(new) /\ Nested(new) /\ new # << >>
           /\ OwnPtr(new) = OwnPtr(s) /\ MainAt(new) = MainAt(s)
<1>1. ~Nested(s) /\ (Alone(s) \/ Replacing(s))
  BY DEF StackOK, Nested
<1>2. /\ Len(s) \in {1, 2}
      /\ Len(s) = 2 => new[3] = s[2] /\ s[2].at = "moving" /\ s[1].fn = "alloc"
  BY <1>1 DEF Alone, Replacing
<1>3. new # << >> /\ Len(new) \in {2, 3}
  <2>1. Len(new) = Len(s) + 1
    OBVIOUS
  <2>2. Len(new) \in {2, 3}
    BY <1>2, <2>1, OneMore, Zenon
  <2>3. new = << >> => Len(new) = 0
    OBVIOUS
  <2> QED BY ONLY <2>2, <2>3
<1>4. Nested(new)
  BY <1>2, <1>3 DEF Nested, Entering
<1>5. \A i \in 1..Len(new) : FrameOK(new[i])
  <2>1. FrameOK(new[1]) /\ FrameOK(new[2]) /\ (Len(s) = 2 => FrameOK(new[3]))
    BY <1>2 DEF Entering, StackOK
  <2>2. Len(new) = Len(s) + 1
    OBVIOUS
  <2>3. Len(new) = 3 => Len(s) = 2
    BY <1>2, <2>2, OneMore, Zenon
  <2> QED BY <1>3, <2>1, <2>3, UpToThree, Zenon
<1>6. StackOK(new)
  BY <1>4, <1>5 DEF StackOK
<1>7. OwnPtr(new) = OwnPtr(s)
  <2>1. CASE Len(s) = 1
    BY <1>3, <2>1 DEF OwnPtr
  <2>2. CASE Len(s) = 2
    BY <1>2, <1>3, <2>2 DEF OwnPtr
  <2> QED BY <1>2, <2>1, <2>2
<1>8. MainAt(new) = MainAt(s)
  BY <1>1, <1>3, <1>4 DEF MainAt
<1> QED BY <1>3, <1>4, <1>6, <1>7, <1>8

\* The heap has made one more call.
CallMade(f) == [f EXCEPT !.nested = @ + 1]

LEMMA CallMadeFrame ==
    ASSUME NEW f \in Frames, FrameOK(f), NEW g, g = CallMade(f)
    PROVE  g \in Frames /\ FrameOK(g) /\ g.at = f.at /\ g.fn = f.fn /\ g.ptr = f.ptr
<1>1. g \in Frames /\ g.at = f.at /\ g.fn = f.fn /\ g.ptr = f.ptr
  BY DEF Frames, CallMade
<1> QED BY <1>1 DEF FrameOK

\* Two frames on top of what is below the first.
TwoOver(f, g, s) == <<f, g>> \o Tail(s)

TwoTopped(s, f, g, new) ==
    /\ new \in Seq(Frames) /\ Len(new) = Len(s) + 1 /\ new[1] = f /\ new[2] = g
    /\ \A i \in 2..Len(s) : new[i + 1] = s[i]

LEMMA TwoOnTop ==
    ASSUME NEW s, StackOK(s), s # << >>, NEW f \in Frames, NEW g \in Frames,
           NEW new, new = TwoOver(f, g, s)
    PROVE  TwoTopped(s, f, g, new)
<1>1. PICK below : below = Tail(s)
  OBVIOUS
<1>2. below \in Seq(Frames) /\ Len(below) = Len(s) - 1 /\ Len(s) \in Nat
      /\ \A i \in 1..(Len(s) - 1) : below[i] = s[i + 1]
  BY <1>1, CallOff, StackFacts
<1>3. PICK two : two = <<f, g>>
  OBVIOUS
<1>4. two \in Seq(Frames) /\ Len(two) = 2 /\ two[1] = f /\ two[2] = g
  BY <1>3
<1>5. new = two \o below
  BY <1>1, <1>3 DEF TwoOver
<1>6. new \in Seq(Frames) /\ Len(new) = 2 + Len(below)
      /\ \A i \in 1..(2 + Len(below)) : new[i] = IF i <= 2 THEN two[i] ELSE below[i - 2]
  <2>1. /\ two \o below \in Seq(Frames) /\ Len(two \o below) = Len(two) + Len(below)
        /\ \A i \in 1..(Len(two) + Len(below)) :
               (two \o below)[i] = IF i <= Len(two) THEN two[i] ELSE below[i - Len(two)]
    BY <1>2, <1>4, ConcatProperties
  <2> QED BY <1>4, <1>5, <2>1
<1>7. new[1] = f /\ new[2] = g
  BY <1>2, <1>4, <1>6
<1>8. ASSUME NEW i \in 2..Len(s) PROVE new[i + 1] = s[i]
  <2>1. i + 1 \in 1..(2 + Len(below)) /\ ~(i + 1 <= 2) /\ (i + 1) - 2 = i - 1
        /\ i - 1 \in 1..(Len(s) - 1) /\ (i - 1) + 1 = i
    BY <1>2
  <2>2. new[i + 1] = below[i - 1]
    BY <1>6, <2>1
  <2>3. below[i - 1] = s[i]
    BY <1>2, <2>1
  <2> QED BY <2>2, <2>3
<1> QED BY <1>2, <1>6, <1>7, <1>8 DEF TwoTopped

\* A thread in the heap is not in a call of the heap.
LEMMA HeapOnTop ==
    ASSUME ShimInv, NEW t \in Threads, InHeap(t)
    PROVE  /\ stack[t] # << >> /\ stack[t][1].at \in {"heap", "create"}
           /\ StackOK(stack[t]) /\ stack[t][1] \in Frames /\ FrameOK(stack[t][1])
           /\ Top(t) = stack[t][1] /\ ~Nested(stack[t])
<1>1. stack[t] # << >> /\ stack[t][1].at \in {"heap", "create"}
  BY AtInCall DEF InHeap
<1> QED BY <1>1, TopFrame

LEMMA NestedAllocateInv ==
    ASSUME ShimInv, NEW t \in Threads, NestedAllocate(t)
    PROVE  ShimInv'
<1>1. /\ InHeap(t) /\ UNCHANGED <<arena, shim_heap, once, shim_busy, owners>>
  BY DEF NestedAllocate
<1>2. /\ stack[t] # << >> /\ stack[t][1].at \in {"heap", "create"}
      /\ StackOK(stack[t]) /\ stack[t][1] \in Frames /\ FrameOK(stack[t][1])
      /\ Top(t) = stack[t][1]
  BY <1>1, HeapOnTop
<1>3. PICK f, g, new : /\ f = calloc(1, NestedSize)
                       /\ g = CallMade(stack[t][1])
                       /\ new = TwoOver(f, g, stack[t])
  OBVIOUS
<1>4. Entering(f) /\ f.fn = "alloc" /\ f \in Frames
  <2>1. NestedSize \in Nat /\ ~(NestedSize > SizeMax \div 1) /\ ArenaAlign \in Nat
    BY ShimAssumption, Constants
  <2>2. PICK fn, p, size : fn = "alloc" /\ p = Null /\ size = 1 * NestedSize
    OBVIOUS
  <2>3. f = Frame(fn, size, ArenaAlign, p)
    BY <1>3, <2>1, <2>2 DEF calloc
  <2>4. /\ fn \in {"alloc", "free", "realloc", "malloc_usable_size"} /\ size \in Nat
        /\ p \in Int \cup {Null} /\ (fn = "alloc" <=> p = Null)
    BY <2>1, <2>2
  <2>5. Entering(f) /\ f.fn = fn
    BY <2>1, <2>3, <2>4, NewFrame
  <2> QED BY <2>2, <2>5 DEF Entering, FrameOK
<1>5. /\ g \in Frames /\ FrameOK(g) /\ g.at = stack[t][1].at /\ g.fn = stack[t][1].fn
      /\ g.ptr = stack[t][1].ptr
  BY <1>2, <1>3, CallMadeFrame
<1>6. /\ new \in Seq(Frames) /\ Len(new) = Len(stack[t]) + 1 /\ new[1] = f /\ new[2] = g
      /\ \A i \in 2..Len(stack[t]) : new[i + 1] = stack[t][i]
  <2>1. f \in Frames /\ g \in Frames /\ new = TwoOver(f, g, stack[t])
        /\ StackOK(stack[t]) /\ stack[t] # << >>
    BY <1>2, <1>3, <1>4, <1>5
  <2>2. TwoTopped(stack[t], f, g, new)
    BY <2>1, TwoOnTop
  <2> QED BY <2>2 DEF TwoTopped
<1>7. /\ StackOK(new) /\ Nested(new) /\ OwnPtr(new) = OwnPtr(stack[t])
      /\ MainAt(new) = MainAt(stack[t])
  BY <1>2, <1>4, <1>5, <1>6, NestedShape
<1>8. stack'[t] = new /\ stack' \in [Threads -> Seq(Frames)]
      /\ \A u \in Threads \ {t} : stack'[u] = stack[u]
  <2>1. stack' = [stack EXCEPT ![t] = new]
    BY <1>2, <1>3 DEF NestedAllocate, CallMade, TwoOver
  <2> QED BY <1>6, <2>1 DEF ShimInv, ShimType
<1>9. Called(t)
  BY <1>1, <1>4, <1>6, <1>7, <1>8 DEF Called, Entering
<1>10. /\ ShimType' /\ ArenaInv' /\ CasInv' /\ BusyInv' /\ OnceInv'
       /\ OthersStay(t) /\ Starts' = Starts
  BY <1>9, CalledInv
<1>11. PtrInv'
  BY <1>1, <1>4, <1>6, <1>7, <1>8, <1>10, PtrKept DEF owners, ShimInv, PtrInv
<1> QED BY <1>10, <1>11 DEF ShimInv

\* The heap frees a pointer of its own: an arena block, which nobody else has.
LEMMA NestedFreeInv ==
    ASSUME ShimInv, NEW t \in Threads, NEW p \in internal, NestedFree(t, p)
    PROVE  ShimInv'
<1>1. /\ InHeap(t) /\ internal' = internal \ {p}
      /\ UNCHANGED <<arena, shim_heap, once, shim_busy, heap_live, program>>
  BY DEF NestedFree
<1>2. /\ stack[t] # << >> /\ stack[t][1].at \in {"heap", "create"}
      /\ StackOK(stack[t]) /\ stack[t][1] \in Frames /\ FrameOK(stack[t][1])
  BY <1>1, HeapOnTop
<1>3. PICK fn, f, new : /\ fn = "free" /\ f = Frame(fn, 0, ArenaAlign, p)
                        /\ new = <<f>> \o stack[t]
  OBVIOUS
<1>4. p \in Starts /\ p \in Int /\ p # Null
  BY StartsApart, Constants DEF ShimInv, PtrInv
<1>5. Entering(f) /\ f.fn = "free" /\ f \in Frames /\ f.ptr = p
  <2>1. fn \in {"alloc", "free", "realloc", "malloc_usable_size"} /\ (fn = "alloc" <=> p = Null)
        /\ 0 \in Nat /\ ArenaAlign \in Nat
    BY <1>3, <1>4, Constants
  <2>2. Entering(f) /\ f.fn = fn /\ f.ptr = p
    BY <1>3, <1>4, <2>1, NewFrame
  <2> QED BY <1>3, <2>2 DEF Entering, FrameOK
<1>6. /\ new \in Seq(Frames) /\ Len(new) = Len(stack[t]) + 1 /\ new[1] = f
      /\ \A i \in 1..Len(stack[t]) : new[i + 1] = stack[t][i]
  BY <1>2, <1>3, <1>5, CallOnTop DEF StackOK
<1>7. /\ StackOK(new) /\ Nested(new) /\ OwnPtr(new) = OwnPtr(stack[t])
      /\ MainAt(new) = MainAt(stack[t])
  <2>1. new[2] = stack[t][1] /\ \A i \in 2..Len(stack[t]) : new[i + 1] = stack[t][i]
    BY <1>2, <1>6, StackFacts
  <2> QED BY <1>2, <1>5, <1>6, <2>1, NestedShape
<1>8. stack'[t] = new /\ stack' \in [Threads -> Seq(Frames)]
      /\ \A u \in Threads \ {t} : stack'[u] = stack[u]
  <2>1. stack' = [stack EXCEPT ![t] = new]
    BY <1>3 DEF NestedFree, Push
  <2> QED BY <1>6, <2>1 DEF ShimInv, ShimType
<1>9. Called(t)
  BY <1>1, <1>5, <1>6, <1>7, <1>8 DEF Called, Entering
<1>10. /\ ShimType' /\ ArenaInv' /\ CasInv' /\ BusyInv' /\ OnceInv'
       /\ OthersStay(t) /\ Starts' = Starts
  BY <1>9, CalledInv
<1>11. PtrInv'
  <2>1. \A u \in Threads : OwnPtr(stack'[u]) = OwnPtr(stack[u])
    BY <1>7, <1>8
  <2>2. {OwnPtr(stack'[u]) : u \in Threads} = {OwnPtr(stack[u]) : u \in Threads}
    BY <2>1
  <2>3. \A u \in Threads :
           Nested(stack'[u]) /\ stack'[u][1].fn = "free" => stack'[u][1].ptr \in Starts
    BY <1>4, <1>5, <1>6, <1>8 DEF ShimInv, PtrInv
  <2> QED BY <1>1, <1>10, <2>1, <2>2, <2>3 DEF ShimInv, PtrInv
<1> QED BY <1>10, <1>11 DEF ShimInv

-----------------------------------------------------------------------------
(***************************************************************************)
(* Calls that end.                                                          *)
(***************************************************************************)
\* The stack is empty again, or the heap's call is gone.
Emptied(t) == stack' = [stack EXCEPT ![t] = << >>]
Popped1(t) == stack' = [stack EXCEPT ![t] = Tail(stack[t])]

LEMMA ReturnCases ==
    ASSUME ShimInv, NEW t \in Threads, stack[t] # << >>, NEW r, NEW given, Return(t, r, given)
    PROVE  /\ Alone(stack[t]) =>
                  /\ Emptied(t) /\ internal' = internal
                  /\ program' = program \cup ({r} \ {Null}) \cup given
           /\ Replacing(stack[t]) =>
                  /\ Emptied(t) /\ internal' = internal
                  /\ program' = program \cup
                         (IF r = Null THEN {OwnPtr(stack[t])} ELSE {r} \ {Null})
           /\ Nested(stack[t]) =>
                  /\ Popped1(t) /\ internal' = internal \cup ({r} \ {Null})
                  /\ program' = program
<1>1. StackOK(stack[t])
  BY TopFrame
<1>2. PICK below : below = Tail(stack[t])
  OBVIOUS
<1>3. /\ Alone(stack[t]) => below = << >> /\ ~Nested(stack[t]) /\ ~Replacing(stack[t])
      /\ Replacing(stack[t]) =>
             /\ below # << >> /\ Head(below) = stack[t][2] /\ Tail(below) = << >>
             /\ stack[t][2].fn = "realloc" /\ stack[t][2].at = "moving"
             /\ OwnPtr(stack[t]) = stack[t][2].ptr /\ ~Nested(stack[t])
      /\ Nested(stack[t]) =>
             below # << >> /\ Head(below) = stack[t][2] /\ stack[t][2].at # "moving"
  BY <1>1, <1>2, Popped
<1>4. CASE Alone(stack[t])
  BY <1>2, <1>3, <1>4 DEF Return, Emptied
<1>5. CASE Replacing(stack[t])
  <2>1. ~(below = << >>) /\ Head(below).fn = "realloc" /\ Head(below).at = "moving"
        /\ Tail(below) = << >> /\ Head(below).ptr = OwnPtr(stack[t])
    BY <1>3, <1>5
  <2> QED BY <1>2, <1>3, <1>5, <2>1 DEF Return, Emptied
<1>6. CASE Nested(stack[t])
  <2>1. ~(below = << >>) /\ ~(Head(below).fn = "realloc" /\ Head(below).at = "moving")
    BY <1>3, <1>6
  <2> QED BY <1>2, <1>3, <1>6, <2>1 DEF Return, Popped1
<1> QED BY <1>4, <1>5, <1>6

\* What the end of a call leaves alone.
LeavesControl(t) ==
    /\ bootstrap_base' = bootstrap_base /\ bootstrap_used' \in Nat
    /\ shim_heap' = shim_heap /\ once' = once
    /\ shim_busy' \in [Threads -> BOOLEAN]
    /\ \A u \in Threads \ {t} : shim_busy'[u] = shim_busy[u]

LEMMA Ended ==
    ASSUME ShimInv, NEW t \in Threads, Emptied(t), LeavesControl(t), ~shim_busy'[t]
    PROVE  /\ OthersStay(t) /\ OwnPtr(stack'[t]) = Null /\ ~Nested(stack'[t])
           /\ ShimType' /\ BusyInv' /\ OnceInv' /\ CasInv'
<1>1. PICK none : none = << >>
  OBVIOUS
<1>2. none \in Seq(Frames) /\ Len(none) = 0
  BY <1>1
<1>3. stack'[t] = none /\ stack' \in [Threads -> Seq(Frames)]
      /\ \A u \in Threads \ {t} : stack'[u] = stack[u]
  BY <1>1, <1>2 DEF Emptied, ShimInv, ShimType
<1>4. OthersStay(t)
  BY <1>3 DEF OthersStay, LeavesControl
<1>5. StackOK(none) /\ OwnPtr(none) = Null /\ ~Nested(none) /\ MainAt(none) = "none"
  BY <1>1, <1>2 DEF StackOK, OwnPtr, Nested, MainAt
<1>6. ShimType' /\ BusyInv' /\ OnceInv'
  <2>1. StackOK(stack'[t]) /\ MainAt(stack'[t]) = "none"
    BY <1>3, <1>5
  <2>2. MainAt(stack'[t]) \notin Initializing /\ MainAt(stack'[t]) # "heap"
        /\ (shim_busy'[t] <=> MainAt(stack'[t]) \in {"heap", "create", "published"})
    BY <2>1 DEF Initializing
  <2> QED BY <1>4, <2>1, <2>2, ControlStep DEF LeavesControl
<1>7. CasInv'
  BY <1>1, <1>3, <1>4, CasStep DEF LeavesControl
<1> QED BY <1>3, <1>4, <1>5, <1>6, <1>7

LEMMA EndedNested ==
    ASSUME ShimInv, NEW t \in Threads, stack[t] # << >>, Nested(stack[t]), Popped1(t),
           LeavesControl(t), shim_busy'[t] = shim_busy[t]
    PROVE  /\ OthersStay(t) /\ OwnPtr(stack'[t]) = OwnPtr(stack[t]) /\ ~Nested(stack'[t])
           /\ ShimType' /\ BusyInv' /\ OnceInv' /\ CasInv'
<1>1. PICK below : below = Tail(stack[t])
  OBVIOUS
<1>2. /\ StackOK(below) /\ ~Nested(below) /\ OwnPtr(below) = OwnPtr(stack[t])
      /\ MainAt(below) = MainAt(stack[t]) /\ below[1] = stack[t][2]
      /\ stack[t][2].at \in {"heap", "create"}
  BY <1>1, TopFrame, Popped DEF Nested
<1>3. stack'[t] = below /\ stack' \in [Threads -> Seq(Frames)]
      /\ \A u \in Threads \ {t} : stack'[u] = stack[u]
  <2>1. below \in Seq(Frames) /\ stack' = [stack EXCEPT ![t] = below]
    BY <1>1, <1>2 DEF Popped1, StackOK
  <2> QED BY <2>1 DEF ShimInv, ShimType
<1>4. OthersStay(t)
  BY <1>3 DEF OthersStay, LeavesControl
<1>5. ShimType' /\ BusyInv' /\ OnceInv'
  <2>1. MainAt(stack'[t]) = MainAt(stack[t]) /\ StackOK(stack'[t])
    BY <1>2, <1>3
  <2>2. /\ shim_busy'[t] <=> MainAt(stack'[t]) \in {"heap", "create", "published"}
        /\ MainAt(stack'[t]) = "heap" => shim_heap
    BY <2>1 DEF ShimInv, BusyInv, OnceInv
  <2> QED BY <1>4, <2>1, <2>2, ControlStep DEF LeavesControl
<1>6. CasInv'
  BY <1>2, <1>3, <1>4, CasStep DEF LeavesControl
<1> QED BY <1>2, <1>3, <1>4, <1>5, <1>6

\* Where a pointer the program gets may come from: it is its own again, new
\* from the arena, or new from the heap.
Offered(t, g) ==
    \/ g = OwnPtr(stack[t]) /\ g # Null
    \/ g \in Starts' \ Starts
    \/ g \in HeapPointers \ heap_live

\* The call's pointer and the new ones go to the program, or are gone.
LEMMA Handover ==
    ASSUME ShimInv, ShimType', ArenaInv', NEW t \in Threads, OthersStay(t),
           OwnPtr(stack'[t]) = Null, ~Nested(stack'[t]), Starts \subseteq Starts',
           NEW G, \A g \in G : Offered(t, g),
           program' = program \cup G, internal' = internal,
           heap_live' = HeapPointers \cap ((heap_live \ {OwnPtr(stack[t])}) \cup G),
           heap_live' # {} => shim_heap'
    PROVE  PtrInv'
<1>1. /\ internal \subseteq Starts /\ program \subseteq Starts \cup HeapPointers
      /\ internal \cap program = {}
      /\ \A u \in Threads :
             /\ OwnPtr(stack[u]) \in {Null} \cup Starts \cup HeapPointers
             /\ OwnPtr(stack[u]) \notin program \cup internal
             /\ Nested(stack[u]) /\ stack[u][1].fn = "free" => stack[u][1].ptr \in Starts
      /\ \A u, v \in Threads :
             u # v /\ OwnPtr(stack[u]) # Null => OwnPtr(stack[u]) # OwnPtr(stack[v])
      /\ heap_live = HeapPointers \cap (program \cup {OwnPtr(stack[u]) : u \in Threads})
  BY DEF ShimInv, PtrInv
<1>2. /\ Starts' \cap HeapPointers = {} /\ Null \notin Starts' \cup HeapPointers
  BY StartsApartNext
<1>3. \A u \in Threads \ {t} : stack'[u] = stack[u]
  BY DEF OthersStay
<1>4. ASSUME NEW g \in G
      PROVE  /\ g \in Starts' \cup HeapPointers /\ g \notin internal
             /\ \A u \in Threads \ {t} : g # OwnPtr(stack[u])
  <2>1. CASE g = OwnPtr(stack[t]) /\ g # Null
    BY <1>1, <2>1
  <2>2. CASE g \in Starts' \ Starts
    BY <1>1, <1>2, <2>2
  <2>3. CASE g \in HeapPointers \ heap_live
    BY <1>1, <1>2, <2>3
  <2> QED BY <2>1, <2>2, <2>3 DEF Offered
<1>5. /\ internal' \subseteq Starts' /\ program' \subseteq Starts' \cup HeapPointers
      /\ internal' \cap program' = {}
  BY <1>1, <1>4
<1>6. ASSUME NEW u \in Threads
      PROVE  /\ OwnPtr(stack'[u]) \in {Null} \cup Starts' \cup HeapPointers
             /\ OwnPtr(stack'[u]) \notin program' \cup internal'
             /\ Nested(stack'[u]) /\ stack'[u][1].fn = "free" => stack'[u][1].ptr \in Starts'
  <2>1. CASE u = t
    BY <1>2, <1>5, <2>1
  <2>2. CASE u # t
    BY <1>1, <1>3, <1>4, <2>2
  <2> QED BY <2>1, <2>2
<1>7. \A u, v \in Threads :
         u # v /\ OwnPtr(stack'[u]) # Null => OwnPtr(stack'[u]) # OwnPtr(stack'[v])
  BY <1>1, <1>3
<1>8. ASSUME NEW q \in HeapPointers
      PROVE  q \in heap_live' <=> q \in program' \/ \E u \in Threads : q = OwnPtr(stack'[u])
  <2>1. q \in heap_live <=> q \in program \/ \E u \in Threads : q = OwnPtr(stack[u])
    BY <1>1
  <2>2. q # Null
    BY <1>2
  <2>3. CASE q = OwnPtr(stack[t])
    <3>1. q \notin program /\ \A u \in Threads \ {t} : q # OwnPtr(stack[u])
      BY <1>1, <2>2, <2>3
    <3> QED BY <1>3, <2>2, <2>3, <3>1
  <2>4. CASE q # OwnPtr(stack[t])
    BY <1>3, <2>1, <2>2, <2>4
  <2> QED BY <2>3, <2>4
<1>9. heap_live' = HeapPointers \cap (program' \cup {OwnPtr(stack'[u]) : u \in Threads})
  BY <1>8
<1> QED BY <1>5, <1>6, <1>7, <1>9 DEF PtrInv

\* The heap gets a new block of the arena, or nothing.
LEMMA HandoverNested ==
    ASSUME ShimInv, ShimType', ArenaInv', NEW t \in Threads, OthersStay(t),
           OwnPtr(stack'[t]) = OwnPtr(stack[t]), ~Nested(stack'[t]), Starts \subseteq Starts',
           NEW G, G \subseteq Starts' \ Starts,
           program' = program, internal' = internal \cup G, heap_live' = heap_live,
           shim_heap' = shim_heap
    PROVE  PtrInv'
<1>1. /\ Starts' \cap HeapPointers = {} /\ Null \notin Starts' \cup HeapPointers
  BY StartsApartNext
<1>2. \A u \in Threads : OwnPtr(stack'[u]) = OwnPtr(stack[u])
  BY DEF OthersStay
<1>3. {OwnPtr(stack'[u]) : u \in Threads} = {OwnPtr(stack[u]) : u \in Threads}
  BY <1>2
<1>4. \A u \in Threads :
         Nested(stack'[u]) /\ stack'[u][1].fn = "free" => stack'[u][1].ptr \in Starts'
  BY DEF ShimInv, PtrInv, OthersStay
<1>5. \A g \in G : g \notin program /\ \A u \in Threads : g # OwnPtr(stack[u])
  BY <1>1 DEF ShimInv, PtrInv
<1> QED BY <1>2, <1>3, <1>4, <1>5 DEF ShimInv, PtrInv

-----------------------------------------------------------------------------
(***************************************************************************)
(* Routing.                                                                 *)
(***************************************************************************)
\* Outside the heap and shim_init the flag is set for the heap's own calls only.
LEMMA BusyIsNested ==
    ASSUME ShimInv, NEW t \in Threads, stack[t] # << >>,
           stack[t][1].at \in {"enter", "once", "ready", "arena", "cas"}
    PROVE  /\ shim_busy[t] <=> Nested(stack[t])
           /\ shim_busy[t] \in BOOLEAN
<1>1. Nested(stack[t]) => MainAt(stack[t]) \in {"heap", "create"}
  BY DEF MainAt, Nested
<1>2. ~Nested(stack[t]) => MainAt(stack[t]) = stack[t][1].at
  BY DEF MainAt
<1> QED BY <1>1, <1>2 DEF ShimInv, BusyInv, ShimType

\* A label that fits the function.
LEMMA LabelFits ==
    ASSUME NEW f, FrameOK(f), NEW l \in Labels, l # "moving",
           f.fn \in {"free", "malloc_usable_size"} => l \in {"enter", "heap"},
           f.fn = "realloc" => l \notin {"arena", "cas"},
           f.fn # "alloc" /\ l # "enter" => f.ptr \in HeapPointers
    PROVE  FrameOK(Labelled(f, l))
<1>1. PICK g : g = Labelled(f, l)
  OBVIOUS
<1>2. f \in Frames
  BY DEF FrameOK
<1>3. g \in Frames /\ g.at = l /\ g.fn = f.fn /\ g.ptr = f.ptr
  BY <1>1, <1>2 DEF Labelled, Frames
<1>4. FrameOK(g)
  BY <1>3 DEF FrameOK
<1> QED BY <1>1, <1>4

\* The first test of shim_ready, in a call that is not the heap's own.
LEMMA ReadyInv ==
    ASSUME ShimInv, NEW t \in Threads, stack[t] # << >>, stack[t][1].at = "enter",
           ~Nested(stack[t]), stack[t][1].fn \in {"alloc", "realloc"},
           stack[t][1].fn # "alloc" => stack[t][1].ptr \in HeapPointers,
           Ready(t), UNCHANGED <<arena, shim_heap, once, owners>>
    PROVE  ShimInv'
<1>1. CASE shim_heap
  BY <1>1, PassToHeapInv DEF Ready
<1>2. CASE ~shim_heap
  <2>1. PICK l : l = "once"
    OBVIOUS
  <2>2. Goto(t, l) /\ shim_busy' = shim_busy
    BY <1>2, <2>1 DEF Ready
  <2>3. FrameOK(Labelled(stack[t][1], l))
    BY <2>1, TopFrame, LabelFits DEF Labels
  <2>4. ~shim_busy[t]
    BY BusyIsNested
  <2> QED BY <2>1, <2>2, <2>3, <2>4, GotoInv
<1> QED BY <1>1, <1>2

LEMMA EnterAllocateInv ==
    ASSUME ShimInv, NEW t \in Threads, EnterAllocate(t)
    PROVE  ShimInv'
<1>1. stack[t] # << >> /\ stack[t][1].at = "enter"
  BY AtInCall DEF EnterAllocate
<1>2. stack[t][1].fn = "alloc" /\ UNCHANGED <<arena, shim_heap, once, owners>>
  BY <1>1, TopFrame DEF EnterAllocate
<1>3. shim_busy[t] <=> Nested(stack[t])
  BY <1>1, BusyIsNested
<1>4. CASE shim_busy[t]
  <2>1. PICK l : l = "arena"
    OBVIOUS
  <2>2. Goto(t, l) /\ shim_busy' = shim_busy
    BY <1>4, <2>1 DEF EnterAllocate
  <2>3. FrameOK(Labelled(stack[t][1], l))
    BY <1>1, <1>2, <2>1, TopFrame, LabelFits DEF Labels
  <2> QED BY <1>1, <1>2, <1>3, <1>4, <2>1, <2>2, <2>3, GotoInv
<1>5. CASE ~shim_busy[t]
  <2>1. Ready(t)
    BY <1>5 DEF EnterAllocate
  <2> QED BY <1>1, <1>2, <1>3, <1>5, <2>1, ReadyInv
<1> QED BY <1>4, <1>5

\* realloc and the others that are given a pointer: one of the program's.
LEMMA GivenPointer ==
    ASSUME ShimInv, NEW t \in Threads, stack[t] # << >>, ~Nested(stack[t]),
           stack[t][1].fn # "alloc"
    PROVE  /\ Alone(stack[t]) /\ OwnPtr(stack[t]) = stack[t][1].ptr
           /\ stack[t][1].ptr \in Starts \cup HeapPointers
           /\ from_bootstrap(stack[t][1].ptr) <=> stack[t][1].ptr \notin HeapPointers
<1>1. Alone(stack[t]) /\ OwnPtr(stack[t]) = stack[t][1].ptr /\ FrameOK(stack[t][1])
  BY TopFrame
<1>2. stack[t][1].ptr # Null
  BY <1>1 DEF FrameOK
<1>3. stack[t][1].ptr \in Starts \cup HeapPointers
  BY <1>1, <1>2 DEF ShimInv, PtrInv
<1> QED BY <1>1, <1>3, StartsApart DEF ShimInv

\* realloc of an arena block calls malloc.
LEMMA MovingShape ==
    ASSUME NEW s, StackOK(s), s # << >>, Alone(s), s[1].fn = "realloc",
           s[1].ptr \notin HeapPointers,
           NEW f, Entering(f), f.fn = "alloc",
           NEW g, g = Labelled(s[1], "moving"), NEW new, TwoTopped(s, f, g, new)
    PROVE  /\ StackOK(new) /\ new # << >> /\ new[1] = f /\ ~Nested(new)
           /\ OwnPtr(new) = OwnPtr(s) /\ MainAt(new) = "enter"
<1>1. s[1] \in Frames /\ FrameOK(s[1]) /\ Len(s) = 1
  BY StackFacts DEF StackOK, Alone
<1>2. g \in Frames /\ g.at = "moving" /\ g.fn = s[1].fn /\ g.ptr = s[1].ptr
  BY <1>1 DEF Labelled, Frames, Labels
<1>3. FrameOK(g)
  BY <1>1, <1>2 DEF FrameOK
<1>4. new \in Seq(Frames) /\ Len(new) = 2 /\ new[1] = f /\ new[2] = g
  BY <1>1 DEF TwoTopped
<1>5. Replacing(new) /\ ~Nested(new) /\ new # << >>
  <2>1. new # << >>
    BY <1>4
  <2>2. Replacing(new)
    BY <1>2, <1>4 DEF Replacing
  <2>3. ~Nested(new)
    BY <1>2, <1>4 DEF Nested
  <2> QED BY <2>1, <2>2, <2>3
<1>6. \A i \in 1..Len(new) : FrameOK(new[i])
  BY <1>3, <1>4 DEF Entering
<1>7. StackOK(new)
  BY <1>4, <1>5, <1>6 DEF StackOK
<1>8. OwnPtr(new) = OwnPtr(s) /\ MainAt(new) = "enter"
  BY <1>1, <1>2, <1>4, <1>5 DEF OwnPtr, MainAt, Entering
<1> QED BY <1>4, <1>5, <1>7, <1>8

LEMMA EnterReallocInv ==
    ASSUME ShimInv, NEW t \in Threads, EnterRealloc(t)
    PROVE  ShimInv'
<1>1. stack[t] # << >> /\ stack[t][1].at = "enter"
  BY AtInCall DEF EnterRealloc
<1>2. /\ stack[t][1].fn = "realloc" /\ Top(t) = stack[t][1] /\ StackOK(stack[t])
      /\ stack[t][1] \in Frames /\ FrameOK(stack[t][1])
      /\ UNCHANGED <<arena, shim_heap, once, owners>>
  BY <1>1, TopFrame DEF EnterRealloc
<1>3. ~Nested(stack[t])
  BY <1>2 DEF Nested
<1>4. /\ Alone(stack[t])
      /\ from_bootstrap(stack[t][1].ptr) <=> stack[t][1].ptr \notin HeapPointers
  BY <1>1, <1>2, <1>3, GivenPointer
<1>5. CASE ~from_bootstrap(stack[t][1].ptr)
  <2>1. Ready(t)
    BY <1>2, <1>5 DEF EnterRealloc
  <2> QED BY <1>1, <1>2, <1>3, <1>4, <1>5, <2>1, ReadyInv
<1>6. CASE from_bootstrap(stack[t][1].ptr)
  <2>1. PICK f, g, new : /\ f = malloc(stack[t][1].size)
                         /\ g = Labelled(stack[t][1], "moving")
                         /\ new = TwoOver(f, g, stack[t])
    OBVIOUS
  <2>2. Entering(f) /\ f.fn = "alloc" /\ f \in Frames
    <3>1. PICK fn, p, size : fn = "alloc" /\ p = Null /\ size = stack[t][1].size
      OBVIOUS
    <3>2. f = Frame(fn, size, ArenaAlign, p)
      BY <2>1, <3>1 DEF malloc
    <3>3. /\ fn \in {"alloc", "free", "realloc", "malloc_usable_size"} /\ size \in Nat
          /\ p \in Int \cup {Null} /\ (fn = "alloc" <=> p = Null) /\ ArenaAlign \in Nat
      BY <1>2, <3>1, Constants DEF Frames
    <3>4. Entering(f) /\ f.fn = fn
      BY <3>2, <3>3, NewFrame
    <3> QED BY <3>1, <3>4 DEF Entering, FrameOK
  <2>3. g \in Frames
    BY <1>2, <2>1 DEF Labelled, Frames, Labels
  <2>4. TwoTopped(stack[t], f, g, new)
    BY <1>1, <1>2, <2>1, <2>2, <2>3, TwoOnTop
  <2>5. /\ StackOK(new) /\ new[1] = f /\ ~Nested(new)
        /\ OwnPtr(new) = OwnPtr(stack[t]) /\ MainAt(new) = "enter"
    BY <1>1, <1>2, <1>4, <1>6, <2>1, <2>2, <2>4, MovingShape
  <2>6. stack' = [stack EXCEPT ![t] = new] /\ shim_busy' = shim_busy
    BY <1>2, <1>6, <2>1 DEF EnterRealloc, TwoOver, Labelled
  <2>7. stack'[t] = new /\ stack' \in [Threads -> Seq(Frames)]
        /\ \A u \in Threads \ {t} : stack'[u] = stack[u]
    BY <2>5, <2>6 DEF ShimInv, ShimType, StackOK
  <2>8. ~shim_busy[t]
    BY <1>1, <1>3, BusyIsNested
  <2>9. Called(t)
    BY <1>2, <2>2, <2>5, <2>6, <2>7, <2>8 DEF Called, Entering
  <2>10. /\ ShimType' /\ ArenaInv' /\ CasInv' /\ BusyInv' /\ OnceInv'
         /\ OthersStay(t) /\ Starts' = Starts
    BY <2>9, CalledInv
  <2>11. PtrInv'
    BY <1>2, <2>5, <2>7, <2>10, PtrKept DEF owners, ShimInv, PtrInv
  <2> QED BY <2>10, <2>11 DEF ShimInv
<1> QED BY <1>5, <1>6

\* A call that gives nothing new returns: its pointer goes back to the program
\* or, where it is no block of the heap, is gone.
LEMMA ReturnsOwn ==
    ASSUME ShimInv, NEW t \in Threads, stack[t] # << >>, ~Nested(stack[t]), Emptied(t),
           LeavesControl(t), ~shim_busy'[t],
           bootstrap_used' = bootstrap_used, blocks' = blocks,
           NEW G, G \subseteq {OwnPtr(stack[t])}, Null \notin G,
           OwnPtr(stack[t]) \in HeapPointers => G # {},
           program' = program \cup G, internal' = internal, heap_live' = heap_live
    PROVE  ShimInv'
<1>1. /\ OthersStay(t) /\ OwnPtr(stack'[t]) = Null /\ ~Nested(stack'[t])
      /\ ShimType' /\ BusyInv' /\ OnceInv' /\ CasInv'
  BY Ended
<1>2. ArenaInv' /\ Starts' = Starts
  BY ArenaKept DEF LeavesControl
<1>3. \A g \in G : Offered(t, g)
  BY DEF Offered
<1>4. heap_live' = HeapPointers \cap ((heap_live \ {OwnPtr(stack[t])}) \cup G)
  <2>1. heap_live = HeapPointers \cap (program \cup {OwnPtr(stack[u]) : u \in Threads})
    BY DEF ShimInv, PtrInv
  <2>2. OwnPtr(stack[t]) \in HeapPointers => OwnPtr(stack[t]) \in heap_live /\ OwnPtr(stack[t]) \in G
    BY <2>1
  <2> QED BY <2>1, <2>2
<1>5. heap_live' # {} => shim_heap'
  BY DEF ShimInv, PtrInv, LeavesControl
<1>6. PtrInv'
  BY <1>1, <1>2, <1>3, <1>4, <1>5, Handover
<1> QED BY <1>1, <1>2, <1>6 DEF ShimInv

\* A call of the heap that gets nothing returns to it.
LEMMA ReturnsNested ==
    ASSUME ShimInv, NEW t \in Threads, stack[t] # << >>, Nested(stack[t]), Popped1(t),
           LeavesControl(t), shim_busy'[t] = shim_busy[t],
           bootstrap_used' = bootstrap_used, blocks' = blocks,
           program' = program, internal' = internal, heap_live' = heap_live
    PROVE  ShimInv'
<1>1. /\ OthersStay(t) /\ OwnPtr(stack'[t]) = OwnPtr(stack[t]) /\ ~Nested(stack'[t])
      /\ ShimType' /\ BusyInv' /\ OnceInv' /\ CasInv'
  BY EndedNested
<1>2. ArenaInv' /\ Starts' = Starts
  BY ArenaKept DEF LeavesControl
<1>3. PICK G : G = {}
  OBVIOUS
<1>4. internal' = internal \cup G /\ G \subseteq Starts' \ Starts /\ Starts \subseteq Starts'
      /\ shim_heap' = shim_heap
  BY <1>2, <1>3 DEF LeavesControl
<1>5. PtrInv'
  BY <1>1, <1>2, <1>4, HandoverNested
<1> QED BY <1>1, <1>2, <1>5 DEF ShimInv

\* free and malloc_usable_size: a block of the heap reaches the heap, for where
\* one is allocated there is a heap; the heap's own pointers stay in the arena.
LEMMA EnterFreeInv ==
    ASSUME ShimInv, NEW t \in Threads, EnterFree(t)
    PROVE  ShimInv'
<1>1. stack[t] # << >> /\ stack[t][1].at = "enter"
  BY AtInCall DEF EnterFree
<1>2. PICK f, kept : f = stack[t][1] /\ kept = IF f.fn = "free" THEN {} ELSE {f.ptr}
  OBVIOUS
<1>3. /\ f.fn \in {"free", "malloc_usable_size"} /\ FrameOK(f)
      /\ IF from_bootstrap(f.ptr) \/ ~shim_heap
         THEN Return(t, Null, kept) /\ shim_busy' = shim_busy
         ELSE PassToHeap(t) /\ internal' = internal /\ program' = program
      /\ UNCHANGED <<arena, shim_heap, once, heap_live>>
  BY <1>1, <1>2, TopFrame DEF EnterFree
<1>4. shim_busy[t] <=> Nested(stack[t])
  BY <1>1, BusyIsNested
<1>5. CASE Nested(stack[t])
  <2>1. f.fn = "free" /\ f.ptr \in Starts
    BY <1>2, <1>3, <1>5 DEF Nested, ShimInv, PtrInv
  <2>2. Return(t, Null, kept) /\ shim_busy' = shim_busy
    BY <1>3, <2>1, StartsApart DEF ShimInv
  <2>3. Popped1(t) /\ internal' = internal /\ program' = program
    BY <1>1, <1>5, <2>2, ReturnCases
  <2>4. LeavesControl(t)
    BY <1>3, <2>2 DEF LeavesControl, arena, ShimInv, ShimType
  <2> QED BY <1>1, <1>3, <1>5, <2>2, <2>3, <2>4, ReturnsNested DEF arena
<1>6. CASE ~Nested(stack[t])
  <2>1. /\ Alone(stack[t]) /\ OwnPtr(stack[t]) = f.ptr /\ f.ptr # Null
        /\ from_bootstrap(f.ptr) <=> f.ptr \notin HeapPointers
    BY <1>1, <1>2, <1>3, <1>6, GivenPointer DEF FrameOK
  <2>2. f.ptr \in HeapPointers => shim_heap
    BY <2>1 DEF ShimInv, PtrInv
  <2>3. CASE f.ptr \in HeapPointers
    <3>1. PassToHeap(t) /\ UNCHANGED <<arena, shim_heap, once, owners>> /\ shim_heap
      BY <1>3, <2>1, <2>2, <2>3 DEF owners
    <3> QED BY <1>1, <1>2, <1>6, <2>3, <3>1, PassToHeapInv
  <2>4. CASE f.ptr \notin HeapPointers
    <3>1. Return(t, Null, kept) /\ shim_busy' = shim_busy
      BY <1>3, <2>1, <2>4
    <3>2. Emptied(t) /\ internal' = internal /\ program' = program \cup kept
      BY <1>1, <2>1, <3>1, ReturnCases
    <3>3. LeavesControl(t)
      BY <1>3, <3>1 DEF LeavesControl, arena, ShimInv, ShimType
    <3>4. kept \subseteq {OwnPtr(stack[t])} /\ Null \notin kept
      BY <1>2, <2>1
    <3>5. ~shim_busy'[t]
      BY <1>4, <1>6, <3>1
    <3>6. bootstrap_used' = bootstrap_used /\ blocks' = blocks /\ heap_live' = heap_live
      BY <1>3 DEF arena
    <3> QED BY <1>1, <1>6, <2>1, <2>4, <3>2, <3>3, <3>4, <3>5, <3>6, ReturnsOwn
  <2> QED BY <2>3, <2>4
<1> QED BY <1>5, <1>6

\* The result of shim_ready.
LEMMA EnterHeapInv ==
    ASSUME ShimInv, NEW t \in Threads, EnterHeap(t)
    PROVE  ShimInv'
<1>1. stack[t] # << >> /\ stack[t][1].at = "ready"
  BY AtInCall DEF EnterHeap
<1>2. /\ FrameOK(stack[t][1]) /\ Top(t) = stack[t][1] /\ ~Nested(stack[t])
      /\ UNCHANGED <<arena, shim_heap, once, heap_live>>
  BY <1>1, TopFrame DEF EnterHeap
<1>3. /\ stack[t][1].fn \in {"alloc", "realloc"}
      /\ stack[t][1].fn # "alloc" => stack[t][1].ptr \in HeapPointers
  BY <1>1, <1>2 DEF FrameOK, Frames
<1>4. ~shim_busy[t]
  BY <1>1, <1>2, BusyIsNested
<1>5. CASE shim_heap
  <2>1. PassToHeap(t) /\ UNCHANGED <<internal, program>>
    BY <1>5 DEF EnterHeap
  <2> QED BY <1>1, <1>2, <1>3, <1>5, <2>1, PassToHeapInv DEF owners
<1>6. CASE ~shim_heap /\ stack[t][1].fn = "alloc"
  <2>1. PICK l : l = "arena"
    OBVIOUS
  <2>2. Goto(t, l) /\ UNCHANGED <<internal, program, shim_busy>>
    BY <1>2, <1>6, <2>1 DEF EnterHeap
  <2>3. FrameOK(Labelled(stack[t][1], l))
    BY <1>2, <1>6, <2>1, LabelFits DEF Labels
  <2> QED BY <1>1, <1>2, <1>4, <1>6, <2>1, <2>2, <2>3, GotoInv DEF owners
<1>7. CASE ~shim_heap /\ stack[t][1].fn # "alloc"
  <2>1. PICK p : p = stack[t][1].ptr
    OBVIOUS
  <2>2. Return(t, Null, {p}) /\ shim_busy' = shim_busy
    BY <1>2, <1>7, <2>1 DEF EnterHeap
  <2>3. Alone(stack[t]) /\ OwnPtr(stack[t]) = p /\ p # Null
    BY <1>1, <1>2, <1>7, <2>1, GivenPointer DEF FrameOK
  <2>4. PICK G : G = {p}
    OBVIOUS
  <2>5. Emptied(t) /\ internal' = internal /\ program' = program \cup G
    BY <1>1, <2>2, <2>3, <2>4, ReturnCases
  <2>6. LeavesControl(t) /\ ~shim_busy'[t]
    BY <1>2, <1>4, <2>2 DEF LeavesControl, arena, ShimInv, ShimType
  <2>7. G \subseteq {OwnPtr(stack[t])} /\ Null \notin G /\ G # {}
    BY <2>3, <2>4
  <2>8. bootstrap_used' = bootstrap_used /\ blocks' = blocks /\ heap_live' = heap_live
    BY <1>2 DEF arena
  <2> QED BY <1>1, <1>2, <2>5, <2>6, <2>7, <2>8, ReturnsOwn
<1> QED BY <1>5, <1>6, <1>7

-----------------------------------------------------------------------------
(***************************************************************************)
(* pthread_once and shim_init.                                              *)
(***************************************************************************)
\* A step into, within or out of shim_init.
LEMMA InitStep ==
    ASSUME ShimInv, NEW t \in Threads, NEW f, Continues(t, f), BusyFollows(t, f),
           ~Nested(stack[t]), f.at # "cas", OnceInv',
           bootstrap_used' = bootstrap_used, blocks' = blocks, UNCHANGED owners,
           \/ bootstrap_base' = bootstrap_base
           \/ bootstrap_base = Null /\ bootstrap_base' \in {Null, ArenaBase},
           shim_heap' \in BOOLEAN, shim_heap => shim_heap',
           once' \in {"new", "running", "done"}
    PROVE  ShimInv'
<1>1. /\ OthersStay(t) /\ StackOK(stack'[t]) /\ stack'[t][1] = f
      /\ shim_busy'[t] <=> MainAt(stack'[t]) \in {"heap", "create", "published"}
  BY ContinueShape
<1>2. ShimType'
  BY <1>1 DEF ShimInv, ShimType, OthersStay
<1>3. BusyInv'
  BY <1>1 DEF ShimInv, BusyInv, OthersStay
<1>4. Starts' = Starts
  BY DEF Starts
<1>5. ArenaInv'
  <2>1. blocks # {} => bootstrap_base' = ArenaBase
    BY Constants DEF ShimInv, ArenaInv
  <2> QED BY <1>4, <2>1 DEF ShimInv, ArenaInv, BlockOK
<1>6. CasInv'
  <2>1. CASE bootstrap_base' = bootstrap_base
    BY <1>1, <2>1, CasStep
  <2>2. CASE bootstrap_base = Null
    <3>1. \A current, size, align : Refused(current, size, align)
      BY <2>2 DEF Refused
    <3>2. \A u \in Threads : stack[u] = << >> \/ stack[u][1].at # "cas"
      BY <3>1 DEF ShimInv, CasInv
    <3> QED BY <1>1, <3>2 DEF CasInv, OthersStay
  <2> QED BY <2>1, <2>2
<1>7. PtrInv'
  <2>1. internal' = internal /\ program' = program /\ heap_live' = heap_live
        /\ (heap_live # {} => shim_heap')
    BY DEF owners, ShimInv, PtrInv
  <2> QED BY <1>4, <2>1, ContinuePtr
<1> QED BY <1>2, <1>3, <1>5, <1>6, <1>7 DEF ShimInv

\* Only the call that is not the heap's own is ever on the way through shim_init.
LEMMA OnTheWay ==
    ASSUME ShimInv, NEW t \in Threads, NEW l, At(t, l),
           l \in {"once", "init", "create", "published"}
    PROVE  /\ stack[t] # << >> /\ ~Nested(stack[t]) /\ MainAt(stack[t]) = l
           /\ stack[t][1].at = l /\ FrameOK(stack[t][1])
           /\ stack[t][1].fn # "alloc" => stack[t][1].ptr \in HeapPointers
           /\ stack[t][1].fn \in {"alloc", "realloc"}
<1>1. stack[t] # << >> /\ stack[t][1].at = l
  BY AtInCall
<1>2. ~Nested(stack[t]) /\ FrameOK(stack[t][1])
  BY <1>1, TopFrame
<1>3. /\ stack[t][1].fn # "alloc" => stack[t][1].ptr \in HeapPointers
      /\ stack[t][1].fn \in {"alloc", "realloc"}
  BY <1>1, <1>2 DEF FrameOK, Frames
<1> QED BY <1>1, <1>2, <1>3 DEF MainAt

\* The step to the next label of shim_init.
LEMMA WayOn ==
    ASSUME ShimInv, NEW t \in Threads, NEW l, At(t, l),
           l \in {"once", "init", "create", "published"},
           NEW next \in {"init", "create", "published", "ready"}, Goto(t, next),
           shim_busy' \in [Threads -> BOOLEAN],
           \A u \in Threads \ {t} : shim_busy'[u] = shim_busy[u],
           shim_busy'[t] <=> next \in {"create", "published"}
    PROVE  \E f : /\ Continues(t, f) /\ BusyFollows(t, f) /\ f.at = next
                  /\ MainAt(stack'[t]) = next
                  /\ \A u \in Threads \ {t} : stack'[u] = stack[u]
<1>1. /\ stack[t] # << >> /\ ~Nested(stack[t]) /\ FrameOK(stack[t][1])
      /\ stack[t][1].fn # "alloc" => stack[t][1].ptr \in HeapPointers
      /\ stack[t][1].fn \in {"alloc", "realloc"}
  BY OnTheWay
<1>2. PICK f : f = Labelled(stack[t][1], next)
  OBVIOUS
<1>3. FrameOK(f) /\ next \in Labels /\ next # "moving"
  BY <1>1, <1>2, LabelFits DEF Labels
<1>4. Continues(t, f) /\ f.at = next
  BY <1>1, <1>2, <1>3, GotoContinues
<1>5. BusyFollows(t, f)
  BY <1>1, <1>4 DEF BusyFollows
<1>6. MainAt(stack'[t]) = next
  BY <1>1, <1>4, <1>5, ContinueShape
<1> QED BY <1>4, <1>5, <1>6 DEF Continues

LEMMA OnceStepInv ==
    ASSUME ShimInv, NEW t \in Threads, Once(t)
    PROVE  ShimInv'
<1>1. /\ At(t, "once") /\ once # "running"
      /\ once' = IF once = "new" THEN "running" ELSE once
      /\ Goto(t, IF once = "new" THEN "init" ELSE "ready")
      /\ UNCHANGED <<arena, shim_heap, shim_busy, owners>>
  BY DEF Once
<1>2. /\ stack[t] # << >> /\ ~Nested(stack[t]) /\ MainAt(stack[t]) = "once"
      /\ stack[t][1].at = "once" /\ FrameOK(stack[t][1])
      /\ stack[t][1].fn # "alloc" => stack[t][1].ptr \in HeapPointers
      /\ stack[t][1].fn \in {"alloc", "realloc"}
  BY <1>1, OnTheWay
<1>3. ~shim_busy[t] /\ shim_busy \in [Threads -> BOOLEAN]
  BY <1>2, BusyIsNested DEF ShimInv, ShimType
<1>4. CASE once = "new"
  <2>1. PICK l, next : l = "once" /\ next = "init"
    OBVIOUS
  <2>2. Goto(t, next) /\ At(t, l) /\ once' = "running"
    BY <1>1, <1>4, <2>1
  <2>3. shim_busy' = shim_busy /\ (shim_busy'[t] <=> next \in {"create", "published"})
    BY <1>1, <1>3, <2>1
  <2>4. PICK f : /\ Continues(t, f) /\ BusyFollows(t, f) /\ f.at = next
                 /\ MainAt(stack'[t]) = next
                 /\ \A u \in Threads \ {t} : stack'[u] = stack[u]
    BY <1>3, <2>1, <2>2, <2>3, WayOn
  <2>5. OnceInv'
    <3>1. \A u \in Threads \ {t} : MainAt(stack'[u]) \notin Initializing /\ MainAt(stack'[u]) # "heap"
      BY <1>4, <2>4 DEF ShimInv, OnceInv
    <3>2. bootstrap_base' = Null /\ ~shim_heap'
      BY <1>1, <1>4 DEF ShimInv, OnceInv, arena
    <3>3. \A u \in Threads : MainAt(stack'[u]) # "heap"
      BY <2>1, <2>4, <3>1
    <3>4. \A u \in Threads : MainAt(stack'[u]) \in Initializing => u = t
      BY <3>1
    <3> QED BY <2>2, <3>2, <3>3, <3>4 DEF OnceInv
  <2>6. /\ bootstrap_base' = bootstrap_base /\ bootstrap_used' = bootstrap_used
        /\ blocks' = blocks /\ shim_heap' = shim_heap /\ shim_heap \in BOOLEAN
        /\ UNCHANGED owners /\ f.at # "cas" /\ once' \in {"new", "running", "done"}
    BY <1>1, <2>1, <2>2, <2>4 DEF arena, ShimInv, ShimType
  <2> QED BY <1>2, <2>4, <2>5, <2>6, InitStep
<1>5. CASE once # "new"
  <2>1. PICK l : l = "ready"
    OBVIOUS
  <2>2. Goto(t, l) /\ once' = once /\ shim_busy' = shim_busy
    BY <1>1, <1>5, <2>1
  <2>3. FrameOK(Labelled(stack[t][1], l))
    BY <1>2, <2>1, LabelFits DEF Labels
  <2>4. UNCHANGED <<arena, shim_heap, once, owners>>
    BY <1>1, <2>2
  <2> QED BY <1>2, <1>3, <2>1, <2>2, <2>3, <2>4, GotoInv
<1> QED BY <1>4, <1>5

\* The thread in shim_init is alone in it.
LEMMA AloneInInit ==
    ASSUME ShimInv, NEW t \in Threads, MainAt(stack[t]) \in Initializing
    PROVE  /\ once = "running"
           /\ \A u \in Threads \ {t} : MainAt(stack[u]) \notin Initializing
BY DEF ShimInv, OnceInv

LEMMA InitMapInv ==
    ASSUME ShimInv, NEW t \in Threads, InitMap(t)
    PROVE  ShimInv'
<1>1. PICK l, next : l = "init" /\ next = "create"
  OBVIOUS
<1>2. /\ At(t, l) /\ Goto(t, next) /\ bootstrap_base' \in {Null, ArenaBase}
      /\ shim_busy' = [shim_busy EXCEPT ![t] = TRUE]
      /\ UNCHANGED <<bootstrap_used, blocks, shim_heap, once, owners>>
  BY <1>1 DEF InitMap
<1>3. ~Nested(stack[t]) /\ MainAt(stack[t]) = "init"
  BY <1>1, <1>2, OnTheWay
<1>4. /\ shim_busy' \in [Threads -> BOOLEAN] /\ shim_busy'[t]
      /\ \A u \in Threads \ {t} : shim_busy'[u] = shim_busy[u]
  BY <1>2 DEF ShimInv, ShimType
<1>5. PICK f : /\ Continues(t, f) /\ BusyFollows(t, f) /\ f.at = next
               /\ MainAt(stack'[t]) = next
               /\ \A u \in Threads \ {t} : stack'[u] = stack[u]
  BY <1>1, <1>2, <1>4, WayOn
<1>6. once = "running" /\ bootstrap_base = Null /\ ~shim_heap
      /\ \A u \in Threads \ {t} : MainAt(stack[u]) \notin Initializing
  BY <1>3, AloneInInit DEF ShimInv, OnceInv, Initializing
<1>7. OnceInv'
  <2>1. \A u \in Threads : MainAt(stack'[u]) \in Initializing => u = t
    BY <1>5, <1>6
  <2>2. \A u \in Threads : MainAt(stack'[u]) # "heap" /\ MainAt(stack'[u]) # "init"
    BY <1>1, <1>5, <1>6 DEF ShimInv, OnceInv, Initializing
  <2> QED BY <1>2, <1>6, <2>1, <2>2 DEF OnceInv
<1>8. /\ shim_heap' = shim_heap /\ shim_heap \in BOOLEAN /\ UNCHANGED owners /\ f.at # "cas"
      /\ once' \in {"new", "running", "done"}
      /\ bootstrap_used' = bootstrap_used /\ blocks' = blocks
  BY <1>1, <1>2, <1>5, <1>6 DEF ShimInv, ShimType
<1> QED BY <1>2, <1>3, <1>5, <1>6, <1>7, <1>8, InitStep

LEMMA CreateReturnsInv ==
    ASSUME ShimInv, NEW t \in Threads, CreateReturns(t)
    PROVE  ShimInv'
<1>1. PICK l, next : l = "create" /\ next = "published"
  OBVIOUS
<1>2. /\ At(t, l) /\ Goto(t, next) /\ shim_heap' = (internal # {})
      /\ UNCHANGED <<arena, once, shim_busy, owners>>
  BY <1>1 DEF CreateReturns
<1>3. ~Nested(stack[t]) /\ MainAt(stack[t]) = "create"
  BY <1>1, <1>2, OnTheWay
<1>4. shim_busy' = shim_busy /\ shim_busy \in [Threads -> BOOLEAN] /\ shim_busy[t]
  BY <1>2, <1>3 DEF ShimInv, ShimType, BusyInv
<1>5. PICK f : /\ Continues(t, f) /\ BusyFollows(t, f) /\ f.at = next
               /\ MainAt(stack'[t]) = next
               /\ \A u \in Threads \ {t} : stack'[u] = stack[u]
  BY <1>1, <1>2, <1>4, WayOn
<1>6. once = "running" /\ ~shim_heap
      /\ \A u \in Threads \ {t} : MainAt(stack[u]) \notin Initializing
  BY <1>3, AloneInInit DEF ShimInv, OnceInv, Initializing
<1>7. OnceInv'
  <2>1. \A u \in Threads : MainAt(stack'[u]) \in Initializing => u = t
    BY <1>5, <1>6
  <2>2. \A u \in Threads : MainAt(stack'[u]) \notin {"heap", "init", "create"}
    BY <1>1, <1>5, <1>6 DEF ShimInv, OnceInv, Initializing
  <2> QED BY <1>2, <1>6, <2>1, <2>2 DEF OnceInv
<1>8. /\ shim_heap' \in BOOLEAN /\ UNCHANGED owners /\ f.at # "cas"
      /\ once' \in {"new", "running", "done"} /\ bootstrap_base' = bootstrap_base
      /\ bootstrap_used' = bootstrap_used /\ blocks' = blocks
  BY <1>1, <1>2, <1>5, <1>6 DEF arena
<1> QED BY <1>3, <1>5, <1>6, <1>7, <1>8, InitStep

LEMMA InitDoneInv ==
    ASSUME ShimInv, NEW t \in Threads, InitDone(t)
    PROVE  ShimInv'
<1>1. PICK l, next : l = "published" /\ next = "ready"
  OBVIOUS
<1>2. /\ At(t, l) /\ Goto(t, next) /\ once' = "done"
      /\ shim_busy' = [shim_busy EXCEPT ![t] = FALSE]
      /\ UNCHANGED <<arena, shim_heap, owners>>
  BY <1>1 DEF InitDone
<1>3. ~Nested(stack[t]) /\ MainAt(stack[t]) = "published"
  BY <1>1, <1>2, OnTheWay
<1>4. /\ shim_busy' \in [Threads -> BOOLEAN] /\ ~shim_busy'[t]
      /\ \A u \in Threads \ {t} : shim_busy'[u] = shim_busy[u]
  BY <1>2 DEF ShimInv, ShimType
<1>5. PICK f : /\ Continues(t, f) /\ BusyFollows(t, f) /\ f.at = next
               /\ MainAt(stack'[t]) = next
               /\ \A u \in Threads \ {t} : stack'[u] = stack[u]
  BY <1>1, <1>2, <1>4, WayOn
<1>6. \A u \in Threads \ {t} : MainAt(stack[u]) \notin Initializing
  BY <1>3, AloneInInit DEF Initializing
<1>7. OnceInv'
  <2>1. \A u \in Threads : MainAt(stack'[u]) \notin Initializing
    BY <1>1, <1>5, <1>6 DEF Initializing
  <2>2. \A u \in Threads : MainAt(stack'[u]) = "heap" => shim_heap'
    BY <1>1, <1>2, <1>5 DEF ShimInv, OnceInv
  <2> QED BY <1>2, <2>1, <2>2 DEF OnceInv, Initializing
<1>8. /\ shim_heap' = shim_heap /\ shim_heap \in BOOLEAN /\ UNCHANGED owners /\ f.at # "cas"
      /\ once' \in {"new", "running", "done"} /\ bootstrap_base' = bootstrap_base
      /\ bootstrap_used' = bootstrap_used /\ blocks' = blocks
  BY <1>1, <1>2, <1>5 DEF arena, ShimInv, ShimType
<1> QED BY <1>3, <1>5, <1>7, <1>8, InitStep

-----------------------------------------------------------------------------
(***************************************************************************)
(* bootstrap_alloc.                                                         *)
(***************************************************************************)
\* The exchange puts a block behind all the others.
LEMMA NewBlock ==
    ASSUME ShimInv, NEW size \in Nat, NEW align \in Nat,
           ~Refused(bootstrap_used, size, align),
           NEW b, b = Block(bootstrap_used, size, align),
           bootstrap_used' = Start(bootstrap_used, align) + b.payload,
           blocks' = blocks \cup {b}, bootstrap_base' = bootstrap_base
    PROVE  /\ ArenaInv' /\ Starts' = Starts \cup {b.start} /\ b.start \notin Starts
           /\ bootstrap_used' \in Nat /\ b.start # Null
<1>1. bootstrap_used \in Nat /\ bootstrap_base \in {Null, ArenaBase}
  BY DEF ShimInv, ShimType
<1>2. PICK start, payload : start = Start(bootstrap_used, align) /\ payload = PayloadSize(size)
  OBVIOUS
<1>3. /\ bootstrap_base = ArenaBase /\ start \in Nat /\ (ArenaBase + start) % align = 0
      /\ start >= bootstrap_used + WordBytes
      /\ payload \in Nat /\ payload >= 1 /\ size <= payload /\ start + payload <= ArenaBytes
  BY <1>1, <1>2, NotRefused
<1>4. /\ b.start = ArenaBase + start /\ b.payload = payload /\ b.align = align
      /\ b.requested = size
  BY <1>2, <1>3 DEF Block
<1>5. bootstrap_used' = start + payload /\ bootstrap_used' \in Nat
      /\ bootstrap_used <= bootstrap_used' /\ bootstrap_used' <= ArenaBytes
  BY <1>1, <1>2, <1>3, <1>4, Constants
<1>6. ASSUME NEW c \in blocks
      PROVE  /\ c.start \in Nat /\ c.payload \in Nat /\ c.payload >= 1
             /\ c.start + c.payload <= ArenaBase + bootstrap_used
             /\ c.start + c.payload <= b.start - WordBytes
             /\ c.start # b.start /\ c # b
             /\ c.start + c.payload <= ArenaBase + bootstrap_used'
  <2>1. BlockOK(c)
    BY DEF ShimInv, ArenaInv
  <2> QED BY <1>1, <1>3, <1>4, <1>5, <2>1, Constants DEF BlockOK
<1>7. BlockOK(b)'
  BY <1>1, <1>3, <1>4, <1>5, Constants DEF BlockOK
<1>8. \A c \in blocks' : BlockOK(c)'
  <2>1. ASSUME NEW c \in blocks PROVE BlockOK(c)'
    <3>1. BlockOK(c)
      BY DEF ShimInv, ArenaInv
    <3> QED BY <1>6, <3>1 DEF BlockOK
  <2> QED BY <1>7, <2>1
<1>9. \A c, d \in blocks' : c # d => \/ c.start + c.payload <= d.start - WordBytes
                                     \/ d.start + d.payload <= c.start - WordBytes
  BY <1>6 DEF ShimInv, ArenaInv
<1>10. Starts' = Starts \cup {b.start} /\ b.start \notin Starts /\ b \notin blocks
  BY <1>6 DEF Starts
<1>11. /\ IsFiniteSet(blocks') /\ IsFiniteSet(Starts')
       /\ Cardinality(Starts') = Cardinality(blocks')
  <2>1. /\ IsFiniteSet(blocks) /\ IsFiniteSet(Starts) /\ Cardinality(Starts) = Cardinality(blocks)
    BY DEF ShimInv, ArenaInv
  <2>2. IsFiniteSet(blocks \cup {b}) /\ Cardinality(blocks \cup {b}) = Cardinality(blocks) + 1
    BY <1>10, <2>1, FS_AddElement
  <2>3. /\ IsFiniteSet(Starts \cup {b.start})
        /\ Cardinality(Starts \cup {b.start}) = Cardinality(Starts) + 1
    BY <1>10, <2>1, FS_AddElement
  <2> QED BY <1>10, <2>1, <2>2, <2>3
<1>12. ArenaInv'
  BY <1>3, <1>5, <1>8, <1>9, <1>11 DEF ArenaInv
<1>13. b.start # Null
  BY <1>3, <1>4, Constants
<1> QED BY <1>5, <1>10, <1>12, <1>13

\* Calls of bootstrap_alloc are allocations.
LEMMA InArena ==
    ASSUME ShimInv, NEW t \in Threads, NEW l \in {"arena", "cas"}, At(t, l)
    PROVE  /\ stack[t] # << >> /\ stack[t][1].at = l /\ stack[t][1].fn = "alloc"
           /\ stack[t][1].ptr = Null /\ stack[t][1] \in Frames /\ FrameOK(stack[t][1])
           /\ Top(t) = stack[t][1] /\ (shim_busy[t] <=> Nested(stack[t]))
           /\ Alone(stack[t]) => OwnPtr(stack[t]) = Null
           /\ Replacing(stack[t]) => /\ OwnPtr(stack[t]) # Null
                                     /\ OwnPtr(stack[t]) \notin HeapPointers
           /\ Alone(stack[t]) \/ Replacing(stack[t]) \/ Nested(stack[t])
           /\ Alone(stack[t]) \/ Replacing(stack[t]) => ~Nested(stack[t])
<1>1. stack[t] # << >> /\ stack[t][1].at = l
  BY AtInCall
<1>2. /\ stack[t][1] \in Frames /\ FrameOK(stack[t][1]) /\ Top(t) = stack[t][1]
      /\ StackOK(stack[t])
      /\ Alone(stack[t]) \/ Replacing(stack[t]) \/ Nested(stack[t])
      /\ Alone(stack[t]) => OwnPtr(stack[t]) = stack[t][1].ptr
      /\ Alone(stack[t]) \/ Replacing(stack[t]) => ~Nested(stack[t])
  BY <1>1, TopFrame
<1>3. stack[t][1].fn = "alloc" /\ stack[t][1].ptr = Null
  BY <1>1, <1>2 DEF FrameOK, Frames
<1>4. ASSUME Replacing(stack[t])
      PROVE  OwnPtr(stack[t]) # Null /\ OwnPtr(stack[t]) \notin HeapPointers
  <2>1. OwnPtr(stack[t]) = stack[t][2].ptr /\ stack[t][2].fn = "realloc" /\ Len(stack[t]) = 2
        /\ stack[t][2].at = "moving"
    <3>1. PICK below : below = Tail(stack[t])
      OBVIOUS
    <3>2. OwnPtr(stack[t]) = stack[t][2].ptr /\ stack[t][2].fn = "realloc"
          /\ stack[t][2].at = "moving"
      BY <1>1, <1>2, <1>4, <3>1, Popped
    <3> QED BY <1>4, <3>2 DEF Replacing
  <2>2. FrameOK(stack[t][2])
    BY <1>2, <2>1 DEF StackOK
  <2> QED BY <2>1, <2>2 DEF FrameOK
<1>5. shim_busy[t] <=> Nested(stack[t])
  BY <1>1, BusyIsNested
<1> QED BY <1>1, <1>2, <1>3, <1>4, <1>5

\* One pass of the loop up to the exchange.
LEMMA ArenaLoadInv ==
    ASSUME ShimInv, NEW t \in Threads, ArenaLoad(t)
    PROVE  ShimInv'
<1>1. PICK l : l = "arena"
  OBVIOUS
<1>2. At(t, l) /\ UNCHANGED <<arena, shim_heap, once, shim_busy, heap_live>>
  BY <1>1 DEF ArenaLoad
<1>3. /\ stack[t] # << >> /\ stack[t][1].at = "arena" /\ stack[t][1].fn = "alloc"
      /\ stack[t][1].ptr = Null /\ stack[t][1] \in Frames /\ FrameOK(stack[t][1])
      /\ Top(t) = stack[t][1] /\ (shim_busy[t] <=> Nested(stack[t]))
      /\ Alone(stack[t]) => OwnPtr(stack[t]) = Null
      /\ Replacing(stack[t]) => OwnPtr(stack[t]) # Null /\ OwnPtr(stack[t]) \notin HeapPointers
      /\ Alone(stack[t]) \/ Replacing(stack[t]) \/ Nested(stack[t])
      /\ Alone(stack[t]) \/ Replacing(stack[t]) => ~Nested(stack[t])
  BY <1>1, <1>2, InArena
<1>4. /\ bootstrap_used' = bootstrap_used /\ blocks' = blocks /\ heap_live' = heap_live
      /\ LeavesControl(t) /\ shim_busy' = shim_busy /\ bootstrap_used \in Nat
  BY <1>2 DEF arena, LeavesControl, ShimInv, ShimType
<1>5. CASE Refused(bootstrap_used, stack[t][1].size, stack[t][1].align)
  <2>1. PICK none : none = {}
    OBVIOUS
  <2>2. Return(t, Null, none)
    BY <1>3, <1>5, <2>1 DEF ArenaLoad
  <2>3. CASE Nested(stack[t])
    <3>1. Popped1(t) /\ internal' = internal \cup ({Null} \ {Null}) /\ program' = program
      BY <1>3, <2>2, <2>3, ReturnCases
    <3>2. internal' = internal
      BY <3>1
    <3>3. shim_busy'[t] = shim_busy[t]
      BY <1>4
    <3> QED BY <1>3, <1>4, <2>3, <3>1, <3>2, <3>3, ReturnsNested
  <2>4. CASE Alone(stack[t])
    <3>1. Emptied(t) /\ internal' = internal /\ program' = program \cup none
      BY <1>3, <2>1, <2>2, <2>4, ReturnCases
    <3>2. /\ none \subseteq {OwnPtr(stack[t])} /\ Null \notin none /\ ~Nested(stack[t])
          /\ OwnPtr(stack[t]) \notin HeapPointers /\ ~shim_busy'[t]
      BY <1>3, <1>4, <2>1, <2>4, StartsApart DEF ShimInv
    <3> QED BY <1>3, <1>4, <3>1, <3>2, ReturnsOwn
  <2>5. CASE Replacing(stack[t])
    <3>1. PICK G : G = {OwnPtr(stack[t])}
      OBVIOUS
    <3>2. Emptied(t) /\ internal' = internal /\ program' = program \cup G
      BY <1>3, <2>2, <2>5, <3>1, ReturnCases
    <3>3. /\ G \subseteq {OwnPtr(stack[t])} /\ Null \notin G /\ ~Nested(stack[t])
          /\ OwnPtr(stack[t]) \notin HeapPointers /\ ~shim_busy'[t]
      BY <1>3, <1>4, <2>5, <3>1
    <3> QED BY <1>3, <1>4, <3>2, <3>3, ReturnsOwn
  <2> QED BY <1>3, <2>3, <2>4, <2>5
<1>6. CASE ~Refused(bootstrap_used, stack[t][1].size, stack[t][1].align)
  <2>1. PICK f : f = [stack[t][1] EXCEPT !.at = "cas", !.current = bootstrap_used]
    OBVIOUS
  <2>2. /\ f \in Frames /\ f.at = "cas" /\ f.fn = "alloc" /\ f.ptr = Null
        /\ f.current = bootstrap_used /\ f.size = stack[t][1].size
        /\ f.align = stack[t][1].align
    BY <1>3, <1>4, <2>1 DEF Frames, Labels
  <2>3. FrameOK(f)
    BY <2>2 DEF FrameOK
  <2>4. Retop(t, f) /\ UNCHANGED <<internal, program>>
    BY <1>3, <1>6, <2>1 DEF ArenaLoad, Retop
  <2>5. Continues(t, f)
    BY <1>3, <2>2, <2>3, <2>4, RetopContinues
  <2>6. BusyFollows(t, f)
    BY <1>3, <1>4, <2>2 DEF BusyFollows, ShimInv, ShimType
  <2>7. UNCHANGED <<arena, shim_heap, once, owners>>
    BY <1>2, <2>4 DEF owners
  <2> QED BY <1>6, <2>2, <2>5, <2>6, <2>7, ContinueInv DEF Initializing
<1> QED BY <1>5, <1>6

\* The exchange: the block is the caller's, or the loop starts again.
LEMMA ArenaCasInv ==
    ASSUME ShimInv, NEW t \in Threads, ArenaCas(t)
    PROVE  ShimInv'
<1>1. PICK l : l = "cas"
  OBVIOUS
<1>2. At(t, l) /\ UNCHANGED <<bootstrap_base, shim_heap, once, shim_busy, heap_live>>
  BY <1>1 DEF ArenaCas
<1>3. /\ stack[t] # << >> /\ stack[t][1].at = "cas" /\ stack[t][1].fn = "alloc"
      /\ stack[t][1].ptr = Null /\ stack[t][1] \in Frames /\ FrameOK(stack[t][1])
      /\ Top(t) = stack[t][1] /\ (shim_busy[t] <=> Nested(stack[t]))
      /\ Alone(stack[t]) => OwnPtr(stack[t]) = Null
      /\ Replacing(stack[t]) => OwnPtr(stack[t]) # Null /\ OwnPtr(stack[t]) \notin HeapPointers
      /\ Alone(stack[t]) \/ Replacing(stack[t]) \/ Nested(stack[t])
      /\ Alone(stack[t]) \/ Replacing(stack[t]) => ~Nested(stack[t])
  BY <1>1, <1>2, InArena
<1>4. CASE bootstrap_used # stack[t][1].current
  <2>1. PICK next : next = "arena"
    OBVIOUS
  <2>2. Goto(t, next) /\ UNCHANGED <<arena, shim_heap, once, owners>> /\ shim_busy' = shim_busy
    BY <1>2, <1>3, <1>4, <2>1 DEF ArenaCas, arena, owners
  <2>3. next \in Labels /\ next # "moving" /\ next \in {"once", "ready", "arena"}
    BY <2>1 DEF Labels
  <2>4. FrameOK(Labelled(stack[t][1], next))
    BY <1>3, <2>3, LabelFits
  <2> QED BY <1>3, <2>2, <2>3, <2>4, <2>1, GotoInv
<1>5. CASE bootstrap_used = stack[t][1].current
  <2>1. PICK size, align : size = stack[t][1].size /\ align = stack[t][1].align
    OBVIOUS
  <2>2. size \in Nat /\ align \in Nat
    BY <1>3, <2>1 DEF Frames
  <2>3. PICK b : b = Block(bootstrap_used, size, align)
    OBVIOUS
  <2>4. PICK none : none = {}
    OBVIOUS
  <2>5. /\ bootstrap_used' = Start(bootstrap_used, align) + b.payload
        /\ blocks' = blocks \cup {b} /\ Return(t, b.start, none)
    BY <1>3, <1>5, <2>1, <2>3, <2>4 DEF ArenaCas, Handed
  <2>6. ~Refused(bootstrap_used, size, align)
    BY <1>3, <1>5, <2>1 DEF ShimInv, CasInv
  <2>7. /\ ArenaInv' /\ Starts' = Starts \cup {b.start} /\ b.start \notin Starts
        /\ bootstrap_used' \in Nat /\ b.start # Null
    BY <1>2, <2>2, <2>3, <2>5, <2>6, NewBlock
  <2>8. LeavesControl(t) /\ shim_busy'[t] = shim_busy[t]
    BY <1>2, <2>7 DEF LeavesControl, ShimInv, ShimType
  <2>9. PICK G : G = {b.start}
    OBVIOUS
  <2>10. Starts \subseteq Starts' /\ G \subseteq Starts' \ Starts
         /\ \A g \in G : Offered(t, g)
    BY <2>7, <2>9 DEF Offered
  <2>11. CASE Nested(stack[t])
    <3>1. /\ Popped1(t) /\ internal' = internal \cup ({b.start} \ {Null})
          /\ program' = program
      BY <1>3, <2>5, <2>11, ReturnCases
    <3>2. internal' = internal \cup G
      BY <2>7, <2>9, <3>1
    <3>3. /\ OthersStay(t) /\ OwnPtr(stack'[t]) = OwnPtr(stack[t]) /\ ~Nested(stack'[t])
          /\ ShimType' /\ BusyInv' /\ OnceInv' /\ CasInv'
      BY <1>3, <2>8, <2>11, <3>1, EndedNested
    <3>4. PtrInv'
      BY <1>2, <2>7, <2>10, <3>1, <3>2, <3>3, HandoverNested
    <3> QED BY <2>7, <3>3, <3>4 DEF ShimInv
  <2>12. CASE Alone(stack[t]) \/ Replacing(stack[t])
    <3>1. Emptied(t) /\ internal' = internal /\ program' = program \cup G
      <4>1. CASE Alone(stack[t])
        <5>1. /\ Emptied(t) /\ internal' = internal
              /\ program' = program \cup ({b.start} \ {Null}) \cup none
          BY <1>3, <2>5, <4>1, ReturnCases
        <5> QED BY <2>4, <2>7, <2>9, <5>1
      <4>2. CASE Replacing(stack[t])
        <5>1. /\ Emptied(t) /\ internal' = internal
              /\ program' = program \cup
                     (IF b.start = Null THEN {OwnPtr(stack[t])} ELSE {b.start} \ {Null})
          BY <1>3, <2>5, <4>2, ReturnCases
        <5> QED BY <2>7, <2>9, <5>1
      <4> QED BY <2>12, <4>1, <4>2
    <3>2. ~shim_busy'[t] /\ ~Nested(stack[t])
      BY <1>3, <2>8, <2>12
    <3>3. /\ OthersStay(t) /\ OwnPtr(stack'[t]) = Null /\ ~Nested(stack'[t])
          /\ ShimType' /\ BusyInv' /\ OnceInv' /\ CasInv'
      BY <2>8, <3>1, <3>2, Ended
    <3>4. OwnPtr(stack[t]) \notin HeapPointers
      BY <1>3, <2>12, StartsApart DEF ShimInv
    <3>5. b.start \notin HeapPointers
      BY <2>7, <3>3, StartsApartNext
    <3>6. heap_live' = HeapPointers \cap ((heap_live \ {OwnPtr(stack[t])}) \cup G)
      <4>1. heap_live' = heap_live /\ heap_live \subseteq HeapPointers
        BY <1>2 DEF ShimInv, PtrInv
      <4> QED BY <2>9, <3>4, <3>5, <4>1
    <3>7. heap_live' # {} => shim_heap'
      BY <1>2 DEF ShimInv, PtrInv
    <3>8. PtrInv'
      BY <2>7, <2>10, <3>1, <3>3, <3>6, <3>7, Handover
    <3> QED BY <2>7, <3>3, <3>8 DEF ShimInv
  <2> QED BY <1>3, <2>11, <2>12
<1> QED BY <1>4, <1>5

-----------------------------------------------------------------------------
(***************************************************************************)
(* The heap returns.                                                        *)
(***************************************************************************)
\* Who is served, and that the heap is there.
LEMMA InService ==
    ASSUME ShimInv, NEW t \in Threads, NEW l, l = "heap", At(t, l)
    PROVE  /\ stack[t] # << >> /\ FrameOK(stack[t][1]) /\ Top(t) = stack[t][1]
           /\ ~Nested(stack[t]) /\ (Alone(stack[t]) \/ Replacing(stack[t]))
           /\ Replacing(stack[t]) => stack[t][1].fn = "alloc"
           /\ Alone(stack[t]) => OwnPtr(stack[t]) = stack[t][1].ptr
           /\ stack[t][1].fn # "alloc" => /\ stack[t][1].ptr \in HeapPointers
                                          /\ stack[t][1].ptr \in heap_live
           /\ stack[t][1].fn = "alloc" => OwnPtr(stack[t]) \notin HeapPointers
           /\ shim_heap
<1>1. stack[t] # << >> /\ stack[t][1].at = "heap"
  BY AtInCall
<1>2. /\ StackOK(stack[t]) /\ FrameOK(stack[t][1]) /\ Top(t) = stack[t][1]
      /\ Alone(stack[t]) \/ Replacing(stack[t]) \/ Nested(stack[t])
      /\ Alone(stack[t]) => ~Nested(stack[t]) /\ OwnPtr(stack[t]) = stack[t][1].ptr
      /\ Replacing(stack[t]) => ~Nested(stack[t]) /\ stack[t][1].fn = "alloc"
      /\ Nested(stack[t]) => stack[t][1].at \in {"enter", "arena", "cas"}
  BY <1>1, TopFrame
<1>3. ~Nested(stack[t])
  BY <1>1, <1>2
<1>4. MainAt(stack[t]) = "heap"
  BY <1>1, <1>3 DEF MainAt
<1>5. shim_heap
  BY <1>4 DEF ShimInv, OnceInv
<1>6. stack[t][1].fn # "alloc" => stack[t][1].ptr \in HeapPointers
  BY <1>1, <1>2 DEF FrameOK
<1>7. ASSUME stack[t][1].fn # "alloc"
      PROVE  stack[t][1].ptr \in heap_live
  <2>1. OwnPtr(stack[t]) = stack[t][1].ptr
    BY <1>2, <1>3, <1>7
  <2> QED BY <1>6, <1>7, <2>1 DEF ShimInv, PtrInv
<1>8. ASSUME stack[t][1].fn = "alloc"
      PROVE  OwnPtr(stack[t]) \notin HeapPointers
  <2>1. CASE Alone(stack[t])
    <3>1. OwnPtr(stack[t]) = Null
      BY <1>2, <1>8, <2>1 DEF FrameOK
    <3> QED BY <3>1, StartsApart DEF ShimInv
  <2>2. CASE Replacing(stack[t])
    <3>1. PICK below : below = Tail(stack[t])
      OBVIOUS
    <3>2. OwnPtr(stack[t]) = stack[t][2].ptr /\ stack[t][2].at = "moving"
      BY <1>1, <1>2, <2>2, <3>1, Popped
    <3>3. FrameOK(stack[t][2])
      BY <1>2, <2>2 DEF StackOK, Replacing
    <3> QED BY <3>2, <3>3 DEF FrameOK
  <2> QED BY <1>2, <1>3, <2>1, <2>2
<1> QED BY <1>1, <1>2, <1>3, <1>5, <1>6, <1>7, <1>8

\* The call is over, the program has G, and the heap's blocks follow.
LEMMA ServedInv ==
    ASSUME ShimInv, NEW t \in Threads, shim_heap, Emptied(t),
           UNCHANGED <<arena, shim_heap, once>>,
           shim_busy' = [shim_busy EXCEPT ![t] = FALSE],
           NEW G, \A g \in G : Offered(t, g),
           program' = program \cup G, internal' = internal,
           heap_live' = HeapPointers \cap ((heap_live \ {OwnPtr(stack[t])}) \cup G)
    PROVE  ShimInv'
<1>1. /\ bootstrap_base' = bootstrap_base /\ bootstrap_used' = bootstrap_used
      /\ blocks' = blocks /\ shim_heap'
  BY DEF arena
<1>2. LeavesControl(t) /\ ~shim_busy'[t]
  BY <1>1 DEF LeavesControl, ShimInv, ShimType
<1>3. /\ OthersStay(t) /\ OwnPtr(stack'[t]) = Null /\ ~Nested(stack'[t])
      /\ ShimType' /\ BusyInv' /\ OnceInv' /\ CasInv'
  BY <1>2, Ended
<1>4. ArenaInv' /\ Starts' = Starts
  BY <1>1, ArenaKept
<1>5. PtrInv'
  BY <1>1, <1>3, <1>4, Handover
<1> QED BY <1>3, <1>4, <1>5 DEF ShimInv

\* memx_heap_malloc and the aligned allocation.
LEMMA HeapAllocatesInv ==
    ASSUME ShimInv, NEW t \in Threads, NEW r, HeapAllocates(t, r)
    PROVE  ShimInv'
<1>1. PICK l : l = "heap"
  OBVIOUS
<1>2. PICK none : none = {}
  OBVIOUS
<1>3. /\ At(t, l) /\ r \in (HeapPointers \ heap_live) \cup {Null}
      /\ HeapReturns(t, r, none, none) /\ Top(t).fn = "alloc"
  BY <1>1, <1>2 DEF HeapAllocates
<1>4. /\ stack[t] # << >> /\ ~Nested(stack[t]) /\ (Alone(stack[t]) \/ Replacing(stack[t]))
      /\ OwnPtr(stack[t]) \notin HeapPointers /\ shim_heap
      /\ Alone(stack[t]) => OwnPtr(stack[t]) = stack[t][1].ptr
      /\ FrameOK(stack[t][1]) /\ Top(t) = stack[t][1]
  BY <1>1, <1>3, InService
<1>5. /\ heap_live' = (heap_live \ none) \cup ({r} \ {Null})
      /\ shim_busy' = [shim_busy EXCEPT ![t] = FALSE]
      /\ Return(t, r, none) /\ UNCHANGED <<arena, shim_heap, once>>
  BY <1>3 DEF HeapReturns
<1>6. heap_live \subseteq HeapPointers /\ Null \notin HeapPointers
  BY StartsApart DEF ShimInv, PtrInv
<1>7. CASE Alone(stack[t])
  <2>1. PICK G : G = {r} \ {Null}
    OBVIOUS
  <2>2. /\ Emptied(t) /\ internal' = internal
        /\ program' = program \cup ({r} \ {Null}) \cup none
    BY <1>4, <1>5, <1>7, ReturnCases
  <2>3. program' = program \cup G
    BY <1>2, <2>1, <2>2
  <2>4. \A g \in G : Offered(t, g)
    BY <1>3, <2>1 DEF Offered
  <2>5. heap_live' = HeapPointers \cap ((heap_live \ {OwnPtr(stack[t])}) \cup G)
    BY <1>2, <1>3, <1>4, <1>5, <1>6, <2>1
  <2> QED BY <1>4, <1>5, <2>2, <2>3, <2>4, <2>5, ServedInv
<1>8. CASE Replacing(stack[t])
  <2>1. PICK G : G = IF r = Null THEN {OwnPtr(stack[t])} ELSE {r} \ {Null}
    OBVIOUS
  <2>2. /\ Emptied(t) /\ internal' = internal
        /\ program' = program \cup (IF r = Null THEN {OwnPtr(stack[t])} ELSE {r} \ {Null})
    BY <1>4, <1>5, <1>8, ReturnCases
  <2>3. program' = program \cup G
    BY <2>1, <2>2
  <2>4. OwnPtr(stack[t]) # Null
    <3>1. Len(stack[t]) = 2 /\ stack[t][2].at = "moving"
      BY <1>8 DEF Replacing
    <3>2. FrameOK(stack[t][2])
      <4>1. StackOK(stack[t])
        BY DEF ShimInv, ShimType
      <4> QED BY <3>1, <4>1 DEF StackOK
    <3>3. stack[t][2].ptr # Null
      BY <3>1, <3>2 DEF FrameOK
    <3> QED BY <1>4, <3>1, <3>3 DEF OwnPtr
  <2>5. \A g \in G : Offered(t, g)
    <3>1. CASE r = Null
      BY <2>1, <2>4, <3>1 DEF Offered
    <3>2. CASE r # Null
      BY <1>3, <2>1, <3>2 DEF Offered
    <3> QED BY <3>1, <3>2
  <2>6. heap_live' = HeapPointers \cap ((heap_live \ {OwnPtr(stack[t])}) \cup G)
    BY <1>2, <1>3, <1>4, <1>5, <1>6, <2>1
  <2> QED BY <1>4, <1>5, <2>2, <2>3, <2>5, <2>6, ServedInv
<1> QED BY <1>4, <1>7, <1>8

\* memx_heap_free, realloc and usable size: the call was the program's, with a
\* block of the heap, which goes back to the program or to the heap.
LEMMA OwnServedInv ==
    ASSUME ShimInv, NEW t \in Threads, NEW l, l = "heap", At(t, l), Top(t).fn # "alloc",
           NEW r, NEW freed, NEW given, HeapReturns(t, r, freed, given),
           freed \subseteq {Top(t).ptr},
           NEW G, G = ({r} \ {Null}) \cup given,
           Null \notin given,
           Top(t).ptr \in freed <=> Top(t).ptr \notin given,
           given \subseteq {Top(t).ptr},
           r \in {Null, Top(t).ptr} \cup (HeapPointers \ heap_live)
    PROVE  ShimInv'
<1>1. /\ stack[t] # << >> /\ ~Nested(stack[t]) /\ Alone(stack[t]) /\ Top(t) = stack[t][1]
      /\ OwnPtr(stack[t]) = Top(t).ptr /\ Top(t).ptr \in HeapPointers
      /\ Top(t).ptr \in heap_live /\ shim_heap
  BY InService
<1>2. /\ heap_live' = (heap_live \ freed) \cup ({r} \ {Null})
      /\ shim_busy' = [shim_busy EXCEPT ![t] = FALSE]
      /\ Return(t, r, given) /\ UNCHANGED <<arena, shim_heap, once>>
  BY DEF HeapReturns
<1>3. /\ Emptied(t) /\ internal' = internal
      /\ program' = program \cup ({r} \ {Null}) \cup given
  BY <1>1, <1>2, ReturnCases
<1>4. program' = program \cup G
  BY <1>3
<1>5. heap_live \subseteq HeapPointers /\ Null \notin HeapPointers
  BY StartsApart DEF ShimInv, PtrInv
<1>6. \A g \in G : Offered(t, g)
  BY <1>1, <1>5 DEF Offered
<1>7. PICK p : p = Top(t).ptr
  OBVIOUS
<1>8. heap_live' = HeapPointers \cap ((heap_live \ {p}) \cup G)
  <2>1. CASE p \in freed
    <3>1. freed = {p} /\ given = {}
      BY <1>7, <2>1
    <3>2. G = {r} \ {Null}
      BY <3>1
    <3> QED BY <1>2, <1>1, <1>5, <1>7, <3>1, <3>2
  <2>2. CASE p \notin freed
    <3>1. freed = {} /\ given = {p}
      BY <1>7, <2>2
    <3>2. G = ({r} \ {Null}) \cup {p}
      BY <3>1
    <3> QED BY <1>2, <1>1, <1>5, <1>7, <3>1, <3>2
  <2> QED BY <2>1, <2>2
<1>9. heap_live' = HeapPointers \cap ((heap_live \ {OwnPtr(stack[t])}) \cup G)
  BY <1>1, <1>7, <1>8
<1> QED BY <1>1, <1>2, <1>3, <1>4, <1>6, <1>9, ServedInv

LEMMA HeapFreesInv ==
    ASSUME ShimInv, NEW t \in Threads, HeapFrees(t)
    PROVE  ShimInv'
<1>1. PICK l : l = "heap"
  OBVIOUS
<1>2. PICK none : none = {}
  OBVIOUS
<1>3. PICK freed : freed = {Top(t).ptr}
  OBVIOUS
<1>4. At(t, l) /\ Top(t).fn # "alloc" /\ HeapReturns(t, Null, freed, none)
  BY <1>1, <1>2, <1>3 DEF HeapFrees
<1>5. PICK G : G = ({Null} \ {Null}) \cup none
  OBVIOUS
<1> QED BY <1>1, <1>2, <1>3, <1>4, <1>5, OwnServedInv

LEMMA HeapAnswersSizeInv ==
    ASSUME ShimInv, NEW t \in Threads, HeapAnswersSize(t)
    PROVE  ShimInv'
<1>1. PICK l : l = "heap"
  OBVIOUS
<1>2. PICK none : none = {}
  OBVIOUS
<1>3. PICK given : given = {Top(t).ptr}
  OBVIOUS
<1>4. At(t, l) /\ Top(t).fn # "alloc" /\ HeapReturns(t, Null, none, given)
  BY <1>1, <1>2, <1>3 DEF HeapAnswersSize
<1>5. PICK G : G = ({Null} \ {Null}) \cup given
  OBVIOUS
<1>6. Top(t).ptr \in HeapPointers /\ Null \notin HeapPointers
  BY <1>1, <1>4, InService, StartsApart DEF ShimInv
<1> QED BY <1>1, <1>2, <1>3, <1>4, <1>5, <1>6, OwnServedInv

LEMMA HeapReallocsInv ==
    ASSUME ShimInv, NEW t \in Threads, NEW r, HeapReallocs(t, r)
    PROVE  ShimInv'
<1>1. PICK l : l = "heap"
  OBVIOUS
<1>2. PICK none : none = {}
  OBVIOUS
<1>3. PICK own : own = {Top(t).ptr}
  OBVIOUS
<1>4. At(t, l) /\ Top(t).fn # "alloc"
  BY <1>1 DEF HeapReallocs
<1>5. Top(t).ptr \in HeapPointers /\ Null \notin HeapPointers
  BY <1>1, <1>4, InService, StartsApart DEF ShimInv
<1>6. \/ HeapReturns(t, Null, own, none)
      \/ HeapReturns(t, Null, none, own)
      \/ /\ r \in {Null, Top(t).ptr} \cup (HeapPointers \ heap_live)
         /\ HeapReturns(t, r, own, none)
  BY <1>2, <1>3 DEF HeapReallocs
<1>7. CASE HeapReturns(t, Null, own, none)
  <2>1. PICK G : G = ({Null} \ {Null}) \cup none
    OBVIOUS
  <2> QED BY <1>1, <1>2, <1>3, <1>4, <1>7, <2>1, OwnServedInv
<1>8. CASE HeapReturns(t, Null, none, own)
  <2>1. PICK G : G = ({Null} \ {Null}) \cup own
    OBVIOUS
  <2> QED BY <1>1, <1>2, <1>3, <1>4, <1>5, <1>8, <2>1, OwnServedInv
<1>9. CASE /\ r \in {Null, Top(t).ptr} \cup (HeapPointers \ heap_live)
           /\ HeapReturns(t, r, own, none)
  <2>1. PICK G : G = ({r} \ {Null}) \cup none
    OBVIOUS
  <2> QED BY <1>1, <1>2, <1>3, <1>4, <1>9, <2>1, OwnServedInv
<1> QED BY <1>6, <1>7, <1>8, <1>9

-----------------------------------------------------------------------------
(***************************************************************************)
(* The specification.                                                       *)
(***************************************************************************)
LEMMA ShimInvInit ==
    ASSUME Init
    PROVE  ShimInv
<1>1. stack = [t \in Threads |-> << >>] /\ blocks = {} /\ bootstrap_base = Null
      /\ bootstrap_used = 0 /\ shim_heap = FALSE /\ once = "new"
      /\ shim_busy = [t \in Threads |-> FALSE] /\ heap_live = {} /\ internal = {}
      /\ program = {}
  BY DEF Init
<1>2. \A t \in Threads : stack[t] = << >>
  BY <1>1
<1>3. /\ << >> \in Seq(Frames) /\ Len(<< >>) = 0
  OBVIOUS
<1>4. StackOK(<< >>) /\ MainAt(<< >>) = "none" /\ OwnPtr(<< >>) = Null /\ ~Nested(<< >>)
  BY <1>3 DEF StackOK, MainAt, OwnPtr, Nested
<1>5. ShimType
  BY <1>1, <1>2, <1>3, <1>4 DEF ShimType
<1>6. ArenaInv
  <2>1. Starts = {}
    BY <1>1 DEF Starts
  <2>2. IsFiniteSet({}) /\ Cardinality({}) = 0
    BY FS_EmptySet
  <2>3. 0 <= ArenaBytes
    BY Constants
  <2> QED BY <1>1, <2>1, <2>2, <2>3 DEF ArenaInv
<1>7. CasInv
  BY <1>2 DEF CasInv
<1>8. BusyInv /\ OnceInv
  BY <1>1, <1>2, <1>4 DEF BusyInv, OnceInv, Initializing
<1>9. PtrInv
  <2>1. Null \notin HeapPointers
    BY <1>5, <1>6, StartsApart
  <2> QED BY <1>1, <1>2, <1>4, <2>1 DEF PtrInv
<1> QED BY <1>5, <1>6, <1>7, <1>8, <1>9 DEF ShimInv

LEMMA ShimInvNext ==
    ASSUME ShimInv, [Next]_vars
    PROVE  ShimInv'
<1>1. CASE UNCHANGED vars
  BY <1>1 DEF vars, arena, owners, ShimInv, ShimType, ArenaInv, Starts, BlockOK, CasInv,
              Refused, Start, BusyInv, OnceInv, PtrInv
<1>2. CASE Next
  <2>1. PICK t \in Threads : Call(t) \/ Step(t)
    BY <1>2 DEF Next
  <2>2. CASE CallAllocate(t)
    BY <2>2, CallAllocateInv
  <2>3. CASE \E p \in program, size \in Sizes : CallWith(t, p, size)
    BY <2>3, CallWithInv
  <2>4. CASE NestedAllocate(t)
    BY <2>4, NestedAllocateInv
  <2>5. CASE \E p \in internal : NestedFree(t, p)
    BY <2>5, NestedFreeInv
  <2>6. CASE EnterAllocate(t)
    BY <2>6, EnterAllocateInv
  <2>7. CASE EnterRealloc(t)
    BY <2>7, EnterReallocInv
  <2>8. CASE EnterFree(t)
    BY <2>8, EnterFreeInv
  <2>9. CASE Once(t)
    BY <2>9, OnceStepInv
  <2>10. CASE InitMap(t)
    BY <2>10, InitMapInv
  <2>11. CASE CreateReturns(t)
    BY <2>11, CreateReturnsInv
  <2>12. CASE InitDone(t)
    BY <2>12, InitDoneInv
  <2>13. CASE EnterHeap(t)
    BY <2>13, EnterHeapInv
  <2>14. CASE ArenaLoad(t)
    BY <2>14, ArenaLoadInv
  <2>15. CASE ArenaCas(t)
    BY <2>15, ArenaCasInv
  <2>16. CASE \E r \in HeapPointers \cup {Null} : HeapAllocates(t, r) \/ HeapReallocs(t, r)
    BY <2>16, HeapAllocatesInv, HeapReallocsInv
  <2>17. CASE HeapFrees(t)
    BY <2>17, HeapFreesInv
  <2>18. CASE HeapAnswersSize(t)
    BY <2>18, HeapAnswersSizeInv
  <2> QED BY <2>1, <2>2, <2>3, <2>4, <2>5, <2>6, <2>7, <2>8, <2>9, <2>10, <2>11, <2>12,
             <2>13, <2>14, <2>15, <2>16, <2>17, <2>18 DEF Call, Step
<1> QED BY <1>1, <1>2

\* The inductive invariant: what each thread's calls may be doing, what the
\* arena has handed out, who is in shim_init, and who has which pointer.
THEOREM ShimInvariant == Spec => []ShimInv
<1>1. Init => ShimInv
  BY ShimInvInit
<1>2. ShimInv /\ [Next]_vars => ShimInv'
  BY ShimInvNext
<1> QED BY <1>1, <1>2, PTL DEF Spec

-----------------------------------------------------------------------------
(***************************************************************************)
(* What it gives.                                                           *)
(***************************************************************************)
LEMMA SoundArena == ShimInv => ArenaSound
<1> SUFFICES ASSUME ShimInv PROVE ArenaSound
  OBVIOUS
<1>1. /\ ArenaInv /\ bootstrap_used \in Nat
  BY DEF ShimInv, ShimType
<1>2. /\ \A b \in blocks : BlockOK(b)
      /\ \A b, c \in blocks : b # c => \/ b.start + b.payload <= c.start - WordBytes
                                       \/ c.start + c.payload <= b.start - WordBytes
      /\ bootstrap_used <= ArenaBytes
      /\ Cardinality(Starts) = Cardinality(blocks)
  BY <1>1 DEF ArenaInv
<1>3. ASSUME NEW b \in blocks
      PROVE  /\ b.start % b.align = 0 /\ b.requested <= b.payload
             /\ b.start \in Nat /\ b.payload \in Nat
             /\ Footprint(b) \subseteq ArenaBase .. (ArenaBase + ArenaBytes - 1)
  <2>1. BlockOK(b)
    BY <1>2
  <2>2. /\ b.start \in Nat /\ b.payload \in Nat /\ ArenaBase + WordBytes <= b.start
        /\ b.start + b.payload <= ArenaBase + bootstrap_used
        /\ b.start % b.align = 0 /\ b.requested <= b.payload
    BY <2>1 DEF BlockOK
  <2>3. ASSUME NEW x \in Footprint(b)
        PROVE  x \in ArenaBase .. (ArenaBase + ArenaBytes - 1)
    BY <1>1, <1>2, <2>2, <2>3, Constants DEF Footprint
  <2> QED BY <2>2, <2>3
<1>4. ASSUME NEW b \in blocks, NEW c \in blocks \ {b}
      PROVE  Footprint(b) \cap Footprint(c) = {}
  <2>1. \/ b.start + b.payload <= c.start - WordBytes
        \/ c.start + c.payload <= b.start - WordBytes
    BY <1>2
  <2>2. b.start \in Nat /\ b.payload \in Nat /\ c.start \in Nat /\ c.payload \in Nat
    BY <1>3
  <2> QED BY <2>1, <2>2, Constants DEF Footprint
<1> QED BY <1>2, <1>3, <1>4 DEF ArenaSound, Starts

\* bootstrap_alloc hands out each byte of the arena once, whoever races for it.
THEOREM ShimArenaSound == Spec => []ArenaSound
BY ShimInvariant, SoundArena, PTL

\* Where in a stack the heap is executing.
LEMMA OneInside ==
    ASSUME NEW s, StackOK(s), NEW inside,
           inside = {i \in DOMAIN s : s[i].at \in {"heap", "create"}}
    PROVE  /\ Cardinality(inside) <= 1
           /\ (inside # {}) <=> MainAt(s) \in {"heap", "create"}
           /\ \A i \in inside : \A j \in 1 .. (i - 1) : s[j].at \in {"enter", "arena", "cas"}
           /\ (s # << >> /\ Head(s).at = "published") <=> MainAt(s) = "published"
<1>1. /\ Len(s) \in Nat /\ DOMAIN s = 1..Len(s) /\ (s = << >> <=> Len(s) = 0)
      /\ s # << >> => 1 \in 1..Len(s) /\ Head(s) = s[1]
  BY StackFacts
<1>2. CASE s = << >>
  <2>1. inside = {} /\ MainAt(s) = "none"
    BY <1>1, <1>2 DEF MainAt
  <2> QED BY <1>2, <2>1, FS_EmptySet
<1>3. CASE s # << >> /\ ~Nested(s)
  <2>1. MainAt(s) = s[1].at /\ Head(s) = s[1]
    BY <1>1, <1>3 DEF MainAt
  <2>2. Alone(s) \/ Replacing(s)
    BY <1>3 DEF StackOK
  <2>3. inside = {} \/ inside = {1}
    BY <1>1, <2>2 DEF Alone, Replacing
  <2>4. inside # {} <=> s[1].at \in {"heap", "create"}
    BY <1>1, <1>3, <2>3
  <2>5. Cardinality(inside) <= 1
    <3>1. Cardinality({}) = 0
      BY FS_EmptySet
    <3>2. Cardinality({1}) = 1
      BY FS_Singleton
    <3>3. CASE inside = {}
      BY <3>1, <3>3
    <3>4. CASE inside = {1}
      BY <3>2, <3>4
    <3> QED BY <2>3, <3>3, <3>4
  <2>6. \A i \in inside : 1 .. (i - 1) = {}
    BY <2>3
  <2> QED BY <1>3, <2>1, <2>4, <2>5, <2>6
<1>4. CASE Nested(s)
  <2>1. /\ Len(s) \in {2, 3} /\ s[1].at \in {"enter", "arena", "cas"}
        /\ s[2].at \in {"heap", "create"} /\ (Len(s) = 3 => s[3].at = "moving")
    BY <1>4 DEF Nested
  <2>2. s # << >> /\ MainAt(s) = s[2].at /\ Head(s) = s[1]
    BY <1>1, <1>4, <2>1 DEF MainAt
  <2>3. inside = {2}
    BY <1>1, <2>1
  <2>4. Cardinality(inside) <= 1
    BY <2>3, FS_Singleton
  <2> QED BY <2>1, <2>2, <2>3, <2>4
<1> QED BY <1>2, <1>3, <1>4

LEMMA EnteredOnce == ShimInv => NeverReentered
<1> SUFFICES ASSUME ShimInv, NEW t \in Threads, NEW inside,
                    inside = {i \in DOMAIN stack[t] : stack[t][i].at \in {"heap", "create"}}
             PROVE  /\ Cardinality(inside) <= 1
                    /\ shim_busy[t] <=> inside # {} \/ At(t, "published")
                    /\ \A i \in inside : \A j \in 1 .. (i - 1) :
                            stack[t][j].at \in {"enter", "arena", "cas"}
  BY DEF NeverReentered
<1>1. StackOK(stack[t]) /\ (shim_busy[t] <=> MainAt(stack[t]) \in {"heap", "create", "published"})
  BY DEF ShimInv, ShimType, BusyInv
<1>2. /\ Cardinality(inside) <= 1
      /\ (inside # {}) <=> MainAt(stack[t]) \in {"heap", "create"}
      /\ \A i \in inside : \A j \in 1 .. (i - 1) :
             stack[t][j].at \in {"enter", "arena", "cas"}
      /\ (stack[t] # << >> /\ Head(stack[t]).at = "published")
             <=> MainAt(stack[t]) = "published"
  BY <1>1, OneInside
<1> QED BY <1>1, <1>2 DEF At

\* No thread enters the heap from inside the heap, or pthread_once from
\* shim_init, and shim_busy is set exactly while it is there.
THEOREM ShimNeverReentered == Spec => []NeverReentered
BY ShimInvariant, EnteredOnce, PTL

\* Only the outermost call of a stack can have a block of the heap.
LEMMA HeapPointerOwn ==
    ASSUME ShimInv, NEW t \in Threads, NEW i \in DOMAIN stack[t],
           stack[t][i].ptr \in HeapPointers
    PROVE  stack[t][i].ptr = OwnPtr(stack[t])
<1>1. /\ StackOK(stack[t]) /\ DOMAIN stack[t] = 1..Len(stack[t]) /\ Len(stack[t]) \in Nat
      /\ (stack[t] = << >> <=> Len(stack[t]) = 0)
  BY StackFacts DEF ShimInv, ShimType
<1>2. i \in 1..Len(stack[t]) /\ stack[t] # << >>
  BY <1>1
<1>3. \A j \in 1..Len(stack[t]) : FrameOK(stack[t][j])
  BY <1>1 DEF StackOK
<1>4. Null \notin HeapPointers /\ Starts \cap HeapPointers = {}
  BY StartsApart DEF ShimInv
<1>5. stack[t][i].fn # "alloc"
  BY <1>2, <1>3, <1>4 DEF FrameOK
<1>6. i = Len(stack[t])
  <2>1. CASE Alone(stack[t])
    BY <1>2, <2>1 DEF Alone
  <2>2. CASE Replacing(stack[t])
    BY <1>2, <1>5, <2>2 DEF Replacing
  <2>3. CASE Nested(stack[t])
    <3>1. i # 1
      <4>1. stack[t][1].fn = "free" => stack[t][1].ptr \in Starts
        BY <2>3 DEF ShimInv, PtrInv
      <4> QED BY <1>4, <1>5, <2>3, <4>1 DEF Nested
    <3>2. /\ Len(stack[t]) \in {2, 3}
          /\ Len(stack[t]) = 3 => stack[t][2].fn = "alloc"
      BY <2>3 DEF Nested
    <3>3. i # 2 \/ Len(stack[t]) # 3
      BY <1>5, <3>2
    <3>4. PICK n : n = Len(stack[t])
      OBVIOUS
    <3>5. i \in 1..n /\ n \in {2, 3} /\ (i # 2 \/ n # 3) /\ i # 1
      BY <1>2, <3>1, <3>2, <3>3, <3>4
    <3>6. i = n
      BY <3>5
    <3> QED BY <3>4, <3>6
  <2> QED BY <1>1, <1>2, <2>1, <2>2, <2>3 DEF StackOK
<1> QED BY <1>2, <1>6 DEF OwnPtr

LEMMA Routed == ShimInv => RoutedToOwner
<1> SUFFICES ASSUME ShimInv PROVE RoutedToOwner
  OBVIOUS
<1>1. /\ internal \subseteq Starts /\ program \subseteq Starts \cup HeapPointers
      /\ internal \cap program = {}
      /\ heap_live = HeapPointers \cap (program \cup {OwnPtr(stack[t]) : t \in Threads})
  BY DEF ShimInv, PtrInv
<1>2. Null \notin HeapPointers /\ Starts \cap HeapPointers = {}
  BY StartsApart DEF ShimInv
<1>3. ASSUME NEW p \in HeapPointers
      PROVE  p \in Passed <=> p \in {OwnPtr(stack[t]) : t \in Threads}
  <2>1. ASSUME p \in Passed
        PROVE  p \in {OwnPtr(stack[t]) : t \in Threads}
    <3>1. PICK t \in Threads : p \in {f.ptr : f \in {stack[t][i] : i \in DOMAIN stack[t]}}
      BY <2>1 DEF Passed
    <3>2. PICK i \in DOMAIN stack[t] : p = stack[t][i].ptr
      BY <3>1
    <3> QED BY <1>3, <3>2, HeapPointerOwn
  <2>2. ASSUME NEW t \in Threads, p = OwnPtr(stack[t])
        PROVE  p \in Passed
    <3>1. stack[t] # << >> /\ p = stack[t][Len(stack[t])].ptr
      BY <1>2, <1>3, <2>2 DEF OwnPtr
    <3>2. /\ StackOK(stack[t]) /\ DOMAIN stack[t] = 1..Len(stack[t]) /\ Len(stack[t]) \in Nat
          /\ (stack[t] = << >> <=> Len(stack[t]) = 0)
      BY StackFacts DEF ShimInv, ShimType
    <3>3. PICK i : i = Len(stack[t])
      OBVIOUS
    <3>4. i \in DOMAIN stack[t] /\ p = stack[t][i].ptr
      BY <3>1, <3>2, <3>3
    <3>5. p \in {f.ptr : f \in {stack[t][j] : j \in DOMAIN stack[t]}}
      BY <3>4
    <3> QED BY <1>2, <1>3, <3>5 DEF Passed
  <2> QED BY <2>1, <2>2
<1>4. heap_live = (program \cup Passed) \cap HeapPointers
  BY <1>1, <1>3
<1>5. ASSUME NEW t \in Threads, At(t, "heap"), Top(t).fn # "alloc"
      PROVE  Top(t).ptr \in heap_live
  <2>1. PICK l : l = "heap"
    OBVIOUS
  <2>2. At(t, l)
    BY <1>5, <2>1
  <2> QED BY <1>5, <2>1, <2>2, InService
<1>6. internal \cap (program \cup HeapPointers) = {}
  BY <1>1, <1>2
<1>7. program \ HeapPointers \subseteq {b.start : b \in blocks}
  BY <1>1 DEF Starts
<1> QED BY <1>4, <1>5, <1>6, <1>7 DEF RoutedToOwner

\* Every pointer goes back to the allocator it came from, and no block of the
\* heap is dropped on the way.
THEOREM ShimRoutedToOwner == Spec => []RoutedToOwner
BY ShimInvariant, Routed, PTL

-----------------------------------------------------------------------------
(***************************************************************************)
(* Searching the table of the oracle.                                       *)
(***************************************************************************)

\* What the statistics and the oracle compute with.
LEMMA TraceWords ==
    /\ WordBits \in Nat /\ WordBits >= 1 /\ WordMax \in Nat /\ WordMax + 1 = Pow2[WordBits]
    /\ SparseBits \in Nat /\ Pow2[SparseBits] \in Nat /\ Pow2[SparseBits] >= 1
<1>1. WordBits \in Nat /\ WordBits >= 1 /\ SparseBits \in Nat
  BY TraceAssumption
<1> QED BY <1>1, PowPositive DEF WordMax

\* The least of a set of numbers.
LEMMA LeastIs ==
    ASSUME NEW S \in SUBSET Nat, S # {}
    PROVE  Least(S) \in S /\ \A j \in S : Least(S) <= j
<1>1. \E i \in S : \A j \in S : i <= j
  BY LeastElement
<1> QED BY <1>1 DEF Least

Slots == [granule : Words, handle : Handles \cup {Invalid},
          state : {"EMPTY", "LIVE", "TOMBSTONE"}, retired : BOOLEAN]

IsTable(s, c) == c \in Nat /\ c >= 1 /\ s \in [0 .. (c - 1) -> Slots]

LEMMA TableCapacity ==
    ASSUME NEW s, NEW c, IsTable(s, c)
    PROVE  Capacity(s) = c /\ Probes(s) = 0 .. (c - 1) /\ DOMAIN s = 0 .. (c - 1)
<1>1. DOMAIN s = 0 .. (c - 1) /\ c \in Nat /\ c >= 1
  BY DEF IsTable
<1>2. Cardinality(0 .. (c - 1)) = c
  BY <1>1, FS_Interval
<1> QED BY <1>1, <1>2 DEF Capacity, Probes

LEMMA RemainderIs ==
    ASSUME NEW u \in Nat, u >= 1, NEW q \in Int, NEW r \in Nat, r < u
    PROVE  (u * q + r) % u = r
OBVIOUS

\* A search stays inside the table.
LEMMA ProbeInside ==
    ASSUME NEW s, NEW c, IsTable(s, c), NEW g \in Words, NEW i \in Nat
    PROVE  Probe(s, g, i) \in 0 .. (c - 1)
<1>1. Hash[g] \in Nat /\ c \in Nat /\ c >= 1
  BY TraceAssumption DEF IsTable
<1>2. PICK h \in Nat : h = Hash[g] + i
  BY <1>1
<1>3. h % c \in 0 .. (c - 1)
  BY <1>1, <1>2
<1> QED BY <1>2, <1>3, TableCapacity DEF Probe

\* A search comes to every slot.
LEMMA ProbeCovers ==
    ASSUME NEW s, NEW c, IsTable(s, c), NEW g \in Words, NEW p \in 0 .. (c - 1)
    PROVE  \E i \in 0 .. (c - 1) : Probe(s, g, i) = p
<1>1. Hash[g] \in Nat /\ c \in Nat /\ c >= 1
  BY TraceAssumption DEF IsTable
<1>2. PICK h \in Nat : h = Hash[g]
  BY <1>1
<1>3. PICK r \in 0 .. (c - 1), q \in Int : h = c * q + r
  <2>1. PICK q \in Int : h - (h % c) = c * q
    <3>1. c \in Nat /\ c >= 1 /\ h \in Int
      BY <1>1
    <3> QED BY ONLY <3>1, Quotient
  <2>2. h % c \in 0 .. (c - 1)
    BY <1>1, <1>2
  <2>3. h = c * q + (h % c)
    BY <1>1, <1>2, <2>1, <2>2
  <2> QED BY <2>2, <2>3
<1>4. \E i \in 0 .. (c - 1), m \in Int : h + i = c * m + p
  <2>1. CASE p >= r
    <3>1. p - r \in 0 .. (c - 1) /\ h + (p - r) = c * q + p
      BY <1>1, <1>3, <2>1
    <3> QED BY <3>1
  <2>2. CASE ~(p >= r)
    <3>1. p - r + c \in 0 .. (c - 1) /\ h + (p - r + c) = c * q + c + p
      BY <1>1, <1>3, <2>2
    <3>2. c * q + c = c * (q + 1) /\ q + 1 \in Int
      BY <1>1, <1>3
    <3> QED BY <3>1, <3>2
  <2> QED BY <2>1, <2>2
<1>5. PICK i \in 0 .. (c - 1), m \in Int : h + i = c * m + p
  BY <1>4
<1>6. (h + i) % c = p
  <2>1. c \in Nat /\ c >= 1 /\ p \in Nat /\ p < c /\ m \in Int
    BY <1>1, <1>5
  <2>2. (c * m + p) % c = p
    BY ONLY <2>1, RemainderIs
  <2> QED BY <1>5, <2>2
<1> QED BY <1>2, <1>5, <1>6, TableCapacity DEF Probe

\* A slot in which the granule g is live.
Holds(s, p, g) == s[p].state = "LIVE" /\ s[p].granule = g
IsLive(s, c, g) == \E p \in 0 .. (c - 1) : Holds(s, p, g)

\* A search for g comes to slot p, and passes no empty slot before it.
Reaches(s, c, g, p) ==
    \E i \in 0 .. (c - 1) :
        /\ Probe(s, g, i) = p
        /\ \A j \in 0 .. (i - 1) : s[Probe(s, g, j)].state # "EMPTY"

ReachInv(s, c) ==
    \A p \in 0 .. (c - 1) : s[p].state = "LIVE" => Reaches(s, c, s[p].granule, p)

SingleInv(s, c) ==
    \A p, q \in 0 .. (c - 1) :
        /\ s[p].state = "LIVE" /\ s[q].state = "LIVE"
        /\ s[p].granule = s[q].granule
        => p = q

RetiredInv(s, c) == \A p \in 0 .. (c - 1) : s[p].retired => s[p].state = "LIVE"

\* Every live granule is where a search for it looks, and nowhere else.
SoundTable(s, c) == IsTable(s, c) /\ ReachInv(s, c) /\ SingleInv(s, c) /\ RetiredInv(s, c)

HasEmpty(s, c) == \E p \in 0 .. (c - 1) : s[p].state = "EMPTY"

\* Membership of Ends, and of the tombstones before them.
LEMMA EndsFacts ==
    ASSUME NEW s, NEW c, IsTable(s, c), NEW g
    PROVE  /\ Ends(s, g) \in SUBSET Nat
           /\ \A i : i \in Ends(s, g) <=>
                  /\ i \in 0 .. (c - 1)
                  /\ s[Probe(s, g, i)].state = "EMPTY" \/ Holds(s, Probe(s, g, i), g)
           /\ \A E : TombstonesBefore(s, g, E) \in SUBSET Nat
           /\ \A E, i : i \in TombstonesBefore(s, g, E) <=>
                  /\ i \in 0 .. (c - 1)
                  /\ s[Probe(s, g, i)].state = "TOMBSTONE"
                  /\ E # {} => i < Least(E)
<1>1. Probes(s) = 0 .. (c - 1) /\ c \in Nat
  BY TableCapacity DEF IsTable
<1>2. \A i : i \in Ends(s, g) <=>
                  /\ i \in 0 .. (c - 1)
                  /\ s[Probe(s, g, i)].state = "EMPTY" \/ Holds(s, Probe(s, g, i), g)
  BY <1>1 DEF Ends, Holds
<1>3. \A E, i : i \in TombstonesBefore(s, g, E) <=>
                  /\ i \in 0 .. (c - 1)
                  /\ s[Probe(s, g, i)].state = "TOMBSTONE"
                  /\ E # {} => i < Least(E)
  BY <1>1 DEF TombstonesBefore
<1>4. Ends(s, g) \in SUBSET Nat /\ \A E : TombstonesBefore(s, g, E) \in SUBSET Nat
  BY <1>1, <1>2, <1>3
<1> QED BY <1>2, <1>3, <1>4

\* The two results of a search that is not cut short.
LEMMA FindEnd ==
    ASSUME NEW s, NEW g, NEW b \in BOOLEAN, Ends(s, g) # {},
           \/ s[Probe(s, g, Least(Ends(s, g)))].state = "LIVE"
           \/ ~b
           \/ TombstonesBefore(s, g, Ends(s, g)) = {}
    PROVE  trace_lifecycle_find(s, g, b) = {Probe(s, g, Least(Ends(s, g)))}
BY DEF trace_lifecycle_find

LEMMA FindTombstone ==
    ASSUME NEW s, NEW g, NEW b \in BOOLEAN, Ends(s, g) # {}, b,
           s[Probe(s, g, Least(Ends(s, g)))].state # "LIVE",
           TombstonesBefore(s, g, Ends(s, g)) # {}
    PROVE  trace_lifecycle_find(s, g, b)
             = {Probe(s, g, Least(TombstonesBefore(s, g, Ends(s, g))))}
BY DEF trace_lifecycle_find

\* The slot of a live granule is found, also when tombstones are on the way.
LEMMA FindHit ==
    ASSUME NEW s, NEW c, SoundTable(s, c), NEW g \in Words, NEW b \in BOOLEAN,
           NEW p \in 0 .. (c - 1), Holds(s, p, g)
    PROVE  trace_lifecycle_find(s, g, b) = {p}
<1>1. IsTable(s, c) /\ SingleInv(s, c) /\ Reaches(s, c, g, p)
  BY DEF SoundTable, ReachInv, Holds
<1>2. PICK i \in 0 .. (c - 1) :
        /\ Probe(s, g, i) = p
        /\ \A j \in 0 .. (i - 1) : s[Probe(s, g, j)].state # "EMPTY"
  BY <1>1 DEF Reaches
<1>3. i \in Ends(s, g) /\ Ends(s, g) \in SUBSET Nat
  BY <1>1, <1>2, EndsFacts
<1>4. PICK e : e = Least(Ends(s, g))
  OBVIOUS
<1>5. e \in Ends(s, g) /\ e <= i
  BY <1>3, <1>4, LeastIs
<1>6. Holds(s, Probe(s, g, e), g)
  <2>1. CASE e = i
    BY <1>2, <2>1
  <2>2. CASE e # i
    <3>1. e \in 0 .. (i - 1)
      BY <1>2, <1>3, <1>5, <2>2
    <3>2. s[Probe(s, g, e)].state # "EMPTY"
      BY <1>2, <3>1
    <3> QED BY <1>1, <1>5, <3>2, EndsFacts
  <2> QED BY <2>1, <2>2
<1>7. Probe(s, g, e) \in 0 .. (c - 1)
  BY <1>1, <1>3, <1>5, ProbeInside
<1>8. Probe(s, g, e) = p
  BY <1>1, <1>6, <1>7 DEF SingleInv, Holds
<1> QED BY <1>3, <1>4, <1>6, <1>8, FindEnd DEF Holds

\* The slot where a granule belongs that is not live.
LEMMA FindMiss ==
    ASSUME NEW s, NEW c, SoundTable(s, c), HasEmpty(s, c), NEW g \in Words,
           NEW b \in BOOLEAN, ~IsLive(s, c, g)
    PROVE  \E q \in 0 .. (c - 1) :
              /\ trace_lifecycle_find(s, g, b) = {q}
              /\ s[q].state # "LIVE" /\ (~b => s[q].state = "EMPTY")
              /\ Reaches(s, c, g, q)
<1>1. IsTable(s, c)
  BY DEF SoundTable
<1>2. PICK p \in 0 .. (c - 1) : s[p].state = "EMPTY"
  BY DEF HasEmpty
<1>3. PICK i \in 0 .. (c - 1) : Probe(s, g, i) = p
  BY <1>1, ProbeCovers
<1>4. i \in Ends(s, g) /\ Ends(s, g) \in SUBSET Nat /\ Ends(s, g) # {}
  BY <1>1, <1>2, <1>3, EndsFacts
<1>5. PICK e : e = Least(Ends(s, g))
  OBVIOUS
<1>6. e \in Ends(s, g) /\ e \in 0 .. (c - 1) /\ \A j \in Ends(s, g) : e <= j
  BY <1>1, <1>4, <1>5, LeastIs, EndsFacts
<1>7. Probe(s, g, e) \in 0 .. (c - 1)
  BY <1>1, <1>6, ProbeInside
<1>8. s[Probe(s, g, e)].state = "EMPTY"
  BY <1>1, <1>6, <1>7, EndsFacts DEF IsLive
<1>9. \A j \in 0 .. (e - 1) : s[Probe(s, g, j)].state # "EMPTY"
  <2> SUFFICES ASSUME NEW j \in 0 .. (e - 1), s[Probe(s, g, j)].state = "EMPTY" PROVE FALSE
    OBVIOUS
  <2>1. j \in 0 .. (c - 1) /\ j < e
    BY <1>1, <1>6 DEF IsTable
  <2>2. j \in Ends(s, g)
    BY <1>1, <2>1, EndsFacts
  <2> QED BY <1>6, <2>1, <2>2
<1>10. PICK T : T = IF b THEN TombstonesBefore(s, g, Ends(s, g)) ELSE {}
  OBVIOUS
<1>11. CASE T = {}
  <2>1. trace_lifecycle_find(s, g, b) = {Probe(s, g, e)}
    BY <1>4, <1>5, <1>10, <1>11, FindEnd
  <2>2. Reaches(s, c, g, Probe(s, g, e))
    BY <1>6, <1>9 DEF Reaches
  <2> QED BY <1>7, <1>8, <2>1, <2>2
<1>12. CASE T # {}
  <2>1. T \in SUBSET Nat
    BY <1>1, <1>10, EndsFacts
  <2>2. PICK t : t = Least(T)
    OBVIOUS
  <2>3. t \in T
    BY <1>12, <2>1, <2>2, LeastIs
  <2>4. b /\ t \in 0 .. (c - 1) /\ s[Probe(s, g, t)].state = "TOMBSTONE" /\ t < e
    BY <1>1, <1>4, <1>5, <1>10, <2>3, EndsFacts
  <2>5. trace_lifecycle_find(s, g, b) = {Probe(s, g, t)}
    BY <1>4, <1>5, <1>8, <1>10, <1>12, <2>2, FindTombstone
  <2>6. Reaches(s, c, g, Probe(s, g, t))
    BY <1>6, <1>9, <2>4 DEF Reaches
  <2>7. Probe(s, g, t) \in 0 .. (c - 1)
    BY <1>1, <2>4, ProbeInside
  <2> QED BY <2>4, <2>5, <2>6, <2>7
<1> QED BY <1>11, <1>12

-----------------------------------------------------------------------------
(***************************************************************************)
(* One slot changes.                                                        *)
(***************************************************************************)

\* The granule x is live with handle h.
Entry(s, c, x, h) == \E p \in 0 .. (c - 1) : Holds(s, p, x) /\ s[p].handle = h

LiveOf(s, c) == {p \in 0 .. (c - 1) : s[p].state = "LIVE"}
EmptyOf(s, c) == {p \in 0 .. (c - 1) : s[p].state = "EMPTY"}

\* What a lookup of granule g in the table answers.
Answer(s, g) ==
    IF LiveSlot(s, g) = {} THEN Invalid ELSE s[CHOOSE p \in LiveSlot(s, g) : TRUE].handle

LEMMA AnswerHit ==
    ASSUME NEW s, NEW c, SoundTable(s, c), NEW g \in Words, NEW h, Entry(s, c, g, h)
    PROVE  /\ Answer(s, g) = h
           /\ \E p \in 0 .. (c - 1) : Holds(s, p, g) /\ s[p].handle = h /\ LiveSlot(s, g) = {p}
<1>1. PICK p \in 0 .. (c - 1) : Holds(s, p, g) /\ s[p].handle = h
  BY DEF Entry
<1>2. trace_lifecycle_find(s, g, FALSE) = {p}
  BY <1>1, FindHit
<1>3. LiveSlot(s, g) = {p}
  BY <1>1, <1>2 DEF LiveSlot, Holds
<1> QED BY <1>1, <1>3 DEF Answer

LEMMA AnswerMiss ==
    ASSUME NEW s, NEW c, SoundTable(s, c), HasEmpty(s, c), NEW g \in Words,
           \A h : ~Entry(s, c, g, h)
    PROVE  Answer(s, g) = Invalid /\ LiveSlot(s, g) = {}
<1>1. ~IsLive(s, c, g)
  BY DEF IsLive, Entry
<1>2. PICK q \in 0 .. (c - 1) : trace_lifecycle_find(s, g, FALSE) = {q} /\ s[q].state # "LIVE"
  BY <1>1, FindMiss
<1>3. LiveSlot(s, g) = {}
  BY <1>2 DEF LiveSlot
<1> QED BY <1>3 DEF Answer

\* An answer determines the entry.
LEMMA AnswerIs ==
    ASSUME NEW s, NEW c, SoundTable(s, c), HasEmpty(s, c), NEW g \in Words
    PROVE  /\ LiveSlot(s, g) = {} <=> \A h : ~Entry(s, c, g, h)
           /\ \A h : Entry(s, c, g, h) => Answer(s, g) = h
           /\ (\A h : ~Entry(s, c, g, h)) => Answer(s, g) = Invalid
           /\ \A p \in LiveSlot(s, g) : p \in 0 .. (c - 1) /\ Holds(s, p, g)
<1>1. ASSUME NEW h, Entry(s, c, g, h)
      PROVE  /\ Answer(s, g) = h /\ LiveSlot(s, g) # {}
             /\ \A p \in LiveSlot(s, g) : p \in 0 .. (c - 1) /\ Holds(s, p, g)
  BY <1>1, AnswerHit
<1>2. (\A h : ~Entry(s, c, g, h)) => Answer(s, g) = Invalid /\ LiveSlot(s, g) = {}
  BY AnswerMiss
<1> QED BY <1>1, <1>2

LEMMA ProbeSame ==
    ASSUME NEW s, NEW s2, NEW c, IsTable(s, c), IsTable(s2, c)
    PROVE  \A x, i : Probe(s2, x, i) = Probe(s, x, i)
BY TableCapacity DEF Probe

\* A search still comes to a slot when no slot has become empty.
LEMMA ReachKept ==
    ASSUME NEW s, NEW s2, NEW c, IsTable(s, c), IsTable(s2, c),
           \A p \in 0 .. (c - 1) : s[p].state # "EMPTY" => s2[p].state # "EMPTY",
           NEW x \in Words, NEW q, Reaches(s, c, x, q)
    PROVE  Reaches(s2, c, x, q)
<1>1. PICK i \in 0 .. (c - 1) :
        /\ Probe(s, x, i) = q
        /\ \A j \in 0 .. (i - 1) : s[Probe(s, x, j)].state # "EMPTY"
  BY DEF Reaches
<1>2. Probe(s2, x, i) = q
  BY <1>1, ProbeSame
<1>3. ASSUME NEW j \in 0 .. (i - 1) PROVE s2[Probe(s2, x, j)].state # "EMPTY"
  <2>1. j \in Nat
    BY <1>1
  <2>2. Probe(s, x, j) \in 0 .. (c - 1)
    BY <2>1, ProbeInside
  <2>3. Probe(s2, x, j) = Probe(s, x, j)
    BY ProbeSame
  <2> QED BY <1>1, <2>2, <2>3
<1> QED BY <1>1, <1>2, <1>3 DEF Reaches

Inserted(g, h) == [granule |-> g, handle |-> h, state |-> "LIVE", retired |-> FALSE]

\* s2 is s with g inserted in slot q; with slot q removed or retired.
InsertedAt(s2, s, q, g, h) == s2 = [s EXCEPT ![q] = Inserted(g, h)]
ChangedAt(s2, s, q, op) ==
    s2 = [s EXCEPT ![q] =
              IF op = "REMOVE" THEN [s[q] EXCEPT !.state = "TOMBSTONE", !.retired = FALSE]
              ELSE [s[q] EXCEPT !.retired = TRUE]]

\* An insertion into a slot that a search for the granule comes to.
LEMMA InsertOne ==
    ASSUME NEW s, NEW c, SoundTable(s, c), NEW g \in Words, ~IsLive(s, c, g),
           NEW h \in Handles \cup {Invalid},
           NEW q \in 0 .. (c - 1), s[q].state # "LIVE", Reaches(s, c, g, q),
           NEW s2, InsertedAt(s2, s, q, g, h)
    PROVE  /\ SoundTable(s2, c)
           /\ \A x, k : Entry(s2, c, x, k) <=> (x = g /\ k = h) \/ Entry(s, c, x, k)
           /\ LiveOf(s2, c) = LiveOf(s, c) \cup {q} /\ q \notin LiveOf(s, c)
           /\ EmptyOf(s2, c) = EmptyOf(s, c) \ {q}
<1>1. IsTable(s, c) /\ ReachInv(s, c) /\ SingleInv(s, c) /\ RetiredInv(s, c)
  BY DEF SoundTable
<1>2. Inserted(g, h) \in Slots
  BY DEF Inserted, Slots
<1>3. IsTable(s2, c)
  BY <1>1, <1>2 DEF IsTable, InsertedAt
<1>4. s2[q] = Inserted(g, h) /\ \A p \in 0 .. (c - 1) : p # q => s2[p] = s[p]
  BY <1>1 DEF IsTable, InsertedAt
<1>5. s2[q].state = "LIVE" /\ s2[q].granule = g /\ s2[q].handle = h /\ s2[q].retired = FALSE
  BY <1>4 DEF Inserted
<1>6. \A p \in 0 .. (c - 1) : s[p].state # "EMPTY" => s2[p].state # "EMPTY"
  BY <1>4, <1>5
<1>7. ReachInv(s2, c)
  <2> SUFFICES ASSUME NEW p \in 0 .. (c - 1), s2[p].state = "LIVE"
               PROVE  Reaches(s2, c, s2[p].granule, p)
    BY DEF ReachInv
  <2>1. CASE p = q
    <3>1. Reaches(s2, c, g, q)
      BY <1>1, <1>3, <1>6, ReachKept
    <3> QED BY <1>5, <2>1, <3>1
  <2>2. CASE p # q
    <3>1. s2[p] = s[p]
      BY <1>4, <2>2
    <3>2. Reaches(s, c, s[p].granule, p)
      BY <1>1, <3>1 DEF ReachInv
    <3>3. s[p].granule \in Words
      BY <1>1 DEF IsTable, Slots
    <3>4. Reaches(s2, c, s[p].granule, p)
      BY <1>1, <1>3, <1>6, <3>2, <3>3, ReachKept
    <3> QED BY <3>1, <3>4
  <2> QED BY <2>1, <2>2
<1>8. SingleInv(s2, c)
  <2>1. \A p \in 0 .. (c - 1) : s[p].state = "LIVE" => s[p].granule # g
    BY DEF IsLive, Holds
  <2> QED BY <1>1, <1>4, <1>5, <2>1 DEF SingleInv
<1>9. RetiredInv(s2, c)
  BY <1>1, <1>4, <1>5 DEF RetiredInv
<1>10. \A x, k : Entry(s2, c, x, k) <=> (x = g /\ k = h) \/ Entry(s, c, x, k)
  <2>1. ASSUME NEW x, NEW k, Entry(s2, c, x, k) PROVE (x = g /\ k = h) \/ Entry(s, c, x, k)
    BY <1>4, <1>5, <2>1 DEF Entry, Holds
  <2>2. Entry(s2, c, g, h)
    BY <1>5 DEF Entry, Holds
  <2>3. ASSUME NEW x, NEW k, Entry(s, c, x, k) PROVE Entry(s2, c, x, k)
    <3>1. PICK p \in 0 .. (c - 1) : Holds(s, p, x) /\ s[p].handle = k
      BY <2>3 DEF Entry
    <3>2. p # q
      BY <3>1 DEF Holds
    <3>3. Holds(s2, p, x) /\ s2[p].handle = k
      BY <1>4, <3>1, <3>2 DEF Holds
    <3> QED BY <3>3 DEF Entry
  <2> QED BY <2>1, <2>2, <2>3
<1>11. LiveOf(s2, c) = LiveOf(s, c) \cup {q} /\ q \notin LiveOf(s, c)
  BY <1>4, <1>5 DEF LiveOf
<1>12. EmptyOf(s2, c) = EmptyOf(s, c) \ {q}
  BY <1>4, <1>5 DEF EmptyOf
<1> QED BY <1>3, <1>7, <1>8, <1>9, <1>10, <1>11, <1>12 DEF SoundTable

\* A live slot is retired, or becomes a tombstone.
LEMMA ChangeOne ==
    ASSUME NEW s, NEW c, SoundTable(s, c), NEW q \in 0 .. (c - 1), s[q].state = "LIVE",
           NEW op \in {"REMOVE", "RETIRE"},
           NEW s2, ChangedAt(s2, s, q, op)
    PROVE  /\ SoundTable(s2, c)
           /\ \A x, k : Entry(s2, c, x, k) <=> Entry(s, c, x, k) /\ ~(op = "REMOVE" /\ x = s[q].granule)
           /\ LiveOf(s2, c) = IF op = "REMOVE" THEN LiveOf(s, c) \ {q} ELSE LiveOf(s, c)
           /\ q \in LiveOf(s, c)
           /\ EmptyOf(s2, c) = EmptyOf(s, c)
<1>1. IsTable(s, c) /\ ReachInv(s, c) /\ SingleInv(s, c) /\ RetiredInv(s, c)
  BY DEF SoundTable
<1>2. s[q] \in Slots /\ s2[q] = IF op = "REMOVE" THEN [s[q] EXCEPT !.state = "TOMBSTONE", !.retired = FALSE]
                                ELSE [s[q] EXCEPT !.retired = TRUE]
  BY <1>1 DEF IsTable, ChangedAt
<1>3. /\ s2[q] \in Slots
      /\ s2[q].granule = s[q].granule /\ s2[q].handle = s[q].handle
      /\ s2[q].state = IF op = "REMOVE" THEN "TOMBSTONE" ELSE "LIVE"
      /\ s2[q].retired => op # "REMOVE"
  <2>1. CASE op = "REMOVE"
    <3>1. s2[q] = [s[q] EXCEPT !.state = "TOMBSTONE", !.retired = FALSE]
      BY <1>2, <2>1
    <3>2. PICK y : y = s[q]
      OBVIOUS
    <3>3. y \in Slots /\ s2[q] = [y EXCEPT !.state = "TOMBSTONE", !.retired = FALSE]
      BY <1>2, <3>1, <3>2
    <3>4. /\ s2[q] \in Slots /\ s2[q].granule = y.granule /\ s2[q].handle = y.handle
          /\ s2[q].state = "TOMBSTONE" /\ s2[q].retired = FALSE
      BY ONLY <3>3 DEF Slots
    <3> QED BY <2>1, <3>2, <3>4
  <2>2. CASE op # "REMOVE"
    <3>1. s2[q] = [s[q] EXCEPT !.retired = TRUE]
      BY <1>2, <2>2
    <3>2. PICK y : y = s[q]
      OBVIOUS
    <3>3. y \in Slots /\ y.state = "LIVE" /\ s2[q] = [y EXCEPT !.retired = TRUE]
      BY <1>2, <3>1, <3>2
    <3>4. /\ s2[q] \in Slots /\ s2[q].granule = y.granule /\ s2[q].handle = y.handle
          /\ s2[q].state = "LIVE"
      BY ONLY <3>3 DEF Slots
    <3> QED BY <2>2, <3>2, <3>4
  <2> QED BY <2>1, <2>2
<1>4. \A p \in 0 .. (c - 1) : p # q => s2[p] = s[p]
  BY <1>1 DEF IsTable, ChangedAt
<1>5. IsTable(s2, c)
  BY <1>1, <1>3 DEF IsTable, ChangedAt
<1>6. \A p \in 0 .. (c - 1) :
        /\ s[p].state # "EMPTY" => s2[p].state # "EMPTY"
        /\ s2[p].granule = s[p].granule /\ s2[p].handle = s[p].handle
        /\ s2[p].state = "LIVE" <=> s[p].state = "LIVE" /\ ~(op = "REMOVE" /\ p = q)
        /\ s2[p].state = "EMPTY" <=> s[p].state = "EMPTY"
  BY <1>3, <1>4
<1>7. ReachInv(s2, c)
  <2> SUFFICES ASSUME NEW p \in 0 .. (c - 1), s2[p].state = "LIVE"
               PROVE  Reaches(s2, c, s2[p].granule, p)
    BY DEF ReachInv
  <2>1. Reaches(s, c, s[p].granule, p)
    BY <1>1, <1>6 DEF ReachInv
  <2>2. s[p].granule \in Words
    BY <1>1 DEF IsTable, Slots
  <2>3. \A r \in 0 .. (c - 1) : s[r].state # "EMPTY" => s2[r].state # "EMPTY"
    BY <1>6
  <2>4. Reaches(s2, c, s[p].granule, p)
    BY <1>1, <1>5, <2>1, <2>2, <2>3, ReachKept
  <2> QED BY <1>6, <2>4
<1>8. SingleInv(s2, c)
  BY <1>1, <1>6 DEF SingleInv
<1>9. RetiredInv(s2, c)
  BY <1>1, <1>3, <1>4 DEF RetiredInv
<1>10. \A x, k : Entry(s2, c, x, k) <=> Entry(s, c, x, k) /\ ~(op = "REMOVE" /\ x = s[q].granule)
  <2>1. ASSUME NEW x, NEW k, Entry(s2, c, x, k)
        PROVE  Entry(s, c, x, k) /\ ~(op = "REMOVE" /\ x = s[q].granule)
    <3>1. PICK p \in 0 .. (c - 1) : Holds(s2, p, x) /\ s2[p].handle = k
      BY <2>1 DEF Entry
    <3>2. Holds(s, p, x) /\ s[p].handle = k /\ ~(op = "REMOVE" /\ p = q)
      BY <1>6, <3>1 DEF Holds
    <3>3. x = s[q].granule => p = q
      BY <1>1, <3>2 DEF SingleInv, Holds
    <3> QED BY <3>2, <3>3 DEF Entry
  <2>2. ASSUME NEW x, NEW k, Entry(s, c, x, k), ~(op = "REMOVE" /\ x = s[q].granule)
        PROVE  Entry(s2, c, x, k)
    <3>1. PICK p \in 0 .. (c - 1) : Holds(s, p, x) /\ s[p].handle = k
      BY <2>2 DEF Entry
    <3>2. ~(op = "REMOVE" /\ p = q)
      BY <2>2, <3>1 DEF Holds
    <3>3. Holds(s2, p, x) /\ s2[p].handle = k
      BY <1>6, <3>1, <3>2 DEF Holds
    <3> QED BY <3>3 DEF Entry
  <2> QED BY <2>1, <2>2
<1>11. LiveOf(s2, c) = (IF op = "REMOVE" THEN LiveOf(s, c) \ {q} ELSE LiveOf(s, c))
  BY <1>6 DEF LiveOf
<1>12. EmptyOf(s2, c) = EmptyOf(s, c) /\ q \in LiveOf(s, c)
  BY <1>6 DEF EmptyOf, LiveOf
<1> QED BY <1>5, <1>7, <1>8, <1>9, <1>10, <1>11, <1>12 DEF SoundTable

-----------------------------------------------------------------------------
(***************************************************************************)
(* The granules of an event change one after the other.                     *)
(***************************************************************************)

\* f follows the loop over the granules of e as far as granule n.
Follows(f, e, s0, n) ==
    /\ f = [k \in 0 .. GranuleCount(e) |-> f[k]]
    /\ f[0] = s0
    /\ \A k \in 1 .. n : f[k] = SlotChanged(f[k - 1], GranuleAt(e, k), e)

\* The recursion of Changed defines a function.
LEMMA ChangedFollows ==
    ASSUME NEW e, GranuleCount(e) \in Nat
    PROVE  \E f : Follows(f, e, table.slots, GranuleCount(e)) /\ Changed(e) = f[GranuleCount(e)]
<1>1. PICK N, s0 : N \in Nat /\ N = GranuleCount(e) /\ s0 = table.slots
  OBVIOUS
<1>2. PICK S : S = {n \in Nat : n <= N => \E f : Follows(f, e, s0, n)}
  OBVIOUS
<1>3. 0 \in S
  <2>1. Follows([k \in 0 .. N |-> s0], e, s0, 0)
    BY <1>1 DEF Follows
  <2> QED BY <1>2, <2>1
<1>4. ASSUME NEW n \in Nat, n \in S PROVE n + 1 \in S
  <2> SUFFICES ASSUME n + 1 <= N PROVE \E f : Follows(f, e, s0, n + 1)
    BY <1>2
  <2>1. PICK f : Follows(f, e, s0, n)
    BY <1>1, <1>2, <1>4
  <2>2. PICK y : y = SlotChanged(f[n], GranuleAt(e, n + 1), e)
    OBVIOUS
  <2>3. PICK g : g = [k \in 0 .. N |-> IF k = n + 1 THEN y ELSE f[k]]
    OBVIOUS
  <2>4. g[0] = s0 /\ g = [k \in 0 .. GranuleCount(e) |-> g[k]]
    BY <1>1, <2>1, <2>3 DEF Follows
  <2>5. ASSUME NEW k \in 1 .. (n + 1) PROVE g[k] = SlotChanged(g[k - 1], GranuleAt(e, k), e)
    <3>1. CASE k = n + 1
      <4>1. g[k] = y /\ g[k - 1] = f[n]
        BY <1>1, <2>3, <3>1
      <4> QED BY <2>2, <3>1, <4>1
    <3>2. CASE k # n + 1
      <4>1. g[k] = f[k] /\ g[k - 1] = f[k - 1] /\ k \in 1 .. n
        BY <1>1, <2>3, <3>2
      <4> QED BY <2>1, <4>1 DEF Follows
    <3> QED BY <3>1, <3>2
  <2>6. Follows(g, e, s0, n + 1)
    BY <2>4, <2>5 DEF Follows
  <2> QED BY <2>6
<1>5. PICK h : Follows(h, e, s0, N)
  <2>1. N \in S
    BY <1>1, <1>3, <1>4, Induction
  <2> QED BY <1>1, <1>2, <2>1
<1>6. h = [n \in 0 .. GranuleCount(e) |->
             IF n = 0 THEN table.slots ELSE SlotChanged(h[n - 1], GranuleAt(e, n), e)]
  <2>1. ASSUME NEW n \in 0 .. GranuleCount(e)
        PROVE h[n] = IF n = 0 THEN table.slots ELSE SlotChanged(h[n - 1], GranuleAt(e, n), e)
    BY <1>1, <1>5 DEF Follows
  <2>2. h = [n \in 0 .. GranuleCount(e) |-> h[n]]
    BY <1>5 DEF Follows
  <2> QED BY <2>1, <2>2
<1>7. PICK f : f = CHOOSE after : after = [n \in 0 .. GranuleCount(e) |->
             IF n = 0 THEN table.slots ELSE SlotChanged(after[n - 1], GranuleAt(e, n), e)]
  OBVIOUS
<1>8. f = [n \in 0 .. GranuleCount(e) |->
             IF n = 0 THEN table.slots ELSE SlotChanged(f[n - 1], GranuleAt(e, n), e)]
  BY <1>6, <1>7
<1>9. Follows(f, e, table.slots, GranuleCount(e))
  <2>1. f = [k \in 0 .. GranuleCount(e) |-> f[k]] /\ f[0] = table.slots
    BY <1>1, <1>8
  <2>2. ASSUME NEW k \in 1 .. GranuleCount(e)
        PROVE  f[k] = SlotChanged(f[k - 1], GranuleAt(e, k), e)
    <3>1. k \in 0 .. GranuleCount(e) /\ k # 0
      BY <1>1
    <3> QED BY <1>8, <3>1
  <2> QED BY <2>1, <2>2 DEF Follows
<1>10. Changed(e) = f[GranuleCount(e)]
  BY <1>7 DEF Changed
<1> QED BY <1>9, <1>10

\* What a search finds, to insert and otherwise.
TakesSlot(s, g, q) == trace_lifecycle_find(s, g, TRUE) = {q}
FindsSlot(s, g, q) == trace_lifecycle_find(s, g, FALSE) = {q}

WrittenAt(s2, s, q, y) == s2 = [s EXCEPT ![q] = y]

\* One iteration, when the search finds a slot.
LEMMA InsertSlotIs ==
    ASSUME NEW s, NEW g, NEW e, NEW q, e.operation = "INSERT", TakesSlot(s, g, q)
    PROVE  WrittenAt(SlotChanged(s, g, e), s, q, SlotAfter(s[q], g, e))
<1>1. trace_lifecycle_find(s, g, e.operation = "INSERT") = trace_lifecycle_find(s, g, TRUE)
  BY DEF trace_lifecycle_find
<1>2. (CHOOSE p \in trace_lifecycle_find(s, g, e.operation = "INSERT") : TRUE) = q
  BY <1>1 DEF TakesSlot, FindsSlot
<1> QED BY <1>2 DEF SlotChanged, WrittenAt

LEMMA OtherSlotIs ==
    ASSUME NEW s, NEW g, NEW e, NEW q, e.operation # "INSERT", FindsSlot(s, g, q)
    PROVE  WrittenAt(SlotChanged(s, g, e), s, q, SlotAfter(s[q], g, e))
<1>1. trace_lifecycle_find(s, g, e.operation = "INSERT") = trace_lifecycle_find(s, g, FALSE)
  BY DEF trace_lifecycle_find
<1>2. (CHOOSE p \in trace_lifecycle_find(s, g, e.operation = "INSERT") : TRUE) = q
  BY <1>1 DEF TakesSlot, FindsSlot
<1> QED BY <1>2 DEF SlotChanged, WrittenAt

FirstGranules(e, n) == {GranuleAt(e, m) : m \in 1 .. n}

\* The table after the first n granules of e: what it answers, and how many
\* slots are live or empty.
Stage(s, e, c, s0, n) ==
    /\ SoundTable(s, c)
    /\ Cardinality(LiveOf(s, c)) = Cardinality(LiveOf(s0, c))
           + (CASE e.operation = "INSERT" -> n [] e.operation = "REMOVE" -> 0 - n [] OTHER -> 0)
    /\ Cardinality(EmptyOf(s, c)) >= Cardinality(EmptyOf(s0, c))
           - (IF e.operation = "INSERT" THEN n ELSE 0)
    /\ \A x, k : Entry(s, c, x, k) <=>
          CASE e.operation = "INSERT" ->
                  Entry(s0, c, x, k) \/ (k = e.handle /\ x \in FirstGranules(e, n))
            [] e.operation = "REMOVE" -> Entry(s0, c, x, k) /\ x \notin FirstGranules(e, n)
            [] OTHER -> Entry(s0, c, x, k)

LEMMA CountsFinite ==
    ASSUME NEW s, NEW c \in Nat
    PROVE  /\ IsFiniteSet(LiveOf(s, c)) /\ Cardinality(LiveOf(s, c)) \in Nat
           /\ IsFiniteSet(EmptyOf(s, c)) /\ Cardinality(EmptyOf(s, c)) \in Nat
<1>1. IsFiniteSet(0 .. (c - 1))
  BY FS_Interval
<1>2. LiveOf(s, c) \in SUBSET (0 .. (c - 1)) /\ EmptyOf(s, c) \in SUBSET (0 .. (c - 1))
  BY DEF LiveOf, EmptyOf
<1> QED BY <1>1, <1>2, FS_Subset, FS_CardinalityType

LEMMA FirstGranulesNext ==
    ASSUME NEW e, NEW n \in Nat
    PROVE  FirstGranules(e, n + 1) = FirstGranules(e, n) \cup {GranuleAt(e, n + 1)}
<1>1. 1 .. (n + 1) = (1 .. n) \cup {n + 1}
  OBVIOUS
<1> QED BY <1>1 DEF FirstGranules

LEMMA InsertStage ==
    ASSUME NEW e, e.operation = "INSERT", e.handle \in Handles,
           NEW c, NEW s0, NEW s, NEW n \in Nat, Stage(s, e, c, s0, n),
           NEW g \in Words, g = GranuleAt(e, n + 1), g \notin FirstGranules(e, n),
           \A k : ~Entry(s0, c, g, k),
           Cardinality(EmptyOf(s0, c)) >= n + 1
    PROVE  Stage(SlotChanged(s, g, e), e, c, s0, n + 1)
<1>1. SoundTable(s, c) /\ c \in Nat
  BY DEF Stage, SoundTable, IsTable
<1>2. /\ \A x, k : Entry(s, c, x, k) <=>
             Entry(s0, c, x, k) \/ (k = e.handle /\ x \in FirstGranules(e, n))
      /\ Cardinality(LiveOf(s, c)) = Cardinality(LiveOf(s0, c)) + n
      /\ Cardinality(EmptyOf(s, c)) >= Cardinality(EmptyOf(s0, c)) - n
  BY DEF Stage
<1>3. /\ IsFiniteSet(LiveOf(s, c)) /\ Cardinality(LiveOf(s, c)) \in Nat
      /\ IsFiniteSet(EmptyOf(s, c)) /\ Cardinality(EmptyOf(s, c)) \in Nat
      /\ Cardinality(LiveOf(s0, c)) \in Nat /\ Cardinality(EmptyOf(s0, c)) \in Nat
  BY <1>1, CountsFinite
<1>4. HasEmpty(s, c)
  <2>1. Cardinality(EmptyOf(s, c)) # 0
    BY <1>2, <1>3
  <2>2. EmptyOf(s, c) # {}
    BY <2>1, FS_EmptySet
  <2> QED BY <2>2 DEF HasEmpty, EmptyOf
<1>5. ~IsLive(s, c, g)
  <2>1. \A k : ~Entry(s, c, g, k)
    BY <1>2
  <2> QED BY <2>1 DEF IsLive, Entry
<1>6. PICK q \in 0 .. (c - 1) :
              /\ trace_lifecycle_find(s, g, TRUE) = {q}
              /\ s[q].state # "LIVE" /\ Reaches(s, c, g, q)
  BY <1>1, <1>4, <1>5, FindMiss
<1>7. PICK s2 : s2 = SlotChanged(s, g, e)
  OBVIOUS
<1>8. s2 = [s EXCEPT ![q] = Inserted(g, e.handle)]
  <2>1. SlotAfter(s[q], g, e) = Inserted(g, e.handle)
    BY DEF SlotAfter, Inserted
  <2>2. SlotChanged(s, g, e) = [s EXCEPT ![q] = SlotAfter(s[q], g, e)]
    <3>1. TakesSlot(s, g, q)
      BY <1>6 DEF TakesSlot
    <3>2. WrittenAt(SlotChanged(s, g, e), s, q, SlotAfter(s[q], g, e))
      BY <3>1, InsertSlotIs
    <3> QED BY <3>2 DEF WrittenAt
  <2> QED BY <1>7, <2>1, <2>2
<1>9. /\ SoundTable(s2, c)
      /\ \A x, k : Entry(s2, c, x, k) <=> (x = g /\ k = e.handle) \/ Entry(s, c, x, k)
      /\ LiveOf(s2, c) = LiveOf(s, c) \cup {q} /\ q \notin LiveOf(s, c)
      /\ EmptyOf(s2, c) = EmptyOf(s, c) \ {q}
  <2>1. PICK h : h = e.handle
    OBVIOUS
  <2>2. h \in Handles \cup {Invalid} /\ g \in Words /\ InsertedAt(s2, s, q, g, h)
    BY <1>8, <2>1 DEF InsertedAt
  <2>3. /\ SoundTable(s2, c)
        /\ \A x, k : Entry(s2, c, x, k) <=> (x = g /\ k = h) \/ Entry(s, c, x, k)
        /\ LiveOf(s2, c) = LiveOf(s, c) \cup {q} /\ q \notin LiveOf(s, c)
        /\ EmptyOf(s2, c) = EmptyOf(s, c) \ {q}
    BY ONLY <1>1, <1>5, <1>6, <2>2, InsertOne
  <2> QED BY <2>1, <2>3
<1>10. Cardinality(LiveOf(s2, c)) = Cardinality(LiveOf(s0, c)) + (n + 1)
  <2>1. Cardinality(LiveOf(s2, c)) = Cardinality(LiveOf(s, c)) + 1
    BY ONLY <1>3, <1>9, FS_AddElement
  <2> QED BY <1>2, <1>3, <2>1
<1>11. Cardinality(EmptyOf(s2, c)) >= Cardinality(EmptyOf(s0, c)) - (n + 1)
  <2>1. Cardinality(EmptyOf(s2, c)) >= Cardinality(EmptyOf(s, c)) - 1
    <3>1. \/ Cardinality(EmptyOf(s2, c)) = Cardinality(EmptyOf(s, c)) - 1
          \/ Cardinality(EmptyOf(s2, c)) = Cardinality(EmptyOf(s, c))
      BY ONLY <1>3, <1>9, FS_RemoveElement
    <3> QED BY <1>3, <3>1
  <2>2. Cardinality(EmptyOf(s2, c)) \in Nat
    BY <1>1, CountsFinite
  <2> QED BY <1>2, <1>3, <2>1, <2>2
<1>12. \A x, k : Entry(s2, c, x, k) <=>
             Entry(s0, c, x, k) \/ (k = e.handle /\ x \in FirstGranules(e, n + 1))
  BY <1>2, <1>9, FirstGranulesNext
<1>13. Stage(s2, e, c, s0, n + 1)
  BY <1>9, <1>10, <1>11, <1>12 DEF Stage
<1> QED BY <1>7, <1>13

LEMMA RemoveStage ==
    ASSUME NEW e, e.operation = "REMOVE" \/ e.operation = "RETIRE",
           NEW c, NEW s0, NEW s, NEW n \in Nat, Stage(s, e, c, s0, n),
           NEW g \in Words, g = GranuleAt(e, n + 1), g \notin FirstGranules(e, n),
           \E k : Entry(s0, c, g, k)
    PROVE  Stage(SlotChanged(s, g, e), e, c, s0, n + 1)
<1>1. SoundTable(s, c) /\ c \in Nat
  BY DEF Stage, SoundTable, IsTable
<1>2. PICK op \in {"REMOVE", "RETIRE"} : op = e.operation
  OBVIOUS
<1>3. /\ \A x, k : Entry(s, c, x, k) <=>
             Entry(s0, c, x, k) /\ ~(op = "REMOVE" /\ x \in FirstGranules(e, n))
      /\ Cardinality(LiveOf(s, c)) = Cardinality(LiveOf(s0, c)) + (IF op = "REMOVE" THEN 0 - n ELSE 0)
      /\ Cardinality(EmptyOf(s, c)) >= Cardinality(EmptyOf(s0, c)) - 0
  BY <1>2 DEF Stage
<1>4. /\ IsFiniteSet(LiveOf(s, c)) /\ Cardinality(LiveOf(s, c)) \in Nat
      /\ Cardinality(LiveOf(s0, c)) \in Nat
  BY <1>1, CountsFinite
<1>5. PICK q \in 0 .. (c - 1) : Holds(s, q, g)
  BY <1>3 DEF Entry
<1>6. trace_lifecycle_find(s, g, FALSE) = {q} /\ s[q].state = "LIVE" /\ s[q].granule = g
  <2>1. g \in Words /\ FALSE \in BOOLEAN
    OBVIOUS
  <2>2. trace_lifecycle_find(s, g, FALSE) = {q}
    BY ONLY <1>1, <1>5, <2>1, FindHit
  <2> QED BY <1>5, <2>2 DEF Holds
<1>7. PICK s2 : s2 = SlotChanged(s, g, e)
  OBVIOUS
<1>8. ChangedAt(s2, s, q, op)
  <2>1. SlotAfter(s[q], g, e) = IF op = "REMOVE"
            THEN [s[q] EXCEPT !.state = "TOMBSTONE", !.retired = FALSE]
            ELSE [s[q] EXCEPT !.retired = TRUE]
    BY <1>2 DEF SlotAfter
  <2>2. SlotChanged(s, g, e) = [s EXCEPT ![q] = SlotAfter(s[q], g, e)]
    <3>1. FindsSlot(s, g, q)
      BY <1>6 DEF FindsSlot
    <3>2. WrittenAt(SlotChanged(s, g, e), s, q, SlotAfter(s[q], g, e))
      BY <3>1, OtherSlotIs
    <3> QED BY <3>2 DEF WrittenAt
  <2> QED BY <1>7, <2>1, <2>2 DEF ChangedAt
<1>9. /\ SoundTable(s2, c)
      /\ \A x, k : Entry(s2, c, x, k) <=> Entry(s, c, x, k) /\ ~(op = "REMOVE" /\ x = s[q].granule)
      /\ LiveOf(s2, c) = IF op = "REMOVE" THEN LiveOf(s, c) \ {q} ELSE LiveOf(s, c)
      /\ q \in LiveOf(s, c)
      /\ EmptyOf(s2, c) = EmptyOf(s, c)
  BY ONLY <1>1, <1>2, <1>6, <1>8, ChangeOne
<1>10. Cardinality(LiveOf(s2, c))
         = Cardinality(LiveOf(s0, c)) + (IF op = "REMOVE" THEN 0 - (n + 1) ELSE 0)
  <2>1. op = "REMOVE" => Cardinality(LiveOf(s2, c)) = Cardinality(LiveOf(s, c)) - 1
    BY ONLY <1>4, <1>9, FS_RemoveElement
  <2>2. op # "REMOVE" => LiveOf(s2, c) = LiveOf(s, c)
    BY <1>9
  <2> QED BY <1>3, <1>4, <2>1, <2>2
<1>11. \A x, k : Entry(s2, c, x, k) <=>
             Entry(s0, c, x, k) /\ ~(op = "REMOVE" /\ x \in FirstGranules(e, n + 1))
  BY <1>3, <1>6, <1>9, FirstGranulesNext
<1>12. Stage(s2, e, c, s0, n + 1)
  BY <1>2, <1>3, <1>9, <1>10, <1>11 DEF Stage
<1> QED BY <1>7, <1>12

\* The loop over all granules of an event that may be applied.
GranulesDistinct(e) ==
    /\ GranuleCount(e) \in Nat
    /\ \A n \in Nat : n < GranuleCount(e) =>
          GranuleAt(e, n + 1) \in Words /\ GranuleAt(e, n + 1) \notin FirstGranules(e, n)

MayInsert(e, s, c) ==
    /\ e.operation = "INSERT" /\ e.handle \in Handles
    /\ \A g \in GranulesOf(e) : \A k : ~Entry(s, c, g, k)
    /\ Cardinality(EmptyOf(s, c)) >= GranuleCount(e)

MayChange(e, s, c) ==
    /\ e.operation = "REMOVE" \/ e.operation = "RETIRE"
    /\ \A g \in GranulesOf(e) : \E k : Entry(s, c, g, k)

LEMMA ChangedStage ==
    ASSUME NEW e, NEW c, NEW s0, s0 = table.slots, SoundTable(s0, c), GranulesDistinct(e),
           MayInsert(e, s0, c) \/ MayChange(e, s0, c)
    PROVE  Stage(Changed(e), e, c, s0, GranuleCount(e))
<1>1. PICK N \in Nat : N = GranuleCount(e)
  BY DEF GranulesDistinct
<1>2. PICK f : Follows(f, e, s0, N) /\ Changed(e) = f[N]
  BY <1>1, ChangedFollows
<1>3. PICK S : S = {n \in Nat : n <= N => Stage(f[n], e, c, s0, n)}
  OBVIOUS
<1>4. c \in Nat /\ Cardinality(LiveOf(s0, c)) \in Nat /\ Cardinality(EmptyOf(s0, c)) \in Nat
  <2>1. c \in Nat
    BY DEF SoundTable, IsTable
  <2> QED BY <2>1, CountsFinite
<1>5. 0 \in S
  <2>1. FirstGranules(e, 0) = {}
    BY DEF FirstGranules
  <2>2. f[0] = s0
    BY <1>2 DEF Follows
  <2>3. Stage(s0, e, c, s0, 0)
    BY <1>4, <2>1 DEF Stage
  <2> QED BY <1>3, <2>2, <2>3
<1>6. ASSUME NEW n \in Nat, n \in S PROVE n + 1 \in S
  <2> SUFFICES ASSUME n + 1 <= N PROVE Stage(f[n + 1], e, c, s0, n + 1)
    BY <1>3
  <2>1. PICK s : s = f[n]
    OBVIOUS
  <2>2. Stage(s, e, c, s0, n)
    BY <1>1, <1>3, <1>6, <2>1
  <2>3. PICK g : g = GranuleAt(e, n + 1)
    OBVIOUS
  <2>4. g \in Words /\ g \notin FirstGranules(e, n)
    BY <1>1, <2>3 DEF GranulesDistinct
  <2>5. g \in GranulesOf(e)
    BY <1>1, <2>3 DEF GranulesOf
  <2>6. f[n + 1] = SlotChanged(s, g, e)
    <3>1. n + 1 \in 1 .. N /\ (n + 1) - 1 = n
      BY <1>1
    <3> QED BY <1>2, <2>1, <2>3, <3>1 DEF Follows
  <2>7. CASE MayInsert(e, s0, c)
    <3>1. /\ e.operation = "INSERT" /\ e.handle \in Handles
          /\ \A k : ~Entry(s0, c, g, k)
          /\ Cardinality(EmptyOf(s0, c)) >= n + 1
      BY <1>1, <1>4, <2>5, <2>7 DEF MayInsert
    <3>2. Stage(SlotChanged(s, g, e), e, c, s0, n + 1)
      BY <2>2, <2>3, <2>4, <3>1, InsertStage
    <3> QED BY <2>6, <3>2
  <2>8. CASE MayChange(e, s0, c)
    <3>1. /\ e.operation = "REMOVE" \/ e.operation = "RETIRE"
          /\ \E k : Entry(s0, c, g, k)
      BY <2>5, <2>8 DEF MayChange
    <3>2. Stage(SlotChanged(s, g, e), e, c, s0, n + 1)
      BY <2>2, <2>3, <2>4, <3>1, RemoveStage
    <3> QED BY <2>6, <3>2
  <2> QED BY <2>7, <2>8
<1>7. N \in S
  BY <1>5, <1>6, Induction
<1> QED BY <1>1, <1>2, <1>3, <1>7

-----------------------------------------------------------------------------
(***************************************************************************)
(* The granules of a range, and the bytes in them.                          *)
(***************************************************************************)

\* memx_trace_validate has accepted the range of e.
ValidRange(e) ==
    /\ e.address \in Nat /\ e.size \in Nat /\ e.size # 0
    /\ e.address % granule_size = 0 /\ e.size % granule_size = 0
    /\ e.address + e.size <= WordMax

\* Where the granule of address a begins, and the addresses of e.
GranuleStart(a) == a - (a % granule_size)
Bytes(e) == e.address .. (e.address + e.size - 1)

LEMMA MultiplesOrdered ==
    ASSUME NEW u \in Nat, u >= 1, NEW k \in Int, NEW q \in Int, NEW r \in Nat, r < u
    PROVE  (u * k <= u * q + r) <=> k <= q
<1>1. CASE k <= q
  <2>1. PICK d \in Nat : q = k + d
    BY <1>1, q - k \in Nat
  <2>2. u * q = u * k + u * d /\ u * d \in Nat /\ u * k \in Int
    BY <2>1
  <2> QED BY <1>1, <2>2
<1>2. CASE k > q
  <2>1. PICK d \in Nat : k = q + 1 + d
    BY <1>2, k - q - 1 \in Nat
  <2>2. u * k = u * q + u + u * d /\ u * d \in Nat /\ u * q \in Int
    BY <2>1
  <2> QED BY <1>2, <2>2
<1> QED BY <1>1, <1>2

LEMMA RangeIs ==
    ASSUME NEW e, ValidRange(e), granule_size \in Nat, granule_size >= 1
    PROVE  \E A \in Nat, N \in Nat :
              /\ N >= 1 /\ N = GranuleCount(e)
              /\ e.address = granule_size * A /\ e.size = granule_size * N
              /\ \A n \in Nat : GranuleAt(e, n + 1) = granule_size * (A + n)
<1>1. PICK u \in Nat : u = granule_size /\ u >= 1
  OBVIOUS
<1>2. e.address \in Nat /\ e.size \in Nat /\ e.size # 0 /\ e.address % u = 0 /\ e.size % u = 0
  BY <1>1 DEF ValidRange
<1>3. PICK x, y : x = e.address /\ y = e.size
  OBVIOUS
<1>4. \E A \in Int : x = u * A
  <2>1. x \in Int /\ x % u = 0 /\ u >= 1
    BY <1>1, <1>2, <1>3
  <2> QED BY ONLY <1>1, <2>1, MultipleOf
<1>5. PICK A \in Int : x = u * A
  BY <1>4
<1>6. \E N \in Int : y = u * N
  <2>1. y \in Int /\ y % u = 0 /\ u >= 1
    BY <1>1, <1>2, <1>3
  <2> QED BY ONLY <1>1, <2>1, MultipleOf
<1>7. PICK N \in Int : y = u * N
  BY <1>6
<1>8. A >= 0
  <2>1. u * 0 <= u * A + 0
    BY <1>2, <1>3, <1>5
  <2> QED BY ONLY <1>1, <2>1, <1>5, MultiplesOrdered
<1>9. N >= 1
  <2>1. ~(u * N <= u * 0 + 0)
    BY <1>1, <1>2, <1>3, <1>7
  <2>2. ~(N <= 0)
    BY ONLY <1>1, <2>1, <1>7, MultiplesOrdered
  <2> QED BY <1>7, <2>2
<1>10. A \in Nat /\ N \in Nat
  BY <1>8, <1>9
<1>11. GranuleCount(e) = N
  <2>1. (u * N) \div u = N
    BY <1>1, <1>10, ExactQuotient
  <2> QED BY <1>1, <1>3, <1>7, <2>1 DEF GranuleCount
<1>12. ASSUME NEW n \in Nat PROVE GranuleAt(e, n + 1) = u * (A + n)
  <2>1. GranuleAt(e, n + 1) = u * A + ((n + 1) - 1) * u
    BY <1>1, <1>3, <1>5 DEF GranuleAt
  <2>2. u * A + ((n + 1) - 1) * u = u * (A + n)
    BY ONLY <1>1, <1>10, <1>12
  <2> QED BY <2>1, <2>2
<1> QED BY <1>1, <1>3, <1>5, <1>7, <1>9, <1>10, <1>11, <1>12

\* The granules of a range are words, they are distinct, and a byte is in the
\* range when its granule is.
LEMMA RangeGranules ==
    ASSUME NEW e, ValidRange(e), granule_size \in Nat, granule_size >= 1
    PROVE  /\ GranulesDistinct(e)
           /\ GranulesOf(e) = FirstGranules(e, GranuleCount(e))
           /\ \A a \in Words : GranuleStart(a) \in GranulesOf(e) <=> a \in Bytes(e)
           /\ \A g \in GranulesOf(e) : g \in Words /\ GranuleStart(g) = g
<1>1. PICK u \in Nat : u = granule_size /\ u >= 1
  OBVIOUS
<1>2. PICK A \in Nat, N \in Nat :
              /\ N >= 1 /\ N = GranuleCount(e)
              /\ e.address = u * A /\ e.size = u * N
              /\ \A n \in Nat : GranuleAt(e, n + 1) = u * (A + n)
  BY <1>1, RangeIs
<1>3. u * A + u * N <= WordMax /\ WordMax \in Nat
  BY <1>2, TraceWords DEF ValidRange
<1>4. GranulesOf(e) = FirstGranules(e, GranuleCount(e))
  BY DEF GranulesOf, FirstGranules
<1>5. ASSUME NEW n \in Nat, NEW g
      PROVE  g \in FirstGranules(e, n) <=> \E m \in Nat : m < n /\ g = u * (A + m)
  <2>1. ASSUME g \in FirstGranules(e, n) PROVE \E m \in Nat : m < n /\ g = u * (A + m)
    <3>1. PICK k \in 1 .. n : g = GranuleAt(e, k)
      BY <2>1 DEF FirstGranules
    <3>2. PICK m \in Nat : m = k - 1
      BY <3>1
    <3>3. k = m + 1 /\ m < n
      BY <3>1, <3>2
    <3> QED BY <1>2, <3>1, <3>3
  <2>2. ASSUME NEW m \in Nat, m < n, g = u * (A + m) PROVE g \in FirstGranules(e, n)
    <3>1. g = GranuleAt(e, m + 1) /\ m + 1 \in 1 .. n
      BY <1>2, <2>2
    <3> QED BY <3>1 DEF FirstGranules
  <2> QED BY <2>1, <2>2
<1>6. ASSUME NEW k \in Int, NEW q \in Int, u * k = u * q PROVE k = q
  <2>1. u * k <= u * q + 0 /\ u * q <= u * k + 0
    BY <1>6
  <2>2. k <= q /\ q <= k
    BY ONLY <1>1, <1>6, <2>1, MultiplesOrdered
  <2> QED BY <1>6, <2>2
<1>7. ASSUME NEW m \in Nat, m < N PROVE u * (A + m) \in Words
  <2>1. u * (A + m) = u * A + u * m /\ u * A \in Nat /\ u * m \in Nat /\ u * N \in Nat
    BY <1>1, <1>2
  <2>2. u * m <= u * N + 0
    BY ONLY <1>1, <1>2, <1>7, MultiplesOrdered
  <2> QED BY <1>3, <2>1, <2>2 DEF Words
<1>8. GranulesDistinct(e)
  <2>1. ASSUME NEW n \in Nat, n < N
        PROVE  GranuleAt(e, n + 1) \in Words /\ GranuleAt(e, n + 1) \notin FirstGranules(e, n)
    <3>1. GranuleAt(e, n + 1) = u * (A + n) /\ u * (A + n) \in Words
      BY <1>2, <1>7, <2>1
    <3>2. ASSUME NEW m \in Nat, m < n, u * (A + n) = u * (A + m) PROVE FALSE
      <4>1. A + n = A + m
        BY <1>6, <3>2
      <4> QED BY <3>2, <4>1
    <3> QED BY <1>5, <3>1, <3>2
  <2> QED BY <1>2, <2>1 DEF GranulesDistinct
<1>9. ASSUME NEW a \in Words
      PROVE  GranuleStart(a) \in GranulesOf(e) <=> a \in Bytes(e)
  <2>1. a \in Nat
    BY <1>3 DEF Words
  <2>2. PICK r : r = a % u
    OBVIOUS
  <2>3. r \in Nat /\ r < u
    BY <1>1, <2>1, <2>2
  <2>4. PICK q \in Int : a - r = u * q
    <3>1. a \in Int /\ u >= 1
      BY <1>1, <2>1
    <3> QED BY ONLY <1>1, <2>2, <3>1, Quotient
  <2>5. GranuleStart(a) = u * q /\ a = u * q + r
    <3>1. u * q \in Int
      BY <1>1, <2>4
    <3> QED BY <1>1, <2>1, <2>2, <2>3, <2>4, <3>1 DEF GranuleStart
  <2>6. A <= q <=> u * A <= a
    BY ONLY <1>1, <1>2, <2>3, <2>4, <2>5, MultiplesOrdered
  <2>7. A + N <= q <=> u * (A + N) <= a
    <3>1. A + N \in Int
      OBVIOUS
    <3> QED BY ONLY <1>1, <2>3, <2>4, <2>5, <3>1, MultiplesOrdered
  <2>8. a \in Bytes(e) <=> A <= q /\ q < A + N
    <3>1. u * (A + N) = u * A + u * N /\ u * A \in Int /\ u * N \in Int
      BY <1>1
    <3>2. a \in Bytes(e) <=> u * A <= a /\ a < u * A + u * N
      BY <1>2, <2>1, <3>1 DEF Bytes
    <3> QED BY <2>1, <2>4, <2>6, <2>7, <3>1, <3>2
  <2>9. ASSUME A <= q /\ q < A + N PROVE GranuleStart(a) \in GranulesOf(e)
    <3>1. PICK m \in Nat : m = q - A
      BY <2>4, <2>9
    <3>2. m < N /\ GranuleStart(a) = u * (A + m)
      BY <2>4, <2>5, <2>9, <3>1
    <3> QED BY <1>2, <1>4, <1>5, <3>2
  <2>10. ASSUME GranuleStart(a) \in GranulesOf(e) PROVE A <= q /\ q < A + N
    <3>1. PICK m \in Nat : m < N /\ GranuleStart(a) = u * (A + m)
      BY <1>2, <1>4, <1>5, <2>10
    <3>2. q = A + m
      BY <1>6, <2>4, <2>5, <3>1
    <3> QED BY <3>1, <3>2
  <2> QED BY <2>8, <2>9, <2>10
<1>10. ASSUME NEW g \in GranulesOf(e) PROVE g \in Words /\ GranuleStart(g) = g
  <2>1. PICK m \in Nat : m < N /\ g = u * (A + m)
    BY <1>2, <1>4, <1>5
  <2>2. (u * (A + m)) % u = 0
    <3>1. A + m \in Int
      OBVIOUS
    <3> QED BY ONLY <1>1, <3>1, Multiple
  <2> QED BY <1>1, <1>7, <2>1, <2>2 DEF GranuleStart, Words
<1> QED BY <1>4, <1>8, <1>9, <1>10

-----------------------------------------------------------------------------
(***************************************************************************)
(* The inductive invariant.                                                 *)
(***************************************************************************)

Traces == [version : HeaderValues \cup {Version}, region_shift : Nat,
           granule_shift : Nat, events : BOOLEAN]

\* Only the trace of the caller and the one being read have buffers.
LoadInv ==
    /\ trace \in Traces /\ out_trace \in Traces
    /\ buffers = Buffer(out_trace) + Buffer(trace)

\* No pass has begun before the column line.
QuietInv ==
    ~saw_columns =>
        /\ inserted = 0
        /\ bounded = Unmapped /\ sparse = Unmapped /\ failures = {} /\ starved = {}
        /\ stats = NoStats

\* A table of c slots after ins of at most possible insertions: it is less than
\* half used, and its counter is true.
TableSound(tb, c, ins, possible) ==
    /\ tb = [slots |-> tb.slots, live_count |-> tb.live_count]
    /\ SoundTable(tb.slots, c)
    /\ ins \in Nat /\ possible \in Nat /\ ins <= possible /\ 2 * possible <= c
    /\ Cardinality(EmptyOf(tb.slots, c)) + ins >= c
    /\ tb.live_count = Cardinality(LiveOf(tb.slots, c))
    /\ \A x, k : Entry(tb.slots, c, x, k) => k \in Handles

TableInv == TableSound(table, Capacity(table.slots), inserted, possible_live)

\* A map with the entries of the table.
MapAgrees(b, s, c) ==
    /\ b \in [Words -> Handles \cup {Invalid}]
    /\ \A a \in Words : \A h \in Handles : b[a] = h <=> Entry(s, c, GranuleStart(a), h)

MapInv(b) == MapAgrees(b, table.slots, Capacity(table.slots))

\* The first failure on an index is for want of memory, or on the sparse one
\* for an address beyond it.
FailuresFit(st) ==
    /\ "bounded" \in failures => "bounded" \in starved
    /\ "sparse" \in failures =>
           SparseReplayed /\ ("sparse" \in starved \/ st.maximum > Pow2[SparseBits])

\* An index without a failure has followed the map b.
HasMap(b) ==
    /\ "bounded" \notin failures => bounded = b
    /\ SparseReplayed /\ "sparse" \notin failures => sparse = b

MappedOf(b) == {a \in Words : b[a] # Invalid}

StatsFit(st, b) ==
    /\ st \in [minimum : Nat, maximum : Nat, live : Nat, peak : Nat]
    /\ st.minimum <= WordMax /\ st.maximum <= WordMax
    /\ st.live = Cardinality(MappedOf(b)) /\ st.peak >= st.live
    /\ \A a \in MappedOf(b) : st.minimum <= a /\ a < st.maximum

ReplayInv(b) == MapInv(b) /\ HasMap(b) /\ FailuresFit(stats) /\ StatsFit(stats, b)

JudgeInv == Judging => ShiftsValid /\ TableInv /\ \E b : ReplayInv(b)

TraceInv == LoadInv /\ QuietInv /\ JudgeInv

LEMMA BufferIs == \A t \in Traces : Buffer(t) \in {0, 1} /\ (~t.events => Buffer(t) = 0)
BY DEF Buffer, Traces

LEMMA InitTraceIs == memx_trace_init \in Traces /\ Buffer(memx_trace_init) = 0
BY TraceAssumption DEF memx_trace_init, Traces, Buffer

LEMMA GranuleSizeIs ==
    ASSUME LoadInv, ShiftsValid
    PROVE  granule_size \in Nat /\ granule_size >= 1 /\ (WordMax + 1) % granule_size = 0
<1>1. trace.granule_shift \in Nat /\ trace.granule_shift <= WordBits
  BY TraceWords DEF LoadInv, Traces, ShiftsValid
<1>2. PICK i : i = trace.granule_shift
  OBVIOUS
<1>3. Pow2[i] \in Nat /\ Pow2[i] >= 1
  BY <1>1, <1>2, PowPositive
<1>4. Pow2[WordBits] % Pow2[i] = 0
  BY <1>1, <1>2, TraceWords, PowDivides
<1> QED BY <1>2, <1>3, <1>4, TraceWords DEF granule_size

\* A word and its granule.
LEMMA StartIs ==
    ASSUME NEW a \in Words, granule_size \in Nat, granule_size >= 1
    PROVE  GranuleStart(a) \in Words
<1>1. PICK u \in Nat : u = granule_size /\ u >= 1
  OBVIOUS
<1>2. a \in Nat /\ a <= WordMax /\ WordMax \in Nat
  BY TraceWords DEF Words
<1>3. a % u \in Nat /\ a % u <= a
  BY <1>1, <1>2
<1> QED BY <1>1, <1>2, <1>3 DEF GranuleStart, Words

\* What a sound table and map give the oracle.
LEMMA TableFacts ==
    ASSUME TableInv
    PROVE  /\ SoundTable(table.slots, Capacity(table.slots))
           /\ Capacity(table.slots) \in Nat
           /\ HasEmpty(table.slots, Capacity(table.slots))
           /\ 2 * Cardinality(EmptyOf(table.slots, Capacity(table.slots)))
                >= Capacity(table.slots)
           /\ \A n \in Nat : inserted + n <= possible_live =>
                 Cardinality(EmptyOf(table.slots, Capacity(table.slots))) >= n
<1>1. PICK s, c : s = table.slots /\ c = Capacity(s)
  OBVIOUS
<1>2. /\ SoundTable(s, c)
      /\ inserted \in Nat /\ possible_live \in Nat
      /\ inserted <= possible_live /\ 2 * possible_live <= c
      /\ Cardinality(EmptyOf(s, c)) + inserted >= c
  BY <1>1 DEF TableInv, TableSound
<1>3. c \in Nat /\ c >= 1
  BY <1>2 DEF SoundTable, IsTable
<1>4. Cardinality(EmptyOf(s, c)) \in Nat
  BY <1>3, CountsFinite
<1>5. HasEmpty(s, c)
  <2>1. Cardinality(EmptyOf(s, c)) # 0
    BY <1>2, <1>3, <1>4
  <2>2. EmptyOf(s, c) # {}
    BY <2>1, FS_EmptySet
  <2> QED BY <2>2 DEF HasEmpty, EmptyOf
<1>6. 2 * Cardinality(EmptyOf(s, c)) >= c
  BY <1>2, <1>3, <1>4
<1>7. \A n \in Nat : inserted + n <= possible_live => Cardinality(EmptyOf(s, c)) >= n
  BY <1>2, <1>3, <1>4
<1> QED BY <1>1, <1>2, <1>3, <1>5, <1>6, <1>7

-----------------------------------------------------------------------------
(***************************************************************************)
(* What an accepted event says of the table and of the maps.                *)
(***************************************************************************)

LEMMA EventIs ==
    ASSUME NEW e \in Events
    PROVE  /\ e.address \in Nat /\ e.address <= WordMax /\ e.size \in Nat
           /\ e.handle \in Handles \cup {Invalid}
           /\ e.operation \in {"INSERT", "LOOKUP", "RETIRE", "REMOVE", "QUIESCENT"}
<1>1. e.address \in Addresses /\ e.size \in Lengths /\ e.handle \in Handles \cup {Invalid}
      /\ e.operation \in {"INSERT", "LOOKUP", "RETIRE", "REMOVE", "QUIESCENT"}
  BY DEF Events
<1>2. e.address \in Words /\ e.size \in Words
  BY <1>1, TraceAssumption
<1> QED BY <1>1, <1>2, TraceWords DEF Words

LEMMA AcceptedRange ==
    ASSUME NEW e \in Events, memx_trace_validate(e), RangeOperation(e)
    PROVE  ValidRange(e) /\ (e.operation \in {"INSERT", "REMOVE"} => e.handle \in Handles)
<1>1. /\ e.size # 0
      /\ e.address % granule_size = 0 /\ e.size % granule_size = 0
      /\ e.size <= WordMax - e.address
      /\ e.operation \in {"INSERT", "REMOVE"} => e.handle # Invalid
  BY DEF memx_trace_validate
<1> QED BY <1>1, EventIs, TraceWords DEF ValidRange

\* The bytes of a range are words, and as many as its size.
LEMMA BytesCounted ==
    ASSUME NEW e, ValidRange(e)
    PROVE  /\ Bytes(e) \in SUBSET Words
           /\ IsFiniteSet(Bytes(e)) /\ Cardinality(Bytes(e)) = e.size
<1>1. PICK x, y : x = e.address /\ y = e.size
  OBVIOUS
<1>2. x \in Nat /\ y \in Nat /\ y # 0 /\ x + y <= WordMax /\ WordMax \in Nat
  BY <1>1, TraceWords DEF ValidRange
<1>3. Bytes(e) = x .. (x + y - 1)
  BY <1>1 DEF Bytes
<1>4. x .. (x + y - 1) \in SUBSET Words
  BY <1>2 DEF Words
<1>5. IsFiniteSet(x .. (x + y - 1)) /\ Cardinality(x .. (x + y - 1)) = y
  <2>1. x \in Int /\ x + y - 1 \in Int /\ ~(x > x + y - 1) /\ (x + y - 1) - x + 1 = y
    BY <1>2
  <2> QED BY <2>1, FS_Interval
<1> QED BY <1>1, <1>3, <1>4, <1>5

\* An INSERT finds all of its granules absent, in the table and in the map.
LEMMA InsertAccepted ==
    ASSUME LoadInv, ShiftsValid, TableInv, NEW b, MapInv(b),
           NEW e \in Events, memx_trace_validate(e), OracleAccepts(e), e.operation = "INSERT",
           inserted + GranuleCount(e) <= possible_live
    PROVE  /\ MayInsert(e, table.slots, Capacity(table.slots))
           /\ \A a \in Bytes(e) : b[a] = Invalid
<1>1. ValidRange(e) /\ e.handle \in Handles
  BY AcceptedRange DEF RangeOperation
<1>2. granule_size \in Nat /\ granule_size >= 1
  BY GranuleSizeIs
<1>3. /\ GranulesDistinct(e)
      /\ \A a \in Words : GranuleStart(a) \in GranulesOf(e) <=> a \in Bytes(e)
      /\ \A g \in GranulesOf(e) : g \in Words
  BY <1>1, <1>2, RangeGranules
<1>4. PICK s, c : s = table.slots /\ c = Capacity(s)
  OBVIOUS
<1>5. SoundTable(s, c) /\ HasEmpty(s, c) /\ Cardinality(EmptyOf(s, c)) >= GranuleCount(e)
  <2>1. GranuleCount(e) \in Nat
    BY <1>3 DEF GranulesDistinct
  <2> QED BY <1>4, <2>1, TableFacts
<1>6. ASSUME NEW g \in GranulesOf(e) PROVE \A k : ~Entry(s, c, g, k)
  <2>1. LiveSlot(s, g) = {}
    BY <1>4 DEF OracleAccepts
  <2>2. g \in Words
    BY <1>3
  <2> QED BY <1>5, <2>1, <2>2, AnswerIs
<1>7. MayInsert(e, s, c)
  BY <1>1, <1>5, <1>6 DEF MayInsert
<1>8. ASSUME NEW a \in Bytes(e) PROVE b[a] = Invalid
  <2>1. a \in Words
    BY <1>1, BytesCounted
  <2>2. \A k : ~Entry(s, c, GranuleStart(a), k)
    BY <1>3, <1>6, <2>1
  <2> QED BY <1>4, <2>1, <2>2 DEF MapInv, MapAgrees
<1> QED BY <1>4, <1>7, <1>8

\* RETIRE and REMOVE find all of theirs, with their handle.
LEMMA ChangeAccepted ==
    ASSUME LoadInv, ShiftsValid, TableInv, NEW b, MapInv(b),
           NEW e \in Events, memx_trace_validate(e), OracleAccepts(e),
           e.operation = "RETIRE" \/ e.operation = "REMOVE"
    PROVE  /\ MayChange(e, table.slots, Capacity(table.slots))
           /\ e.operation = "REMOVE" => \A a \in Bytes(e) : b[a] = e.handle
<1>1. ValidRange(e) /\ (e.operation = "REMOVE" => e.handle \in Handles)
  BY AcceptedRange DEF RangeOperation
<1>2. granule_size \in Nat /\ granule_size >= 1
  BY GranuleSizeIs
<1>3. /\ \A a \in Words : GranuleStart(a) \in GranulesOf(e) <=> a \in Bytes(e)
      /\ \A g \in GranulesOf(e) : g \in Words
  BY <1>1, <1>2, RangeGranules
<1>4. PICK s, c : s = table.slots /\ c = Capacity(s)
  OBVIOUS
<1>5. SoundTable(s, c) /\ HasEmpty(s, c)
  BY <1>4, TableFacts
<1>6. ASSUME NEW g \in GranulesOf(e) PROVE Entry(s, c, g, e.handle)
  <2>1. PICK p \in LiveSlot(s, g) : s[p].handle = e.handle
    BY <1>4 DEF OracleAccepts, trace_lifecycle_range_matches
  <2>2. g \in Words
    BY <1>3
  <2>3. p \in 0 .. (c - 1) /\ Holds(s, p, g)
    BY <1>5, <2>1, <2>2, AnswerIs
  <2> QED BY <2>1, <2>3 DEF Entry
<1>7. MayChange(e, s, c)
  BY <1>6 DEF MayChange
<1>8. ASSUME e.operation = "REMOVE", NEW a \in Bytes(e) PROVE b[a] = e.handle
  <2>1. a \in Words
    BY <1>1, BytesCounted
  <2>2. Entry(s, c, GranuleStart(a), e.handle) /\ e.handle \in Handles
    BY <1>1, <1>3, <1>6, <1>8, <2>1
  <2> QED BY <1>4, <2>1, <2>2 DEF MapInv, MapAgrees
<1> QED BY <1>4, <1>7, <1>8

\* The map answers what the table answers.
LEMMA MapAnswers ==
    ASSUME LoadInv, ShiftsValid, TableInv, NEW b, MapInv(b), NEW a \in Words
    PROVE  b[a] = Answer(table.slots, GranuleStart(a))
<1>1. PICK s, c : s = table.slots /\ c = Capacity(s)
  OBVIOUS
<1>2. SoundTable(s, c) /\ HasEmpty(s, c)
  BY <1>1, TableFacts
<1>3. GranuleStart(a) \in Words
  BY GranuleSizeIs, StartIs
<1>4. PICK g \in Words : g = GranuleStart(a)
  BY <1>3
<1>5. /\ \A h : Entry(s, c, g, h) => Answer(s, g) = h /\ h \in Handles
      /\ (\A h : ~Entry(s, c, g, h)) => Answer(s, g) = Invalid
  <2>1. \A h : Entry(s, c, g, h) => h \in Handles
    BY <1>1 DEF TableInv, TableSound
  <2> QED BY <1>2, <2>1, AnswerIs
<1>6. b[a] \in Handles \cup {Invalid} /\ \A h \in Handles : b[a] = h <=> Entry(s, c, g, h)
  BY <1>1, <1>4 DEF MapInv, MapAgrees
<1>7. Answer(s, g) = b[a]
  <2>1. CASE \E h : Entry(s, c, g, h)
    BY <1>5, <1>6, <2>1
  <2>2. CASE ~\E h : Entry(s, c, g, h)
    BY <1>5, <1>6, <2>2
  <2> QED BY <2>1, <2>2
<1> QED BY <1>1, <1>4, <1>7

LEMMA LookupAccepted ==
    ASSUME LoadInv, ShiftsValid, TableInv, NEW b, MapInv(b),
           NEW e \in Events, OracleAccepts(e), e.operation = "LOOKUP"
    PROVE  b[e.address] = e.handle
<1>1. e.address \in Words
  BY EventIs, TraceWords DEF Words
<1>2. b[e.address] = Answer(table.slots, GranuleStart(e.address))
  BY <1>1, MapAnswers
<1>3. e.handle = Answer(table.slots, GranuleStart(e.address))
  BY DEF OracleAccepts, trace_lifecycle_lookup_matches, Answer, GranuleStart
<1> QED BY <1>2, <1>3

-----------------------------------------------------------------------------
(***************************************************************************)
(* The table after an accepted event.                                       *)
(***************************************************************************)

LEMMA InsertTable ==
    ASSUME LoadInv, ShiftsValid, TableInv, NEW b, MapInv(b),
           NEW e \in Events, memx_trace_validate(e), OracleAccepts(e), e.operation = "INSERT",
           inserted + GranuleCount(e) <= possible_live,
           NEW c, c = Capacity(table.slots), NEW t, t = OracleApplies(e)
    PROVE  /\ TableSound(t, c, inserted + GranuleCount(e), possible_live)
           /\ \A x, k : Entry(t.slots, c, x, k) <=>
                 Entry(table.slots, c, x, k) \/ (k = e.handle /\ x \in GranulesOf(e))
<1>1. ValidRange(e) /\ e.handle \in Handles
  BY AcceptedRange DEF RangeOperation
<1>2. GranulesDistinct(e) /\ GranulesOf(e) = FirstGranules(e, GranuleCount(e))
  BY <1>1, GranuleSizeIs, RangeGranules
<1>3. PICK s0, s : s0 = table.slots /\ s = Changed(e)
  OBVIOUS
<1>4. /\ SoundTable(s0, c) /\ inserted \in Nat /\ possible_live \in Nat
      /\ 2 * possible_live <= c
      /\ Cardinality(EmptyOf(s0, c)) + inserted >= c
      /\ table.live_count = Cardinality(LiveOf(s0, c))
      /\ \A x, k : Entry(s0, c, x, k) => k \in Handles
  BY <1>3 DEF TableInv, TableSound
<1>5. c \in Nat /\ GranuleCount(e) \in Nat
  BY <1>2, <1>4 DEF SoundTable, IsTable, GranulesDistinct
<1>6. MayInsert(e, s0, c)
  BY <1>3, InsertAccepted
<1>7. Stage(s, e, c, s0, GranuleCount(e))
  BY <1>2, <1>3, <1>4, <1>6, ChangedStage
<1>8. /\ SoundTable(s, c)
      /\ Cardinality(LiveOf(s, c)) = Cardinality(LiveOf(s0, c)) + GranuleCount(e)
      /\ Cardinality(EmptyOf(s, c)) >= Cardinality(EmptyOf(s0, c)) - GranuleCount(e)
      /\ \A x, k : Entry(s, c, x, k) <=>
             Entry(s0, c, x, k) \/ (k = e.handle /\ x \in GranulesOf(e))
  BY <1>2, <1>7 DEF Stage
<1>9. Cardinality(EmptyOf(s, c)) \in Nat /\ Cardinality(EmptyOf(s0, c)) \in Nat
  BY <1>5, CountsFinite
<1>10. t = [slots |-> s, live_count |-> table.live_count + GranuleCount(e)]
  BY <1>3 DEF OracleApplies, trace_lifecycle_insert
<1>11. Cardinality(EmptyOf(s, c)) + (inserted + GranuleCount(e)) >= c
  BY <1>4, <1>5, <1>8, <1>9
<1>12. \A x, k : Entry(s, c, x, k) => k \in Handles
  BY <1>1, <1>4, <1>8
<1>13. t.slots = s /\ t.live_count = table.live_count + GranuleCount(e)
       /\ t = [slots |-> t.slots, live_count |-> t.live_count]
  BY <1>10
<1>14. TableSound(t, c, inserted + GranuleCount(e), possible_live)
  BY <1>4, <1>5, <1>8, <1>11, <1>12, <1>13 DEF TableSound
<1> QED BY <1>3, <1>8, <1>13, <1>14

LEMMA ChangeTable ==
    ASSUME LoadInv, ShiftsValid, TableInv, NEW b, MapInv(b),
           NEW e \in Events, memx_trace_validate(e), OracleAccepts(e),
           e.operation = "RETIRE" \/ e.operation = "REMOVE",
           NEW c, c = Capacity(table.slots), NEW t, t = OracleApplies(e)
    PROVE  /\ TableSound(t, c, inserted, possible_live)
           /\ \A x, k : Entry(t.slots, c, x, k) <=>
                 Entry(table.slots, c, x, k) /\ ~(e.operation = "REMOVE" /\ x \in GranulesOf(e))
<1>1. ValidRange(e)
  BY AcceptedRange DEF RangeOperation
<1>2. GranulesDistinct(e) /\ GranulesOf(e) = FirstGranules(e, GranuleCount(e))
  BY <1>1, GranuleSizeIs, RangeGranules
<1>3. PICK s0, s : s0 = table.slots /\ s = Changed(e)
  OBVIOUS
<1>4. /\ SoundTable(s0, c) /\ inserted \in Nat /\ possible_live \in Nat
      /\ inserted <= possible_live /\ 2 * possible_live <= c
      /\ Cardinality(EmptyOf(s0, c)) + inserted >= c
      /\ table.live_count = Cardinality(LiveOf(s0, c))
      /\ table = [slots |-> table.slots, live_count |-> table.live_count]
      /\ \A x, k : Entry(s0, c, x, k) => k \in Handles
  BY <1>3 DEF TableInv, TableSound
<1>5. c \in Nat /\ GranuleCount(e) \in Nat
  BY <1>2, <1>4 DEF SoundTable, IsTable, GranulesDistinct
<1>6. MayChange(e, s0, c)
  BY <1>3, ChangeAccepted
<1>7. Stage(s, e, c, s0, GranuleCount(e))
  BY <1>2, <1>3, <1>4, <1>6, ChangedStage
<1>8. /\ SoundTable(s, c)
      /\ Cardinality(LiveOf(s, c)) = Cardinality(LiveOf(s0, c))
             - (IF e.operation = "REMOVE" THEN GranuleCount(e) ELSE 0)
      /\ Cardinality(EmptyOf(s, c)) >= Cardinality(EmptyOf(s0, c))
      /\ \A x, k : Entry(s, c, x, k) <=>
             Entry(s0, c, x, k) /\ ~(e.operation = "REMOVE" /\ x \in GranulesOf(e))
  <2>1. Cardinality(LiveOf(s0, c)) \in Nat /\ Cardinality(EmptyOf(s0, c)) \in Nat
    BY <1>5, CountsFinite
  <2> QED BY <1>2, <1>5, <1>7, <2>1 DEF Stage
<1>9. Cardinality(EmptyOf(s, c)) \in Nat /\ Cardinality(EmptyOf(s0, c)) \in Nat
      /\ Cardinality(LiveOf(s0, c)) \in Nat
  BY <1>5, CountsFinite
<1>10. /\ t = [slots |-> t.slots, live_count |-> t.live_count]
       /\ t.slots = s /\ t.live_count = Cardinality(LiveOf(s, c))
  <2>1. CASE e.operation = "RETIRE"
    <3>1. t = [table EXCEPT !.slots = s]
      BY <1>3, <2>1 DEF OracleApplies, trace_lifecycle_retire
    <3>2. t = [slots |-> s, live_count |-> table.live_count]
      <4>1. PICK y, n : y = table.slots /\ n = table.live_count
        OBVIOUS
      <4>2. table = [slots |-> y, live_count |-> n]
        BY <1>4, <4>1
      <4>3. [[slots |-> y, live_count |-> n] EXCEPT !.slots = s] = [slots |-> s, live_count |-> n]
        OBVIOUS
      <4> QED BY <3>1, <4>1, <4>2, <4>3
    <3> QED BY <1>4, <1>8, <1>9, <2>1, <3>2
  <2>2. CASE e.operation = "REMOVE"
    <3>1. t = [slots |-> s, live_count |-> table.live_count - GranuleCount(e)]
      BY <1>3, <2>2 DEF OracleApplies, trace_lifecycle_remove
    <3> QED BY <1>4, <1>5, <1>8, <1>9, <2>2, <3>1
  <2> QED BY <2>1, <2>2
<1>11. Cardinality(EmptyOf(s, c)) + inserted >= c
  BY <1>4, <1>5, <1>8, <1>9
<1>12. \A x, k : Entry(s, c, x, k) => k \in Handles
  BY <1>4, <1>8
<1>13. TableSound(t, c, inserted, possible_live)
  BY <1>4, <1>8, <1>10, <1>11, <1>12 DEF TableSound
<1> QED BY <1>3, <1>8, <1>10, <1>13

-----------------------------------------------------------------------------
(***************************************************************************)
(* The map and the statistics after an accepted event.                      *)
(***************************************************************************)

\* The map b with the range of e set, or cleared.
Mapping(e, b, h) == [a \in Words |-> IF a \in Bytes(e) THEN h ELSE b[a]]

LEMMA MapInserted ==
    ASSUME NEW e, NEW b, NEW s, NEW s2, NEW c, MapAgrees(b, s, c), e.handle \in Handles,
           \A a \in Words : GranuleStart(a) \in GranulesOf(e) <=> a \in Bytes(e),
           \A a \in Bytes(e) : b[a] = Invalid,
           \A x, k : Entry(s2, c, x, k) <=>
                 Entry(s, c, x, k) \/ (k = e.handle /\ x \in GranulesOf(e))
    PROVE  MapAgrees(Mapping(e, b, e.handle), s2, c)
<1>1. PICK m : m = Mapping(e, b, e.handle)
  OBVIOUS
<1>2. m \in [Words -> Handles \cup {Invalid}]
  BY <1>1 DEF Mapping, MapAgrees
<1>3. ASSUME NEW a \in Words, NEW h \in Handles PROVE m[a] = h <=> Entry(s2, c, GranuleStart(a), h)
  <2>1. CASE a \in Bytes(e)
    <3>1. m[a] = e.handle /\ b[a] = Invalid /\ GranuleStart(a) \in GranulesOf(e)
      BY <1>1, <2>1 DEF Mapping
    <3>2. ~Entry(s, c, GranuleStart(a), h)
      BY <3>1, TraceAssumption DEF MapAgrees
    <3> QED BY <3>1, <3>2
  <2>2. CASE a \notin Bytes(e)
    <3>1. m[a] = b[a] /\ GranuleStart(a) \notin GranulesOf(e)
      BY <1>1, <2>2 DEF Mapping
    <3> QED BY <3>1 DEF MapAgrees
  <2> QED BY <2>1, <2>2
<1> QED BY <1>1, <1>2, <1>3 DEF MapAgrees

LEMMA MapRemoved ==
    ASSUME NEW e, NEW b, NEW s, NEW s2, NEW c, MapAgrees(b, s, c),
           \A a \in Words : GranuleStart(a) \in GranulesOf(e) <=> a \in Bytes(e),
           \A x, k : Entry(s2, c, x, k) <=> Entry(s, c, x, k) /\ x \notin GranulesOf(e)
    PROVE  MapAgrees(Mapping(e, b, Invalid), s2, c)
<1>1. PICK m : m = Mapping(e, b, Invalid)
  OBVIOUS
<1>2. m \in [Words -> Handles \cup {Invalid}]
  BY <1>1 DEF Mapping, MapAgrees
<1>3. ASSUME NEW a \in Words, NEW h \in Handles PROVE m[a] = h <=> Entry(s2, c, GranuleStart(a), h)
  <2>1. CASE a \in Bytes(e)
    <3>1. m[a] = Invalid /\ GranuleStart(a) \in GranulesOf(e)
      BY <1>1, <2>1 DEF Mapping
    <3> QED BY <3>1, TraceAssumption
  <2>2. CASE a \notin Bytes(e)
    <3>1. m[a] = b[a] /\ GranuleStart(a) \notin GranulesOf(e)
      BY <1>1, <2>2 DEF Mapping
    <3> QED BY <3>1 DEF MapAgrees
  <2> QED BY <2>1, <2>2
<1> QED BY <1>1, <1>2, <1>3 DEF MapAgrees

LEMMA MappedFinite ==
    \A b : IsFiniteSet(MappedOf(b)) /\ Cardinality(MappedOf(b)) \in Nat /\ MappedOf(b) \in SUBSET Words
<1>1. IsFiniteSet(Words)
  BY TraceWords, FS_Interval DEF Words
<1>2. \A b : MappedOf(b) \in SUBSET Words
  BY DEF MappedOf
<1> QED BY <1>1, <1>2, FS_Subset, FS_CardinalityType

\* The range of an event enters the mapped bytes, and leaves them.
LEMMA InsertCounts ==
    ASSUME NEW e, ValidRange(e), NEW b, e.handle # Invalid,
           \A a \in Bytes(e) : b[a] = Invalid
    PROVE  /\ MappedOf(Mapping(e, b, e.handle)) = MappedOf(b) \cup Bytes(e)
           /\ Cardinality(MappedOf(b) \cup Bytes(e)) = Cardinality(MappedOf(b)) + e.size
<1>1. /\ Bytes(e) \in SUBSET Words
      /\ IsFiniteSet(Bytes(e)) /\ Cardinality(Bytes(e)) = e.size /\ e.size \in Nat
  BY BytesCounted DEF ValidRange
<1>2. MappedOf(Mapping(e, b, e.handle)) = MappedOf(b) \cup Bytes(e)
  BY <1>1 DEF MappedOf, Mapping
<1>3. MappedOf(b) \cap Bytes(e) = {}
  BY DEF MappedOf
<1>4. IsFiniteSet(MappedOf(b)) /\ Cardinality(MappedOf(b)) \in Nat
  BY MappedFinite
<1>5. Cardinality(MappedOf(b) \cup Bytes(e))
        = Cardinality(MappedOf(b)) + Cardinality(Bytes(e)) - Cardinality({})
  BY <1>1, <1>3, <1>4, FS_Union
<1>6. Cardinality({}) = 0
  BY FS_EmptySet
<1> QED BY <1>1, <1>2, <1>4, <1>5, <1>6

LEMMA RemoveCounts ==
    ASSUME NEW e, ValidRange(e), NEW b, \A a \in Bytes(e) : b[a] # Invalid
    PROVE  /\ MappedOf(Mapping(e, b, Invalid)) = MappedOf(b) \ Bytes(e)
           /\ Cardinality(MappedOf(b) \ Bytes(e)) = Cardinality(MappedOf(b)) - e.size
           /\ e.size <= Cardinality(MappedOf(b))
<1>1. /\ Bytes(e) \in SUBSET Words
      /\ IsFiniteSet(Bytes(e)) /\ Cardinality(Bytes(e)) = e.size /\ e.size \in Nat
  BY BytesCounted DEF ValidRange
<1>2. MappedOf(Mapping(e, b, Invalid)) = MappedOf(b) \ Bytes(e)
  BY <1>1 DEF MappedOf, Mapping
<1>3. MappedOf(b) \cap Bytes(e) = Bytes(e) /\ Bytes(e) \in SUBSET MappedOf(b)
  BY <1>1 DEF MappedOf
<1>4. IsFiniteSet(MappedOf(b)) /\ Cardinality(MappedOf(b)) \in Nat
  BY MappedFinite
<1>5. Cardinality(MappedOf(b) \ Bytes(e))
        = Cardinality(MappedOf(b)) - Cardinality(MappedOf(b) \cap Bytes(e))
  BY <1>4, FS_Difference
<1>6. Cardinality(Bytes(e)) <= Cardinality(MappedOf(b))
  BY <1>3, <1>4, FS_Subset
<1> QED BY <1>1, <1>2, <1>3, <1>5, <1>6

\* The statistics, once the live bytes are known to be right.
LEMMA StatsStep ==
    ASSUME NEW old, StatsFit(stats, old), NEW e \in Events, NEW st, st = memx_trace_calculate_stats(e),
           NEW b, st.live = Cardinality(MappedOf(b)),
           e.operation = "LOOKUP" => e.address # WordMax,
           RangeOperation(e) => e.address + e.size <= WordMax,
           \A a \in MappedOf(b) : a \in MappedOf(old) \/ (RangeOperation(e) /\ a \in Bytes(e))
    PROVE  /\ StatsFit(st, b) /\ st.maximum >= stats.maximum
           /\ RangeOperation(e) => st.maximum >= e.address + e.size
<1>1. /\ e.address \in Nat /\ e.address <= WordMax /\ e.size \in Nat
      /\ e.operation \in {"INSERT", "LOOKUP", "RETIRE", "REMOVE", "QUIESCENT"}
  BY EventIs
<1>2. PICK lo, hi, now, peak :
        /\ lo = stats.minimum /\ hi = stats.maximum /\ now = stats.live /\ peak = stats.peak
  OBVIOUS
<1>3. /\ lo \in Nat /\ hi \in Nat /\ now \in Nat /\ peak \in Nat
      /\ lo <= WordMax /\ hi <= WordMax
      /\ \A a \in MappedOf(old) : lo <= a /\ a < hi
  BY <1>2 DEF StatsFit
<1>4. PICK n \in Nat : n = Cardinality(MappedOf(b))
  BY MappedFinite
<1>5. PICK end : end = e.address + (IF e.operation = "LOOKUP" THEN 1 ELSE e.size)
  OBVIOUS
<1>6. end \in Nat
  BY <1>1, <1>5
<1>7. /\ st = [minimum |-> st.minimum, maximum |-> st.maximum, live |-> st.live, peak |-> st.peak]
      /\ st.minimum = IF e.operation # "QUIESCENT" /\ e.address < lo THEN e.address ELSE lo
      /\ st.maximum = IF e.operation # "QUIESCENT" /\ end > hi THEN end ELSE hi
      /\ st.peak = IF st.live > peak THEN st.live ELSE peak
  BY <1>2, <1>5 DEF memx_trace_calculate_stats
<1>8. e.operation # "QUIESCENT" => end <= WordMax
  BY <1>1, <1>5, TraceWords DEF RangeOperation
<1>9. /\ st.minimum \in Nat /\ st.maximum \in Nat /\ st.minimum <= WordMax /\ st.maximum <= WordMax
      /\ st.maximum >= hi /\ st.minimum <= lo
  BY <1>1, <1>3, <1>6, <1>7, <1>8
<1>10. st.live = n /\ st.peak \in Nat /\ st.peak >= n
  BY <1>3, <1>4, <1>7
<1>11. st \in [minimum : Nat, maximum : Nat, live : Nat, peak : Nat]
  BY <1>4, <1>7, <1>9, <1>10
<1>12. ASSUME RangeOperation(e)
       PROVE  st.maximum >= e.address + e.size /\ st.minimum <= e.address
  <2>1. e.operation # "QUIESCENT" /\ end = e.address + e.size
    BY <1>5, <1>12 DEF RangeOperation
  <2> QED BY <1>1, <1>3, <1>6, <1>7, <2>1
<1>13. ASSUME NEW a \in MappedOf(b) PROVE st.minimum <= a /\ a < st.maximum
  <2>1. a \in Nat
    BY TraceWords DEF MappedOf, Words
  <2>2. CASE a \in MappedOf(old)
    BY <1>3, <1>9, <2>1, <2>2
  <2>3. CASE RangeOperation(e) /\ a \in Bytes(e)
    <3>1. e.address <= a /\ a < e.address + e.size
      BY <1>1, <2>3 DEF Bytes
    <3> QED BY <1>1, <1>9, <1>12, <2>1, <2>3, <3>1
  <2> QED BY <2>2, <2>3
<1> QED BY <1>2, <1>4, <1>9, <1>10, <1>11, <1>12, <1>13 DEF StatsFit

\* The abstract indexes of the replay on a range.
LEMMA ReplayInsert ==
    ASSUME NEW e, ValidRange(e), e.operation = "INSERT"
    PROVE  /\ (\A a \in Bytes(e) : bounded[a] = Invalid) => OnBounded!Accepts(Request(e))
           /\ (\A a \in Bytes(e) : sparse[a] = Invalid) => OnSparse!Accepts(Request(e))
           /\ OnBounded!Applied(Request(e)) = Mapping(e, bounded, e.handle)
           /\ OnSparse!Applied(Request(e)) = Mapping(e, sparse, e.handle)
<1>1. PICK r : r = Request(e)
  OBVIOUS
<1>2. r.op = "insert" /\ r.lo = e.address /\ r.hi = e.address + e.size - 1 /\ r.handle = e.handle
  BY <1>1 DEF Request
<1>3. r.lo <= r.hi /\ r.lo .. r.hi = Bytes(e)
  BY <1>2 DEF Bytes, ValidRange
<1>4. /\ (\A a \in Bytes(e) : bounded[a] = Invalid) => OnBounded!Accepts(r)
      /\ (\A a \in Bytes(e) : sparse[a] = Invalid) => OnSparse!Accepts(r)
  BY <1>2, <1>3 DEF OnBounded!Accepts, OnSparse!Accepts
<1>5. /\ OnBounded!Applied(r) = Mapping(e, bounded, e.handle)
      /\ OnSparse!Applied(r) = Mapping(e, sparse, e.handle)
  BY <1>2, <1>3 DEF OnBounded!Applied, OnSparse!Applied, Mapping
<1> QED BY <1>1, <1>4, <1>5

LEMMA ReplayRemove ==
    ASSUME NEW e, ValidRange(e), e.operation = "REMOVE"
    PROVE  /\ (\A a \in Bytes(e) : bounded[a] = e.handle) => OnBounded!Accepts(Request(e))
           /\ (\A a \in Bytes(e) : sparse[a] = e.handle) => OnSparse!Accepts(Request(e))
           /\ OnBounded!Applied(Request(e)) = Mapping(e, bounded, Invalid)
           /\ OnSparse!Applied(Request(e)) = Mapping(e, sparse, Invalid)
<1>1. PICK r : r = Request(e)
  OBVIOUS
<1>2. r.op = "remove" /\ r.lo = e.address /\ r.hi = e.address + e.size - 1 /\ r.handle = e.handle
  BY <1>1 DEF Request
<1>3. r.lo <= r.hi /\ r.lo .. r.hi = Bytes(e)
  BY <1>2 DEF Bytes, ValidRange
<1>4. /\ (\A a \in Bytes(e) : bounded[a] = e.handle) => OnBounded!Accepts(r)
      /\ (\A a \in Bytes(e) : sparse[a] = e.handle) => OnSparse!Accepts(r)
  BY <1>2, <1>3 DEF OnBounded!Accepts, OnSparse!Accepts
<1>5. /\ OnBounded!Applied(r) = Mapping(e, bounded, Invalid)
      /\ OnSparse!Applied(r) = Mapping(e, sparse, Invalid)
  BY <1>2, <1>3 DEF OnBounded!Applied, OnSparse!Applied, Mapping
<1> QED BY <1>1, <1>4, <1>5

\* An event on the two indexes, one at a time.
LEMMA ReplayIs ==
    ASSUME NEW e, NEW short, Replay(e, short)
    PROVE  /\ "bounded" \in failures' <=>
                 "bounded" \in failures \/ "bounded" \in short \/ ~Answered(e)["bounded"]
           /\ "sparse" \in failures' <=>
                 \/ "sparse" \in failures
                 \/ SparseReplayed /\ ("sparse" \in short \/ ~Answered(e)["sparse"])
           /\ \A i \in {"bounded", "sparse"} :
                 /\ i \in starved => i \in starved'
                 /\ i \in short /\ Answered(e)[i] /\ i \in failures' /\ i \notin failures
                       => i \in starved'
           /\ "bounded" \notin failures' =>
                 bounded' = IF Mutates(e) THEN OnBounded!Applied(Request(e)) ELSE bounded
           /\ SparseReplayed /\ "sparse" \notin failures' =>
                 sparse' = IF Mutates(e) THEN OnSparse!Applied(Request(e)) ELSE sparse
           /\ ~Mutates(e) => short = {}
<1>1. PICK following : following = (IF SparseReplayed THEN {"bounded", "sparse"} ELSE {"bounded"})
                                     \ failures
  OBVIOUS
<1>2. PICK failed : failed = {i \in following : i \in short \/ ~Answered(e)[i]}
  OBVIOUS
<1>3. /\ failures' = failures \cup failed
      /\ starved' = starved \cup {i \in failed \cap short : Answered(e)[i]}
      /\ bounded' = IF "bounded" \notin following \ failed THEN Unmapped
                    ELSE IF Mutates(e) THEN OnBounded!Applied(Request(e)) ELSE bounded
      /\ sparse' = IF "sparse" \notin following \ failed THEN Unmapped
                   ELSE IF Mutates(e) THEN OnSparse!Applied(Request(e)) ELSE sparse
      /\ Mutates(e) \/ short = {}
  BY <1>1, <1>2 DEF Replay
<1>4. /\ "bounded" \in following <=> "bounded" \notin failures
      /\ "sparse" \in following <=> SparseReplayed /\ "sparse" \notin failures
  BY <1>1
<1>5. \A i : i \in failed <=> i \in following /\ (i \in short \/ ~Answered(e)[i])
  BY <1>2
<1>6. \A i : i \in failures' <=> i \in failures \/ i \in failed
  BY <1>3
<1>7. \A i : i \in starved' <=> i \in starved \/ (i \in failed /\ i \in short /\ Answered(e)[i])
  BY <1>3
<1>8. "bounded" \notin failures' =>
        bounded' = IF Mutates(e) THEN OnBounded!Applied(Request(e)) ELSE bounded
  BY <1>3, <1>4, <1>6
<1>9. SparseReplayed /\ "sparse" \notin failures' =>
        sparse' = IF Mutates(e) THEN OnSparse!Applied(Request(e)) ELSE sparse
  BY <1>3, <1>4, <1>6
<1> QED BY <1>3, <1>4, <1>5, <1>6, <1>7, <1>8, <1>9

\* What holds of the indexes when the next map is m and the statistics are st.
HasMapNext(m) ==
    /\ "bounded" \notin failures' => bounded' = m
    /\ SparseReplayed /\ "sparse" \notin failures' => sparse' = m

FailuresNext(st) ==
    /\ "bounded" \in failures' => "bounded" \in starved'
    /\ "sparse" \in failures' =>
           SparseReplayed /\ ("sparse" \in starved' \/ st.maximum > Pow2[SparseBits])

\* A replayed mutation that the indexes accept, while they have followed.
LEMMA ReplayMutation ==
    ASSUME NEW e, Mutates(e), NEW short, Replay(e, short), NEW h, NEW b, NEW st,
           st.maximum \in Nat, stats.maximum \in Nat,
           st.maximum >= stats.maximum, st.maximum >= e.address + e.size,
           e.address \in Nat, e.size \in Nat,
           bounded = b => OnBounded!Accepts(Request(e)),
           sparse = b => OnSparse!Accepts(Request(e)),
           OnBounded!Applied(Request(e)) = Mapping(e, bounded, h),
           OnSparse!Applied(Request(e)) = Mapping(e, sparse, h),
           HasMap(b), FailuresFit(stats)
    PROVE  HasMapNext(Mapping(e, b, h)) /\ FailuresNext(st)
<1>1. /\ Answered(e)["bounded"] <=> OnBounded!Accepts(Request(e))
      /\ Answered(e)["sparse"] <=> InSparse(e) /\ OnSparse!Accepts(Request(e))
  <2>1. e.operation # "LOOKUP"
    BY DEF Mutates
  <2> QED BY <2>1 DEF Answered
<1>2. "bounded" \notin failures' => bounded' = Mapping(e, b, h)
  <2> SUFFICES ASSUME "bounded" \notin failures' PROVE bounded' = Mapping(e, b, h)
    OBVIOUS
  <2>1. "bounded" \notin failures /\ bounded' = Mapping(e, bounded, h)
    BY ReplayIs
  <2> QED BY <2>1 DEF HasMap
<1>3. SparseReplayed /\ "sparse" \notin failures' => sparse' = Mapping(e, b, h)
  <2> SUFFICES ASSUME SparseReplayed, "sparse" \notin failures' PROVE sparse' = Mapping(e, b, h)
    OBVIOUS
  <2>1. "sparse" \notin failures /\ sparse' = Mapping(e, sparse, h)
    BY ReplayIs
  <2> QED BY <2>1 DEF HasMap
<1>4. "bounded" \in failures' => "bounded" \in starved'
  <2>1. CASE "bounded" \in failures
    BY <2>1, ReplayIs DEF FailuresFit
  <2>2. CASE "bounded" \notin failures
    <3>1. Answered(e)["bounded"]
      BY <1>1, <2>2 DEF HasMap
    <3> QED BY <2>2, <3>1, ReplayIs
  <2> QED BY <2>1, <2>2
<1>5. ASSUME "sparse" \in failures'
      PROVE  SparseReplayed /\ ("sparse" \in starved' \/ st.maximum > Pow2[SparseBits])
  <2>1. CASE "sparse" \in failures
    <3>1. SparseReplayed /\ ("sparse" \in starved \/ stats.maximum > Pow2[SparseBits])
      BY <2>1 DEF FailuresFit
    <3>2. "sparse" \in starved => "sparse" \in starved'
      BY ReplayIs
    <3> QED BY <3>1, <3>2, TraceWords
  <2>2. CASE "sparse" \notin failures
    <3>1. SparseReplayed /\ ("sparse" \in short \/ ~Answered(e)["sparse"])
      BY <1>5, <2>2, ReplayIs
    <3>2. OnSparse!Accepts(Request(e))
      BY <2>2, <3>1 DEF HasMap
    <3>3. CASE InSparse(e)
      <4>1. Answered(e)["sparse"] /\ "sparse" \in short
        BY <1>1, <3>1, <3>2, <3>3
      <4> QED BY <1>5, <2>2, <3>1, <4>1, ReplayIs
    <3>4. CASE ~InSparse(e)
      BY <3>1, <3>4, TraceWords DEF InSparse
    <3> QED BY <3>3, <3>4
  <2> QED BY <2>1, <2>2
<1> QED BY <1>2, <1>3, <1>4, <1>5 DEF HasMapNext, FailuresNext

-----------------------------------------------------------------------------
(***************************************************************************)
(* Every pass over an accepted event.                                       *)
(***************************************************************************)

\* What holds between two events, of a table of c slots and a map b.
PassesSound(c, b) ==
    /\ ShiftsValid
    /\ TableSound(table, c, inserted, possible_live) /\ c = Capacity(table.slots)
    /\ ReplayInv(b)

\* The passes over e, when it is accepted.
Passes(e, short) ==
    /\ e \in Events /\ memx_trace_validate(e) /\ OracleAccepts(e)
    /\ (e.operation = "INSERT" => inserted + GranuleCount(e) <= possible_live)
    /\ inserted' = inserted + (IF e.operation = "INSERT" THEN GranuleCount(e) ELSE 0)
    /\ table' = OracleApplies(e)
    /\ stats' = memx_trace_calculate_stats(e)
    /\ Replay(e, short)

\* The same after them, of a map m; the trace has not changed in what the
\* passes read.
PassesKept(c, m) ==
    /\ TableSound(table', c, inserted', possible_live)
    /\ MapAgrees(m, table'.slots, c)
    /\ HasMapNext(m) /\ FailuresNext(stats')
    /\ StatsFit(stats', m)

LEMMA InsertPasses ==
    ASSUME LoadInv, NEW c, NEW b, PassesSound(c, b), NEW e, NEW short, Passes(e, short),
           e.operation = "INSERT"
    PROVE  PassesKept(c, Mapping(e, b, e.handle))
<1>1. /\ ShiftsValid /\ TableInv /\ MapInv(b) /\ HasMap(b) /\ FailuresFit(stats)
      /\ StatsFit(stats, b)
      /\ e \in Events /\ memx_trace_validate(e) /\ OracleAccepts(e)
      /\ inserted + GranuleCount(e) <= possible_live
      /\ c = Capacity(table.slots)
  BY DEF PassesSound, Passes, TableInv, ReplayInv
<1>2. ValidRange(e) /\ e.handle \in Handles /\ e.handle # Invalid
  BY <1>1, AcceptedRange, TraceAssumption DEF RangeOperation
<1>3. \A a \in Words : GranuleStart(a) \in GranulesOf(e) <=> a \in Bytes(e)
  BY <1>1, <1>2, GranuleSizeIs, RangeGranules
<1>4. \A a \in Bytes(e) : b[a] = Invalid
  BY <1>1, InsertAccepted
<1>5. /\ TableSound(table', c, inserted', possible_live)
      /\ \A x, k : Entry(table'.slots, c, x, k) <=>
            Entry(table.slots, c, x, k) \/ (k = e.handle /\ x \in GranulesOf(e))
  <2>1. table' = OracleApplies(e) /\ inserted' = inserted + GranuleCount(e)
    BY DEF Passes
  <2> QED BY <1>1, <2>1, InsertTable
<1>6. PICK m : m = Mapping(e, b, e.handle)
  OBVIOUS
<1>7. MapAgrees(m, table'.slots, c)
  <2>1. MapAgrees(b, table.slots, c)
    BY <1>1 DEF MapInv
  <2> QED BY <1>2, <1>3, <1>4, <1>5, <1>6, <2>1, MapInserted
<1>8. MappedOf(m) = MappedOf(b) \cup Bytes(e)
      /\ Cardinality(MappedOf(m)) = Cardinality(MappedOf(b)) + e.size
  BY <1>2, <1>4, <1>6, InsertCounts
<1>9. PICK st : st = memx_trace_calculate_stats(e)
  OBVIOUS
<1>10. st.live = Cardinality(MappedOf(m))
  <2>1. st.live = stats.live + e.size
    BY <1>9 DEF memx_trace_calculate_stats
  <2> QED BY <1>1, <1>8, <2>1 DEF StatsFit
<1>11. StatsFit(st, m) /\ st.maximum >= stats.maximum /\ st.maximum >= e.address + e.size
  <2>1. RangeOperation(e) /\ e.address + e.size <= WordMax
    BY <1>2 DEF RangeOperation, ValidRange
  <2> QED BY <1>1, <1>8, <1>9, <1>10, <2>1, StatsStep
<1>12. HasMapNext(m) /\ FailuresNext(st)
  <2>1. /\ bounded = b => OnBounded!Accepts(Request(e))
        /\ sparse = b => OnSparse!Accepts(Request(e))
        /\ OnBounded!Applied(Request(e)) = Mapping(e, bounded, e.handle)
        /\ OnSparse!Applied(Request(e)) = Mapping(e, sparse, e.handle)
    BY <1>2, <1>4, ReplayInsert
  <2>2. Mutates(e) /\ Replay(e, short) /\ st.maximum \in Nat /\ stats.maximum \in Nat
        /\ e.address \in Nat /\ e.size \in Nat
    BY <1>1, <1>2, <1>11 DEF Mutates, Passes, StatsFit, ValidRange
  <2> QED BY <1>1, <1>6, <1>11, <2>1, <2>2, ReplayMutation
<1>13. stats' = st
  BY <1>9 DEF Passes
<1> QED BY <1>5, <1>6, <1>7, <1>11, <1>12, <1>13 DEF PassesKept

LEMMA RemovePasses ==
    ASSUME LoadInv, NEW c, NEW b, PassesSound(c, b), NEW e, NEW short, Passes(e, short),
           e.operation = "REMOVE"
    PROVE  PassesKept(c, Mapping(e, b, Invalid))
<1>1. /\ ShiftsValid /\ TableInv /\ MapInv(b) /\ HasMap(b) /\ FailuresFit(stats)
      /\ StatsFit(stats, b)
      /\ e \in Events /\ memx_trace_validate(e) /\ OracleAccepts(e)
      /\ inserted \in Nat /\ c = Capacity(table.slots)
  BY DEF PassesSound, Passes, TableInv, ReplayInv, MapInv, TableSound
<1>2. ValidRange(e) /\ e.handle \in Handles /\ e.handle # Invalid
  BY <1>1, AcceptedRange, TraceAssumption DEF RangeOperation
<1>3. \A a \in Words : GranuleStart(a) \in GranulesOf(e) <=> a \in Bytes(e)
  BY <1>1, <1>2, GranuleSizeIs, RangeGranules
<1>4. \A a \in Bytes(e) : b[a] = e.handle
  BY <1>1, ChangeAccepted
<1>5. /\ TableSound(table', c, inserted', possible_live)
      /\ \A x, k : Entry(table'.slots, c, x, k) <=>
            Entry(table.slots, c, x, k) /\ x \notin GranulesOf(e)
  <2>1. table' = OracleApplies(e) /\ inserted' = inserted
    BY <1>1 DEF Passes
  <2> QED BY <1>1, <2>1, ChangeTable
<1>6. PICK m : m = Mapping(e, b, Invalid)
  OBVIOUS
<1>7. MapAgrees(m, table'.slots, c)
  <2>1. MapAgrees(b, table.slots, c)
    BY <1>1 DEF MapInv
  <2> QED BY <1>3, <1>5, <1>6, <2>1, MapRemoved
<1>8. /\ MappedOf(m) = MappedOf(b) \ Bytes(e)
      /\ Cardinality(MappedOf(m)) = Cardinality(MappedOf(b)) - e.size
      /\ e.size <= Cardinality(MappedOf(b))
  BY <1>2, <1>4, <1>6, RemoveCounts
<1>9. PICK st : st = memx_trace_calculate_stats(e)
  OBVIOUS
<1>10. st.live = Cardinality(MappedOf(m))
  <2>1. stats.live = Cardinality(MappedOf(b)) /\ stats.live \in Nat /\ e.size \in Nat
    BY <1>1, <1>2 DEF StatsFit, ValidRange
  <2>2. ~(e.size > stats.live)
    BY <1>8, <2>1
  <2>3. st.live = stats.live - e.size
    BY <1>9, <2>2 DEF memx_trace_calculate_stats
  <2> QED BY <1>8, <2>1, <2>3
<1>11. StatsFit(st, m) /\ st.maximum >= stats.maximum /\ st.maximum >= e.address + e.size
  <2>1. RangeOperation(e) /\ e.address + e.size <= WordMax
    BY <1>2 DEF RangeOperation, ValidRange
  <2> QED BY <1>1, <1>8, <1>9, <1>10, <2>1, StatsStep
<1>12. HasMapNext(m) /\ FailuresNext(st)
  <2>1. /\ bounded = b => OnBounded!Accepts(Request(e))
        /\ sparse = b => OnSparse!Accepts(Request(e))
        /\ OnBounded!Applied(Request(e)) = Mapping(e, bounded, Invalid)
        /\ OnSparse!Applied(Request(e)) = Mapping(e, sparse, Invalid)
    BY <1>2, <1>4, ReplayRemove
  <2>2. Mutates(e) /\ Replay(e, short) /\ st.maximum \in Nat /\ stats.maximum \in Nat
        /\ e.address \in Nat /\ e.size \in Nat
    BY <1>1, <1>2, <1>11 DEF Mutates, Passes, StatsFit, ValidRange
  <2> QED BY <1>1, <1>6, <1>11, <2>1, <2>2, ReplayMutation
<1>13. stats' = st
  BY <1>9 DEF Passes
<1> QED BY <1>5, <1>6, <1>7, <1>11, <1>12, <1>13 DEF PassesKept

\* The other events leave the maps alone.
LEMMA OtherPasses ==
    ASSUME LoadInv, NEW c, NEW b, PassesSound(c, b), NEW e, NEW short, Passes(e, short),
           e.operation \in {"LOOKUP", "RETIRE", "QUIESCENT"}
    PROVE  PassesKept(c, b)
<1>1. /\ ShiftsValid /\ TableInv /\ MapInv(b) /\ HasMap(b) /\ FailuresFit(stats)
      /\ StatsFit(stats, b)
      /\ e \in Events /\ memx_trace_validate(e) /\ OracleAccepts(e)
      /\ inserted \in Nat /\ c = Capacity(table.slots)
      /\ TableSound(table, c, inserted, possible_live)
      /\ MapAgrees(b, table.slots, c)
  BY DEF PassesSound, Passes, TableInv, ReplayInv, MapInv, TableSound
<1>2. /\ TableSound(table', c, inserted', possible_live)
      /\ \A x, k : Entry(table'.slots, c, x, k) <=> Entry(table.slots, c, x, k)
  <2>1. table' = OracleApplies(e) /\ inserted' = inserted
    BY <1>1 DEF Passes
  <2>2. CASE e.operation = "RETIRE"
    BY <1>1, <2>1, <2>2, ChangeTable
  <2>3. CASE e.operation # "RETIRE"
    <3>1. table' = table
      BY <2>1, <2>3 DEF OracleApplies
    <3> QED BY <1>1, <2>1, <3>1
  <2> QED BY <2>2, <2>3
<1>3. MapAgrees(b, table'.slots, c)
  BY <1>1, <1>2 DEF MapAgrees
<1>4. ~Mutates(e)
  BY DEF Mutates
<1>5. e.operation = "LOOKUP" => b[e.address] = e.handle
  BY <1>1, LookupAccepted
<1>6. Replay(e, short)
  BY DEF Passes
<1>7. /\ bounded = b => Answered(e)["bounded"]
      /\ sparse = b => Answered(e)["sparse"]
  BY <1>4, <1>5 DEF Answered
<1>8. PICK st : st = memx_trace_calculate_stats(e)
  OBVIOUS
<1>9. StatsFit(st, b) /\ st.maximum >= stats.maximum
  <2>1. st.live = stats.live
    BY <1>8 DEF memx_trace_calculate_stats
  <2>2. st.live = Cardinality(MappedOf(b))
    BY <1>1, <2>1 DEF StatsFit
  <2>3. e.operation = "LOOKUP" => e.address # WordMax
    BY <1>1 DEF memx_trace_validate
  <2>4. RangeOperation(e) => e.address + e.size <= WordMax
    BY <1>1, AcceptedRange DEF ValidRange
  <2> QED BY <1>1, <1>8, <2>2, <2>3, <2>4, StatsStep
<1>10. stats' = st
  BY <1>8 DEF Passes
<1>11. st.maximum \in Nat /\ stats.maximum \in Nat
  BY <1>1, <1>9 DEF StatsFit
<1>12. HasMapNext(b)
  <2>1. "bounded" \notin failures' => bounded' = b
    <3>1. "bounded" \notin failures' => "bounded" \notin failures /\ bounded' = bounded
      BY <1>4, <1>6, ReplayIs
    <3> QED BY <1>1, <3>1 DEF HasMap
  <2>2. SparseReplayed /\ "sparse" \notin failures' => sparse' = b
    <3>1. SparseReplayed /\ "sparse" \notin failures' => "sparse" \notin failures /\ sparse' = sparse
      BY <1>4, <1>6, ReplayIs
    <3> QED BY <1>1, <3>1 DEF HasMap
  <2> QED BY <2>1, <2>2 DEF HasMapNext
<1>13. FailuresNext(st)
  <2>1. "bounded" \notin short /\ "sparse" \notin short
    BY <1>4, <1>6, ReplayIs
  <2>2. "bounded" \in failures' => "bounded" \in failures
    BY <1>1, <1>6, <1>7, <2>1, ReplayIs DEF HasMap
  <2>3. "sparse" \in failures' => "sparse" \in failures
    BY <1>1, <1>6, <1>7, <2>1, ReplayIs DEF HasMap
  <2>4. /\ "bounded" \in starved => "bounded" \in starved'
        /\ "sparse" \in starved => "sparse" \in starved'
    BY <1>6, ReplayIs
  <2> QED BY <1>1, <1>9, <1>11, <2>2, <2>3, <2>4, TraceWords DEF FailuresFit, FailuresNext
<1> QED BY <1>2, <1>3, <1>9, <1>10, <1>12, <1>13 DEF PassesKept

-----------------------------------------------------------------------------
(***************************************************************************)
(* The table the oracle starts with.                                        *)
(***************************************************************************)
LEMMA PowAbove == \A k \in Nat : Pow2[k] >= k
<1>1. PICK S : S = {k \in Nat : Pow2[k] >= k}
  OBVIOUS
<1>2. 0 \in S
  BY <1>1, PowPositive
<1>3. ASSUME NEW n \in Nat, n \in S PROVE n + 1 \in S
  <2>1. Pow2[n + 1] = 2 * Pow2[n] /\ Pow2[n] \in Nat /\ Pow2[n] >= 1
    BY PowDefined, PowPositive
  <2> QED BY <1>1, <1>3, <2>1
<1> QED BY <1>1, <1>2, <1>3, Induction

\* It has room for twice the granules that are to come.
LEMMA CapacityIs ==
    ASSUME NEW n \in Nat
    PROVE  /\ trace_lifecycle_capacity(n) \in Nat /\ trace_lifecycle_capacity(n) >= 1
           /\ trace_lifecycle_capacity(n) >= 2 * n
<1>1. PICK m \in Nat : m = MinCapacity /\ m >= 1
  BY TraceAssumption
<1>2. PICK S : S = {k \in 0 .. (2 * n) : m * Pow2[k] >= n * 2}
  OBVIOUS
<1>3. 2 * n \in S
  <2>1. PICK y \in Nat : y = Pow2[2 * n]
    BY PowPositive
  <2>2. y >= 2 * n
    BY <2>1, PowAbove
  <2>3. m * y >= y
    BY <1>1, <2>1
  <2>4. m * y \in Nat
    BY <1>1, <2>1
  <2> QED BY <1>2, <2>1, <2>2, <2>3, <2>4
<1>4. PICK k : k = Least(S)
  OBVIOUS
<1>5. k \in S
  <2>1. S \in SUBSET Nat
    BY <1>2
  <2> QED BY <1>3, <1>4, <2>1, LeastIs
<1>6. PICK y \in Nat : y = Pow2[k] /\ y >= 1
  BY <1>2, <1>5, PowPositive
<1>7. m * y \in Nat /\ m * y >= 1
  BY <1>1, <1>6
<1>8. m * y >= 2 * n
  BY <1>2, <1>5, <1>6
<1>9. trace_lifecycle_capacity(n) = m * y
  BY <1>1, <1>2, <1>4, <1>6 DEF trace_lifecycle_capacity
<1> QED BY <1>7, <1>8, <1>9

LEMMA FreshTable ==
    ASSUME NEW c \in Nat, c >= 1, NEW s, s = [p \in 0 .. (c - 1) |-> EmptySlot]
    PROVE  /\ SoundTable(s, c) /\ \A x, k : ~Entry(s, c, x, k)
           /\ Cardinality(LiveOf(s, c)) = 0 /\ Cardinality(EmptyOf(s, c)) = c
<1>1. EmptySlot \in Slots
  BY TraceWords DEF EmptySlot, Slots, Words
<1>2. \A p \in 0 .. (c - 1) : s[p].state = "EMPTY" /\ s[p].retired = FALSE
  BY DEF EmptySlot
<1>3. IsTable(s, c)
  BY <1>1 DEF IsTable
<1>4. SoundTable(s, c)
  BY <1>2, <1>3 DEF SoundTable, ReachInv, SingleInv, RetiredInv
<1>5. \A x, k : ~Entry(s, c, x, k)
  BY <1>2 DEF Entry, Holds
<1>6. LiveOf(s, c) = {} /\ EmptyOf(s, c) = 0 .. (c - 1)
  BY <1>2 DEF LiveOf, EmptyOf
<1>7. Cardinality({}) = 0 /\ Cardinality(0 .. (c - 1)) = c
  BY FS_EmptySet, FS_Interval
<1> QED BY <1>4, <1>5, <1>6, <1>7

-----------------------------------------------------------------------------
(***************************************************************************)
(* Every step keeps the invariant.                                          *)
(***************************************************************************)
LEMMA TraceStart == TraceInit => TraceInv
<1> SUFFICES ASSUME TraceInit PROVE TraceInv
  OBVIOUS
<1>1. LoadInv
  BY InitTraceIs DEF TraceInit, LoadInv
<1>2. QuietInv
  BY DEF TraceInit, QuietInv
<1>3. JudgeInv
  BY DEF TraceInit, JudgeInv, Judging
<1> QED BY <1>1, <1>2, <1>3 DEF TraceInv

\* A call that returns leaves nothing behind.
LEMMA ForgetStep ==
    ASSUME Forget, LoadInv'
    PROVE  TraceInv'
<1>1. QuietInv'
  BY DEF Forget, QuietInv
<1>2. JudgeInv'
  BY DEF Forget, JudgeInv, Judging
<1> QED BY <1>1, <1>2 DEF TraceInv

LEMMA FailStep ==
    ASSUME TraceInv, NEW result, Fail(result)
    PROVE  TraceInv'
<1>1. trace' = memx_trace_init /\ out_trace' = out_trace /\ buffers' = buffers - Buffer(trace)
  BY DEF Fail, Forget
<1>2. LoadInv
  BY DEF TraceInv
<1>3. Buffer(trace) \in Int /\ Buffer(out_trace) \in Int
  BY DEF Buffer
<1>4. buffers' = Buffer(out_trace)
  BY <1>1, <1>2, <1>3 DEF LoadInv
<1>5. LoadInv'
  <2>1. trace' \in Traces /\ out_trace' \in Traces
    BY <1>1, <1>2, InitTraceIs DEF LoadInv
  <2>2. Buffer(trace)' = 0 /\ Buffer(out_trace)' = Buffer(out_trace)
    BY <1>1, InitTraceIs DEF Buffer
  <2> QED BY <1>3, <1>4, <2>1, <2>2 DEF LoadInv
<1> QED BY <1>5, ForgetStep DEF Fail

LEMMA AcceptStep ==
    ASSUME TraceInv, Accept
    PROVE  TraceInv'
<1>1. trace' = memx_trace_init /\ out_trace' = trace /\ buffers' = buffers - Buffer(out_trace)
  BY DEF Accept, Forget
<1>2. LoadInv
  BY DEF TraceInv
<1>3. Buffer(trace) \in Int /\ Buffer(out_trace) \in Int
  BY DEF Buffer
<1>4. buffers' = Buffer(trace)
  BY <1>1, <1>2, <1>3 DEF LoadInv
<1>5. LoadInv'
  <2>1. trace' \in Traces /\ out_trace' \in Traces
    BY <1>1, <1>2, InitTraceIs DEF LoadInv
  <2>2. Buffer(trace)' = 0 /\ Buffer(out_trace)' = Buffer(trace)
    BY <1>1, InitTraceIs DEF Buffer
  <2> QED BY <1>3, <1>4, <2>1, <2>2 DEF LoadInv
<1> QED BY <1>5, ForgetStep DEF Accept

LEMMA EndOfFileStep ==
    ASSUME TraceInv, EndOfFile
    PROVE  TraceInv'
<1>1. Fail("FORMAT") \/ Fail("VERSION") \/ Fail("SEMANTIC") \/ Accept
  BY DEF EndOfFile
<1> QED BY <1>1, FailStep, AcceptStep

\* Whether the sparse index is created depends on the shifts alone.
LEMMA SparseSame ==
    ASSUME trace'.region_shift = trace.region_shift,
           trace'.granule_shift = trace.granule_shift
    PROVE  SparseReplayed' = SparseReplayed
<1>1. SparseConfig' = SparseConfig
  BY DEF SparseConfig
<1> QED BY <1>1 DEF SparseReplayed, SparseCreate!memx_validate_config,
        SparseCreate!memx_shift_valid, SparseCreate!BoundedRangeValid,
        SparseCreate!SparseRangeValid, SparseCreate!memx_is_aligned,
        SparseCreate!GeometryStatus, SparseCreate!Geometry, SparseCreate!Wrapped,
        SparseCreate!DirectorySlots

\* Steps that change none of what the passes keep.
LEMMA QuietStep ==
    ASSUME TraceInv,
           UNCHANGED <<saw_columns, trace, possible_live, inserted,
                       invalid, passes, out_trace, buffers>>
    PROVE  TraceInv'
<1>1. LoadInv' /\ QuietInv'
  BY DEF TraceInv, LoadInv, QuietInv, passes, Buffer
<1>2. SparseReplayed' = SparseReplayed
  BY SparseSame
<1>3. ASSUME Judging PROVE ShiftsValid' /\ TableInv' /\ \E b : ReplayInv(b)'
  <2>1. PICK b : ShiftsValid /\ TableInv /\ ReplayInv(b)
    BY <1>3 DEF TraceInv, JudgeInv
  <2>2. ShiftsValid' /\ TableInv'
    BY <2>1 DEF ShiftsValid, TableInv, TableSound, passes
  <2>3. MapInv(b)' /\ StatsFit(stats, b)'
    BY <2>1 DEF ReplayInv, MapInv, MapAgrees, GranuleStart, granule_size, StatsFit, MappedOf, passes
  <2>4. HasMap(b)' /\ FailuresFit(stats)'
    BY <1>2, <2>1 DEF ReplayInv, HasMap, FailuresFit, passes
  <2> QED BY <2>2, <2>3, <2>4 DEF ReplayInv
<1>4. Judging' = Judging
  BY DEF Judging
<1> QED BY <1>1, <1>3, <1>4 DEF TraceInv, JudgeInv

LEMMA HeaderStep ==
    ASSUME TraceInv, NEW name \in {"version", "region_shift", "granule_shift"},
           NEW value \in HeaderValues, HeaderLine(name, value)
    PROVE  TraceInv'
<1>1. /\ ~saw_columns /\ trace' = [trace EXCEPT ![name] = value]
      /\ UNCHANGED <<saw_columns, inserted, passes, out_trace, buffers>>
  BY DEF HeaderLine, Local
<1>2. LoadInv /\ QuietInv /\ value \in Nat
  BY TraceAssumption DEF TraceInv
<1>3. trace' \in Traces /\ trace'.events = trace.events
  <2>1. PICK t : t = trace
    OBVIOUS
  <2>2. t \in Traces /\ trace' = [t EXCEPT ![name] = value]
    BY <1>1, <1>2, <2>1 DEF LoadInv
  <2>3. trace' \in Traces /\ trace'.events = t.events
    <3>1. CASE name = "version"
      BY ONLY <2>2, <3>1, value \in HeaderValues DEF Traces
    <3>2. CASE name = "region_shift"
      BY ONLY <1>2, <2>2, <3>2 DEF Traces
    <3>3. CASE name = "granule_shift"
      BY ONLY <1>2, <2>2, <3>3 DEF Traces
    <3> QED BY <3>1, <3>2, <3>3
  <2> QED BY <2>1, <2>3
<1>4. LoadInv'
  <2>1. Buffer(trace)' = Buffer(trace) /\ Buffer(out_trace)' = Buffer(out_trace)
    BY <1>1, <1>3 DEF Buffer
  <2> QED BY <1>1, <1>2, <1>3, <2>1 DEF LoadInv
<1>5. QuietInv'
  BY <1>1, <1>2 DEF QuietInv, passes
<1>6. JudgeInv'
  BY <1>1 DEF JudgeInv, Judging
<1> QED BY <1>4, <1>5, <1>6 DEF TraceInv

LEMMA ColumnsStep ==
    ASSUME TraceInv, NEW granules \in 0 .. MaxInserted, ColumnsLine(granules)
    PROVE  TraceInv'
<1>1. /\ ~saw_columns /\ saw_columns' = TRUE
      /\ UNCHANGED <<trace, inserted, bounded, sparse, failures, starved, stats, out_trace, buffers>>
  BY DEF ColumnsLine
<1>2. LoadInv /\ inserted = 0 /\ bounded = Unmapped /\ sparse = Unmapped /\ failures = {}
      /\ starved = {} /\ stats = NoStats
  BY <1>1 DEF TraceInv, QuietInv
<1>3. LoadInv' /\ QuietInv'
  <2>1. Buffer(trace)' = Buffer(trace) /\ Buffer(out_trace)' = Buffer(out_trace)
    BY <1>1 DEF Buffer
  <2> QED BY <1>1, <1>2, <2>1 DEF LoadInv, QuietInv
<1>4. ASSUME ~invalid' PROVE ShiftsValid' /\ TableInv' /\ \E b : ReplayInv(b)'
  <2>1. ShiftsValid /\ possible_live' = granules /\ granules \in Nat
    <3>1. invalid' = ~(trace.version = Version /\ ShiftsValid)
      BY DEF ColumnsLine
    <3>2. possible_live' = IF invalid' THEN 0 ELSE granules
      BY DEF ColumnsLine
    <3>3. granules \in Nat
      BY TraceAssumption
    <3> QED BY <1>4, <3>1, <3>2, <3>3
  <2>2. PICK c : c = trace_lifecycle_capacity(granules)
    OBVIOUS
  <2>3. c \in Nat /\ c >= 1 /\ c >= 2 * granules
    BY <2>1, <2>2, CapacityIs
  <2>4. PICK s : s = [p \in 0 .. (c - 1) |-> EmptySlot]
    OBVIOUS
  <2>5. table' = [NoTable EXCEPT !.slots = s]
    BY <2>1, <2>2, <2>4 DEF ColumnsLine
  <2>6. table' = [slots |-> s, live_count |-> 0]
    BY <2>5 DEF NoTable
  <2>7. /\ SoundTable(s, c) /\ \A x, k : ~Entry(s, c, x, k)
        /\ Cardinality(LiveOf(s, c)) = 0 /\ Cardinality(EmptyOf(s, c)) = c
    BY <2>3, <2>4, FreshTable
  <2>8. table'.slots = s /\ table'.live_count = 0
        /\ table' = [slots |-> table'.slots, live_count |-> table'.live_count]
    BY <2>6
  <2>9. Capacity(table.slots)' = c
    <3>1. Capacity(s) = c
      BY <2>7, TableCapacity DEF SoundTable
    <3> QED BY <2>8, <3>1 DEF Capacity
  <2>10. TableSound(table', c, inserted', possible_live')
    <3>1. c + 0 >= c /\ 0 <= granules /\ 2 * granules <= c
      BY <2>1, <2>3
    <3> QED BY <1>1, <1>2, <2>1, <2>7, <2>8, <3>1 DEF TableSound
  <2>11. TableInv'
    BY <2>9, <2>10 DEF TableInv
  <2>12. PICK b : b = Unmapped
    OBVIOUS
  <2>13. b \in [Words -> Handles \cup {Invalid}] /\ \A a \in Words : b[a] = Invalid
    BY <2>12 DEF Unmapped
  <2>14. MapInv(b)'
    <3>1. MapAgrees(b, s, c)'
      BY <2>7, <2>13, TraceAssumption DEF MapAgrees
    <3> QED BY <2>8, <2>9, <3>1 DEF MapInv
  <2>15. HasMap(b)' /\ FailuresFit(stats)'
    BY <1>1, <1>2, <2>12 DEF HasMap, FailuresFit
  <2>16. StatsFit(stats, b)'
    <3>1. MappedOf(b)' = {}
      BY <2>13 DEF MappedOf
    <3>2. stats' = [minimum |-> WordMax, maximum |-> 0, live |-> 0, peak |-> 0]
      BY <1>1, <1>2 DEF NoStats
    <3>3. Cardinality({}) = 0
      BY FS_EmptySet
    <3>4. /\ stats' \in [minimum : Nat, maximum : Nat, live : Nat, peak : Nat]
          /\ stats'.minimum <= WordMax /\ stats'.maximum <= WordMax
          /\ stats'.live = 0 /\ stats'.peak >= 0
      BY <3>2, TraceWords
    <3> QED BY <3>1, <3>3, <3>4 DEF StatsFit
  <2>17. ShiftsValid'
    BY <1>1, <2>1 DEF ShiftsValid
  <2> QED BY <2>11, <2>14, <2>15, <2>16, <2>17 DEF ReplayInv
<1>5. JudgeInv'
  BY <1>4 DEF JudgeInv, Judging
<1> QED BY <1>3, <1>5 DEF TraceInv

\* After an accepted event the invariant's parts hold of the new state.
LEMMA KeptPasses ==
    ASSUME NEW c, NEW m, PassesKept(c, m), ShiftsValid,
           possible_live' = possible_live, trace'.region_shift = trace.region_shift,
           trace'.granule_shift = trace.granule_shift
    PROVE  ShiftsValid' /\ TableInv' /\ ReplayInv(m)'
<1>1. ShiftsValid'
  BY DEF ShiftsValid
<1>2. Capacity(table.slots)' = c
  <2>1. IsTable(table'.slots, c)
    BY DEF PassesKept, TableSound, SoundTable
  <2>2. Capacity(table'.slots) = c
    BY <2>1, TableCapacity
  <2> QED BY <2>2 DEF Capacity
<1>3. TableInv'
  BY <1>2 DEF TableInv, PassesKept, TableSound
<1>4. \A a : GranuleStart(a)' = GranuleStart(a)
  BY DEF GranuleStart, granule_size
<1>5. MapInv(m)'
  BY <1>2, <1>4 DEF MapInv, MapAgrees, PassesKept
<1>6. HasMap(m)' /\ FailuresFit(stats)'
  <2>1. SparseReplayed' = SparseReplayed
    BY SparseSame
  <2> QED BY <2>1 DEF HasMap, FailuresFit, HasMapNext, FailuresNext, PassesKept
<1>7. StatsFit(stats, m)'
  BY DEF StatsFit, MappedOf, PassesKept
<1> QED BY <1>1, <1>3, <1>5, <1>6, <1>7 DEF ReplayInv

LEMMA EventStep ==
    ASSUME TraceInv, NEW e \in Events, EventLine(e)
    PROVE  TraceInv'
<1>1. /\ saw_columns /\ ~invalid
      /\ trace' = [trace EXCEPT !.events = TRUE]
      /\ buffers' = buffers + 1 - Buffer(trace)
      /\ UNCHANGED <<saw_columns, possible_live, out_trace>>
  BY DEF EventLine
<1>2. LoadInv /\ JudgeInv
  BY DEF TraceInv
<1>3. /\ trace' \in Traces /\ trace'.events = TRUE
      /\ trace'.region_shift = trace.region_shift /\ trace'.granule_shift = trace.granule_shift
  <2>1. PICK t : t = trace
    OBVIOUS
  <2>2. t \in Traces /\ trace' = [t EXCEPT !.events = TRUE]
    BY <1>1, <1>2, <2>1 DEF LoadInv
  <2>3. /\ trace' \in Traces /\ trace'.events = TRUE
        /\ trace'.region_shift = t.region_shift /\ trace'.granule_shift = t.granule_shift
    BY ONLY <2>2 DEF Traces
  <2> QED BY <2>1, <2>3
<1>4. LoadInv'
  <2>1. Buffer(trace)' = 1 /\ Buffer(out_trace)' = Buffer(out_trace)
    BY <1>1, <1>3 DEF Buffer
  <2>2. Buffer(trace) \in Int /\ Buffer(out_trace) \in Int
    BY DEF Buffer
  <2> QED BY <1>1, <1>2, <1>3, <2>1, <2>2 DEF LoadInv
<1>5. QuietInv'
  BY <1>1 DEF QuietInv
<1>6. JudgeInv'
  <2>1. CASE memx_trace_validate(e) /\ OracleAccepts(e)
    <3>1. PICK c : c = Capacity(table.slots)
      OBVIOUS
    <3>2. PICK b : PassesSound(c, b)
      BY <1>1, <1>2, <3>1 DEF JudgeInv, Judging, PassesSound, TableInv
    <3>3. PICK short : Passes(e, short)
      BY <2>1 DEF EventLine, Passes
    <3>4. e.operation \in {"INSERT", "LOOKUP", "RETIRE", "REMOVE", "QUIESCENT"}
      BY EventIs
    <3>5. PICK m : PassesKept(c, m)
      BY <1>2, <3>2, <3>3, <3>4, InsertPasses, RemovePasses, OtherPasses
    <3>6. ShiftsValid
      BY <3>2 DEF PassesSound
    <3>7. ShiftsValid' /\ TableInv' /\ ReplayInv(m)'
      BY <1>1, <1>3, <3>5, <3>6, KeptPasses
    <3> QED BY <3>7 DEF JudgeInv
  <2>2. CASE ~(memx_trace_validate(e) /\ OracleAccepts(e))
    <3>1. invalid' = TRUE
      BY <2>2 DEF EventLine
    <3> QED BY <3>1 DEF JudgeInv, Judging
  <2> QED BY <2>1, <2>2
<1> QED BY <1>4, <1>5, <1>6 DEF TraceInv

LEMMA TraceStep == TraceInv /\ [TraceNext]_TraceVars => TraceInv'
<1> SUFFICES ASSUME TraceInv, [TraceNext]_TraceVars PROVE TraceInv'
  OBVIOUS
<1>1. CASE OpenFails
  BY <1>1, QuietStep DEF OpenFails
<1>2. CASE Open
  BY <1>2, QuietStep DEF Open
<1>3. CASE MagicLine
  BY <1>3, QuietStep DEF MagicLine
<1>4. CASE \E name \in {"version", "region_shift", "granule_shift"},
              value \in HeaderValues : HeaderLine(name, value)
  BY <1>4, HeaderStep
<1>5. CASE \E granules \in 0 .. MaxInserted : ColumnsLine(granules)
  BY <1>5, ColumnsStep
<1>6. CASE \E e \in Events : EventLine(e)
  BY <1>6, EventStep
<1>7. CASE BadLine \/ AppendFails \/ ReadError \/ OracleFails
  BY <1>7, FailStep DEF BadLine, AppendFails, ReadError, OracleFails
<1>8. CASE EndOfFile
  BY <1>8, EndOfFileStep
<1>9. CASE UNCHANGED TraceVars
  BY <1>9, QuietStep DEF TraceVars
<1> QED BY <1>1, <1>2, <1>3, <1>4, <1>5, <1>6, <1>7, <1>8, <1>9 DEF TraceNext

\* The inductive invariant holds in every reachable state.
THEOREM TraceInvariant == TraceSpec => []TraceInv
<1>1. TraceInit => TraceInv
  BY TraceStart
<1>2. TraceInv /\ [TraceNext]_TraceVars => TraceInv'
  BY TraceStep
<1> QED BY <1>1, <1>2, PTL DEF TraceSpec

-----------------------------------------------------------------------------
(***************************************************************************)
(* The oracle is an exact map, and the indexes agree with it.               *)
(***************************************************************************)
LEMMA OracleHandleIs ==
    ASSUME LoadInv, ShiftsValid, TableInv, NEW b, MapInv(b), NEW a \in Words
    PROVE  b[a] = OracleHandle(a)
<1>1. b[a] = Answer(table.slots, GranuleStart(a))
  BY MapAnswers
<1> QED BY <1>1 DEF OracleHandle, Answer, GranuleStart

LEMMA OracleIsExact == TraceInv => OracleExact
<1> SUFFICES ASSUME TraceInv, Judging PROVE OracleExact
  BY DEF OracleExact
<1>1. PICK b : LoadInv /\ ShiftsValid /\ TableInv /\ MapInv(b) /\ HasMap(b) /\ FailuresFit(stats)
  BY DEF TraceInv, JudgeInv, ReplayInv
<1>2. PICK s, c : s = table.slots /\ c = Capacity(s)
  OBVIOUS
<1>3. SoundTable(s, c) /\ 2 * Cardinality(EmptyOf(s, c)) >= c
  BY <1>1, <1>2, TableFacts
<1>4. DOMAIN s = 0 .. (c - 1)
  BY <1>3, TableCapacity DEF SoundTable
<1>5. InUse = LiveOf(s, c) /\ Fresh = EmptyOf(s, c)
  BY <1>2, <1>4 DEF InUse, Fresh, LiveOf, EmptyOf
<1>6. \A a \in Words :
         /\ "bounded" \notin failures => bounded[a] = OracleHandle(a)
         /\ SparseReplayed /\ "sparse" \notin failures => sparse[a] = OracleHandle(a)
  <2>1. \A a \in Words : b[a] = OracleHandle(a)
    BY <1>1, OracleHandleIs
  <2> QED BY <1>1, <2>1 DEF HasMap
<1>7. \A p, q \in InUse : table.slots[p].granule = table.slots[q].granule => p = q
  BY <1>2, <1>3, <1>5 DEF LiveOf, SoundTable, SingleInv
<1>8. \A p \in DOMAIN table.slots : table.slots[p].retired => p \in InUse
  BY <1>2, <1>3, <1>4 DEF InUse, SoundTable, RetiredInv
<1>9. table.live_count = Cardinality(InUse)
  BY <1>1, <1>2, <1>5 DEF TableInv, TableSound
<1>10. 2 * Cardinality(Fresh) >= Capacity(table.slots)
  BY <1>2, <1>3, <1>5
<1>11. /\ "bounded" \in failures => "bounded" \in starved
       /\ "sparse" \in failures =>
             SparseReplayed /\ ("sparse" \in starved \/ stats.maximum > Pow2[SparseBits])
  BY <1>1 DEF FailuresFit
<1> QED BY <1>6, <1>7, <1>8, <1>9, <1>10, <1>11 DEF OracleExact

\* OracleExact: the hash table of memx_trace_validate_lifecycle answers like a
\* map through tombstones and collisions and never fills, so replay counts no
\* failure on an index that gets its memory; for every hash, geometry, capacity
\* and trace.
THEOREM TraceOracleExact == TraceSpec => []OracleExact
<1>1. TraceInv => OracleExact
  BY OracleIsExact
<1> QED BY <1>1, TraceInvariant, PTL

-----------------------------------------------------------------------------
(***************************************************************************)
(* The range align_coverage derives.                                        *)
(***************************************************************************)

\* Rounding down to a multiple.
LEMMA RoundedDownIs ==
    ASSUME NEW u \in Nat, u >= 1, NEW x \in Nat
    PROVE  /\ x - (x % u) \in Nat /\ x - (x % u) <= x /\ x - (x % u) > x - u
           /\ (x - (x % u)) % u = 0
<1>1. x % u \in Nat /\ x % u < u /\ x % u <= x
  OBVIOUS
<1>2. PICK q \in Int : x - (x % u) = u * q
  <2>1. x \in Int /\ u \in Nat /\ u >= 1
    OBVIOUS
  <2> QED BY ONLY <2>1, Quotient
<1>3. (u * q) % u = 0
  BY Multiple
<1> QED BY <1>1, <1>2, <1>3

\* A smaller number divided by a larger one.
LEMMA QuotientSmaller ==
    ASSUME NEW n \in Nat, NEW x \in Nat, n <= x, NEW w \in Nat, w >= 1, NEW u \in Nat, w <= u
    PROVE  n \div u <= x \div w
<1>1. PICK q \in Nat : q = n \div u
  OBVIOUS
<1>2. PICK p \in Nat : p = x \div w
  OBVIOUS
<1>3. q * u <= n
  BY ONLY <1>1, u >= 1, BelowQuotient
<1>4. w * q <= u * q
  BY ProductMonotone
<1>5. w * q <= x
  BY <1>3, <1>4
<1>6. x < w * (p + 1)
  BY <1>2
<1>7. ~(p + 1 <= q)
  <2> SUFFICES ASSUME p + 1 <= q PROVE FALSE
    OBVIOUS
  <2>1. (p + 1) * w <= q * w
    BY ProductMonotone
  <2> QED BY <1>5, <1>6, <2>1
<1> QED BY <1>1, <1>2, <1>7

\* The range covers what the statistics saw, in whole regions, and its end is
\* a word.
Covers(k, st, region) ==
    /\ k.base \in Nat /\ k.size \in Nat /\ k.size # 0
    /\ k.base % region = 0 /\ k.size % region = 0
    /\ k.size <= WordMax - k.base
    /\ k.base <= st.minimum /\ st.maximum <= k.base + k.size

LEMMA CoverageIs ==
    ASSUME NEW st, st.minimum \in Nat, st.maximum \in Nat, trace.region_shift \in Nat,
           align_coverage(st) # NoCoverage
    PROVE  Covers(align_coverage(st), st, Pow2[trace.region_shift])
<1>1. PICK u \in Nat : u = Pow2[trace.region_shift] /\ u >= 1
  BY PowPositive
<1>2. PICK lo \in Nat, hi \in Nat : lo = st.minimum /\ hi = st.maximum
  OBVIOUS
<1>3. PICK up \in Nat : up = hi + u - 1
  BY <1>1
<1>4. PICK base, high : base = lo - (lo % u) /\ high = up - (up % u)
  OBVIOUS
<1>5. ~(hi = 0 \/ hi > WordMax - (u - 1) \/ high <= base)
      /\ align_coverage(st) = [base |-> base, size |-> high - base]
  BY <1>1, <1>2, <1>3, <1>4 DEF align_coverage
<1>6. base \in Nat /\ base <= lo /\ base % u = 0
  BY <1>1, <1>4, RoundedDownIs
<1>7. high \in Nat /\ high <= up /\ high > up - u /\ high % u = 0
  BY <1>1, <1>4, RoundedDownIs
<1>8. high > base /\ high >= hi /\ high <= WordMax
  BY <1>1, <1>3, <1>5, <1>6, <1>7, TraceWords
<1>9. (high - base) % u = 0
  <2>1. high \in Int /\ base \in Int /\ u >= 1 /\ high % u = 0 /\ base % u = 0
    BY <1>1, <1>6, <1>7
  <2> QED BY ONLY <1>1, <2>1, MultipleSum
<1>10. PICK k : k = [base |-> base, size |-> high - base]
  OBVIOUS
<1>11. k.base = base /\ k.size = high - base
  BY <1>10
<1>12. Covers(k, st, u)
  BY <1>2, <1>6, <1>7, <1>8, <1>9, <1>11, TraceWords DEF Covers
<1> QED BY <1>1, <1>5, <1>10, <1>12

\* The index that is created for it.
LEMMA CoverageAccepted ==
    ASSUME LoadInv, ShiftsValid, Covers(align_coverage(stats), stats, Pow2[trace.region_shift])
    PROVE  /\ BoundedCreate!memx_validate_config(BoundedConfig) = "OK"
           /\ /\ Pow2[trace.region_shift - trace.granule_shift] <= WordMax \div PointerBytes
              /\ Pow2[trace.region_shift] >= PointerBytes
              => BoundedCreate!GeometryStatus(BoundedCreate!Geometry(BoundedConfig)) = "OK"
<1>1. PICK k : k = BoundedConfig
  OBVIOUS
<1>2. /\ k.directory = "BOUNDED" /\ k.region_shift = trace.region_shift
      /\ k.granule_shift = trace.granule_shift /\ k.enums_valid = TRUE /\ k.callbacks = "none"
      /\ k.base_address = align_coverage(stats).base
      /\ k.managed_size = align_coverage(stats).size
  BY <1>1 DEF BoundedConfig
<1>3. BoundedCreate!Pow2 = Pow2
  BY DEF BoundedCreate!Pow2, Pow2
<1>4. BoundedCreate!WordMax = WordMax
  BY <1>3 DEF BoundedCreate!WordMax, WordMax
<1>5. BoundedCreate!BoundedRangeValid(k)
  BY <1>2, <1>3, <1>4 DEF BoundedCreate!BoundedRangeValid, BoundedCreate!memx_is_aligned, Covers
<1>6. /\ BoundedCreate!memx_shift_valid(k.region_shift)
      /\ BoundedCreate!memx_shift_valid(k.granule_shift)
      /\ ~(k.region_shift < k.granule_shift)
  BY <1>2 DEF BoundedCreate!memx_shift_valid, ShiftsValid, LoadInv, Traces
<1>7. BoundedCreate!memx_validate_config(k) = "OK"
  BY <1>2, <1>5, <1>6 DEF BoundedCreate!memx_validate_config
<1>8. ASSUME Pow2[trace.region_shift - trace.granule_shift] <= WordMax \div PointerBytes,
             Pow2[trace.region_shift] >= PointerBytes
      PROVE  BoundedCreate!GeometryStatus(BoundedCreate!Geometry(k)) = "OK"
  <2>1. PICK g : g = BoundedCreate!Geometry(k)
    OBVIOUS
  <2>2. /\ g.granules_per_region = Pow2[trace.region_shift - trace.granule_shift]
        /\ g.region_count = k.managed_size \div Pow2[trace.region_shift]
    BY <1>2, <1>3, <2>1 DEF BoundedCreate!Geometry
  <2>3. PICK u \in Nat, w \in Nat, n \in Nat, x \in Nat :
            /\ u = Pow2[trace.region_shift] /\ w = PointerBytes /\ n = k.managed_size
            /\ x = WordMax /\ u >= w /\ w >= 1 /\ n <= x
    <3>1. Pow2[trace.region_shift] \in Nat
      BY PowPositive DEF LoadInv, Traces
    <3>2. PointerBytes \in Nat /\ PointerBytes >= 1
      BY TraceAssumption
    <3>3. k.managed_size \in Nat /\ k.managed_size <= WordMax
      BY <1>2, TraceWords DEF Covers
    <3> QED BY <1>8, <3>1, <3>2, <3>3, TraceWords
  <2>4. n \div u <= x \div w
    BY ONLY <2>3, QuotientSmaller
  <2>5. BoundedCreate!DirectorySlots(g) = g.region_count
    BY <1>1, <1>2 DEF BoundedCreate!DirectorySlots
  <2>6. g.granules_per_region \in Nat /\ x \div w \in Nat /\ n \div u \in Nat
    <3>1. trace.region_shift - trace.granule_shift \in Nat
      BY DEF ShiftsValid, LoadInv, Traces
    <3>2. Pow2[trace.region_shift - trace.granule_shift] \in Nat
      BY <3>1, PowPositive
    <3>3. x \div w \in Nat /\ n \div u \in Nat
      BY ONLY <2>3
    <3> QED BY <2>2, <3>2, <3>3
  <2>7. ~(g.granules_per_region > x \div w) /\ ~(n \div u > x \div w)
    BY <1>8, <2>2, <2>3, <2>4, <2>6
  <2>8. BoundedCreate!DirectorySlots(g) = n \div u
    BY <2>2, <2>3, <2>5
  <2> QED BY <1>4, <2>1, <2>3, <2>7, <2>8 DEF BoundedCreate!GeometryStatus
<1> QED BY <1>1, <1>7, <1>8

LEMMA StatsAreExact == TraceInv => StatsExact
<1> SUFFICES ASSUME TraceInv, Judging PROVE StatsExact
  BY DEF StatsExact
<1>1. PICK b : LoadInv /\ ShiftsValid /\ TableInv /\ MapInv(b) /\ StatsFit(stats, b)
  BY DEF TraceInv, JudgeInv, ReplayInv
<1>2. PICK M : M = {a \in Words : OracleHandle(a) # Invalid}
  OBVIOUS
<1>3. M = MappedOf(b)
  BY <1>1, <1>2, OracleHandleIs DEF MappedOf
<1>4. stats.live = Cardinality(M) /\ stats.peak >= stats.live
  BY <1>1, <1>3 DEF StatsFit
<1>5. PICK k : k = align_coverage(stats)
  OBVIOUS
<1>6. PICK granules : granules = Pow2[trace.region_shift - trace.granule_shift]
  OBVIOUS
<1>7. ASSUME k # NoCoverage
      PROVE  /\ M \subseteq k.base .. (k.base + k.size - 1)
             /\ BoundedCreate!memx_validate_config(BoundedConfig) = "OK"
             /\ granules <= WordMax \div PointerBytes /\ Pow2[trace.region_shift] >= PointerBytes
                  => BoundedCreate!GeometryStatus(BoundedCreate!Geometry(BoundedConfig)) = "OK"
  <2>1. stats.minimum \in Nat /\ stats.maximum \in Nat /\ trace.region_shift \in Nat
    BY <1>1 DEF StatsFit, LoadInv, Traces
  <2>2. Covers(k, stats, Pow2[trace.region_shift])
    BY <1>5, <1>7, <2>1, CoverageIs
  <2>3. ASSUME NEW a \in M PROVE a \in k.base .. (k.base + k.size - 1)
    <3>1. a \in Nat /\ stats.minimum <= a /\ a < stats.maximum
      BY <1>1, <1>3, <2>3, TraceWords DEF StatsFit, MappedOf, Words
    <3> QED BY <2>1, <2>2, <3>1 DEF Covers
  <2> QED BY <1>1, <1>5, <1>6, <2>2, <2>3, CoverageAccepted
<1> QED BY <1>2, <1>4, <1>5, <1>6, <1>7 DEF StatsExact

\* StatsExact: the live bytes of memx_trace_calculate_stats are the bytes of
\* live granules, its clamp never acts, and the range align_coverage derives
\* holds them all and is one memx_index_create refuses only when a region has
\* more granules than a table may have or is smaller than a pointer.
THEOREM TraceStatsExact == TraceSpec => []StatsExact
<1>1. TraceInv => StatsExact
  BY StatsAreExact
<1> QED BY <1>1, TraceInvariant, PTL

-----------------------------------------------------------------------------
(***************************************************************************)
(* A load happens as a whole or not at all.                                 *)
(***************************************************************************)
LoadStep ==
    /\ out_trace' # out_trace => status' = "OK" /\ ~invalid /\ out_trace' = trace
    /\ buffers' = Buffer(out_trace') + Buffer(trace')

LEMMA LoadIsAtomic == TraceInv /\ TraceInv' /\ [TraceNext]_TraceVars => [LoadStep]_TraceVars
<1> SUFFICES ASSUME TraceInv', TraceNext PROVE LoadStep
  OBVIOUS
<1>1. buffers' = Buffer(out_trace') + Buffer(trace')
  <2>1. buffers' = (Buffer(out_trace) + Buffer(trace))'
    BY DEF TraceInv, LoadInv
  <2> QED BY <2>1 DEF Buffer
<1>2. out_trace' # out_trace => status' = "OK" /\ ~invalid /\ out_trace' = trace
  <2>1. CASE EndOfFile
    <3>1. CASE Accept /\ saw_columns /\ ~invalid
      BY <3>1 DEF Accept
    <3>2. CASE Fail("FORMAT") \/ Fail("VERSION") \/ Fail("SEMANTIC")
      BY <3>2 DEF Fail
    <3> QED BY <2>1, <3>1, <3>2 DEF EndOfFile
  <2>2. CASE ~EndOfFile
    BY <2>2 DEF TraceNext, OpenFails, Open, MagicLine, HeaderLine, ColumnsLine, EventLine,
                BadLine, AppendFails, ReadError, OracleFails, Fail
  <2> QED BY <2>1, <2>2
<1> QED BY <1>1, <1>2 DEF LoadStep

\* LoadAtomic: whichever step of memx_trace_read_file fails, the caller's trace
\* is replaced as a whole or left alone, and no event buffer leaks or is freed
\* twice.
THEOREM TraceLoadAtomic == TraceSpec => LoadAtomic
<1>1. TraceInv /\ TraceInv' /\ [TraceNext]_TraceVars => [LoadStep]_TraceVars
  BY LoadIsAtomic
<1>2. TraceSpec => [][LoadStep]_TraceVars
  BY <1>1, TraceInvariant, PTL DEF TraceSpec
<1> QED BY <1>2 DEF LoadAtomic, LoadStep

-----------------------------------------------------------------------------
(***************************************************************************)
(* The baseline indexes: coordinates of an entry.                           *)
(***************************************************************************)
LEMMA QuotientIs ==
    ASSUME NEW n \in Nat, n >= 1, NEW q \in Nat, NEW r \in Nat, r < n
    PROVE  (n * q + r) \div n = q /\ (n * q + r) % n = r
OBVIOUS

LEMMA Divided ==
    ASSUME NEW n \in Nat, n >= 1, NEW x \in Nat
    PROVE  /\ x \div n \in Nat /\ x % n \in 0 .. (n - 1)
           /\ x = n * (x \div n) + (x % n)
OBVIOUS

LEMMA DividedBelow ==
    ASSUME NEW n \in Nat, n >= 1, NEW x \in Nat, NEW q, q = x \div n
    PROVE  q \in Nat /\ n * q \in Nat /\ n * q <= x
<1>1. PICK r : r = x % n
  OBVIOUS
<1>2. q \in Nat /\ r \in Nat /\ x = n * q + r
  BY <1>1, Divided
<1>3. n * q \in Nat
  BY <1>2
<1> QED BY <1>2, <1>3

LEMMA DividedTwice ==
    ASSUME NEW m \in Nat, m >= 1, NEW n \in Nat, n >= 1, NEW x \in Nat
    PROVE  x \div (m * n) = (x \div m) \div n
<1>1. PICK q, r : q = x \div m /\ r = x % m
  OBVIOUS
<1>2. PICK s, t : s = q \div n /\ t = q % n
  OBVIOUS
<1>3. q \in Nat /\ r \in Nat /\ r < m /\ x = m * q + r
  BY <1>1, Divided
<1>4. s \in Nat /\ t \in Nat /\ t < n /\ q = n * s + t
  BY <1>2, <1>3, Divided
<1>5. m * t \in Nat /\ m * t <= m * (n - 1)
  BY <1>4, ProductMonotone, n - 1 \in Nat
<1>6. m * (n - 1) = m * n - m /\ m * n \in Nat
  OBVIOUS
<1>7. PICK k, u : k = m * n /\ u = m * t + r
  OBVIOUS
<1>8. k \in Nat /\ u \in Nat /\ u < k
  BY <1>3, <1>5, <1>6, <1>7
<1>9. k >= 1
  BY <1>8
<1>10. x = m * (n * s) + m * t + r
  BY <1>3, <1>4
<1>11. m * (n * s) = k * s
  BY <1>4, <1>7
<1>12. k * s \in Nat /\ x = k * s + u
  <2>1. k * s \in Nat
    BY <1>4, <1>8
  <2> QED BY ONLY <1>3, <1>5, <1>7, <1>10, <1>11, <2>1
<1>13. x \div k = s
  BY <1>4, <1>8, <1>9, <1>12, QuotientIs
<1> QED BY <1>1, <1>2, <1>7, <1>13

\* An entry is determined by its leaf and its place in it.
LEMMA SameEntry ==
    ASSUME NEW n \in Nat, n >= 1, NEW i \in Nat, NEW j \in Nat,
           i \div n = j \div n, i % n = j % n
    PROVE  i = j
<1>1. i = n * (i \div n) + (i % n) /\ j = n * (j \div n) + (j % n)
  BY Divided
<1> QED BY <1>1

LEMMA EntryCount ==
    ASSUME config \in Configs, baseline_config_valid
    PROVE  /\ GranuleSize \in Nat /\ GranuleSize >= 1
           /\ config.base \in Nat /\ config.managed_size \in Nat
           /\ entry_count \in Nat /\ entry_count >= 1
           /\ config.managed_size = GranuleSize * entry_count
           /\ entry_count <= Pow2[WordBits] - 1
<1>1. /\ config.base \in Words /\ config.managed_size \in Words
      /\ config.granule_shift \in Nat
  BY BaselineAssumption DEF Configs
<1>2. Pow2[WordBits] \in Nat /\ Pow2[config.granule_shift] \in Nat
      /\ Pow2[config.granule_shift] >= 1
  BY <1>1, PowPositive, BaselineAssumption
<1>3. PICK g, m, w : g = Pow2[config.granule_shift] /\ m = config.managed_size
                      /\ w = Pow2[WordBits]
  OBVIOUS
<1>4. g \in Nat /\ g >= 1 /\ m \in Nat /\ w \in Nat /\ m <= w - 1 /\ m # 0 /\ m % g = 0
      /\ config.base \in Nat
  BY <1>1, <1>2, <1>3 DEF Words, WordMax, baseline_config_valid, GranuleSize
<1>5. PICK q \in Int : m = g * q
  BY <1>4, MultipleOf
<1>6. q >= 1
  <2>1. CASE q <= 0
    <3>1. g * q <= 0
      BY <1>4, <2>1
    <3> QED BY <1>4, <1>5, <3>1
  <2> QED BY <1>5, <2>1
<1>7. m \div g = q
  BY <1>4, <1>5, <1>6, ExactQuotient
<1>8. q <= m
  <2>1. 1 * q <= g * q
    BY <1>4, <1>5, <1>6, ProductMonotone, q \in Nat
  <2> QED BY <1>5, <1>6, <2>1
<1> QED BY <1>3, <1>4, <1>5, <1>6, <1>7, <1>8 DEF entry_count, GranuleSize

LEMMA EntryBits ==
    ASSUME config \in Configs, baseline_config_valid
    PROVE  /\ entry_bits \in 0 .. WordBits
           /\ Pow2[entry_bits] >= entry_count
<1>1. PICK n : n = entry_count
  OBVIOUS
<1>2. n \in Nat /\ n <= Pow2[WordBits] - 1
  BY <1>1, EntryCount
<1>3. PICK S : S = {k \in Nat : Pow2[k] >= n}
  OBVIOUS
<1>4. WordBits \in S
  BY <1>2, <1>3, PowPositive, BaselineAssumption
<1>5. PICK k \in S : \A j \in S : k <= j
  BY <1>3, <1>4, LeastElement
<1>6. k \in 0 .. WordBits /\ Pow2[k] >= n
  BY <1>3, <1>4, <1>5, BaselineAssumption
<1>7. k > 0 => Pow2[k - 1] < n
  <2>1. SUFFICES ASSUME k > 0 PROVE Pow2[k - 1] < n
    OBVIOUS
  <2>2. k - 1 \in Nat /\ k - 1 \notin S
    BY <1>3, <1>5, <2>1
  <2>3. Pow2[k - 1] \in Nat /\ ~(Pow2[k - 1] >= n)
    BY <1>3, <2>2, PowPositive
  <2> QED BY <1>2, <2>3
<1>8. \E j \in 0 .. WordBits : Pow2[j] >= n /\ (j > 0 => Pow2[j - 1] < n)
  BY <1>6, <1>7
<1>9. entry_bits = CHOOSE j \in 0 .. WordBits : Pow2[j] >= n /\ (j > 0 => Pow2[j - 1] < n)
  BY <1>1 DEF entry_bits
<1> QED BY <1>1, <1>8, <1>9

\* The counts of the levels, and that they reach every entry.
LEMMA LevelCounts ==
    ASSUME config \in Configs, baseline_config_valid
    PROVE  /\ leaf_count \in Nat /\ leaf_count >= 1
           /\ middle_count \in Nat /\ middle_count >= 1
           /\ RadixRoots \in Nat /\ RadixRoots >= 1
           /\ kind = "radix" => entry_count <= (leaf_count * middle_count) * RadixRoots
<1>1. PICK b : b = entry_bits
  OBVIOUS
<1>2. b \in Nat /\ Pow2[b] >= entry_count
  BY <1>1, EntryBits, BaselineAssumption
<1>3. b \div 2 \in Nat /\ b \div 3 \in Nat /\ b - 2 * (b \div 3) \in Nat
  BY <1>2
<1>4. leaf_bits \in Nat /\ middle_bits \in Nat /\ root_bits \in Nat
  BY <1>1, <1>3 DEF leaf_bits, middle_bits, root_bits
<1>5. /\ leaf_count \in Nat /\ leaf_count >= 1
      /\ middle_count \in Nat /\ middle_count >= 1
      /\ RadixRoots \in Nat /\ RadixRoots >= 1
  BY <1>4, PowPositive DEF leaf_count, middle_count, RadixRoots
<1>6. ASSUME kind = "radix" PROVE entry_count <= (leaf_count * middle_count) * RadixRoots
  <2>1. leaf_bits = b \div 3 /\ middle_bits = b \div 3 /\ root_bits = b - 2 * (b \div 3)
    BY <1>1, <1>6 DEF leaf_bits, middle_bits, root_bits
  <2>2. Pow2[leaf_bits + middle_bits] = Pow2[leaf_bits] * Pow2[middle_bits]
    BY <1>4, PowSum
  <2>3. Pow2[(leaf_bits + middle_bits) + root_bits]
          = Pow2[leaf_bits + middle_bits] * Pow2[root_bits]
    BY <1>4, PowSum
  <2>4. (leaf_bits + middle_bits) + root_bits = b
    BY <1>2, <2>1
  <2> QED BY <1>2, <2>2, <2>3, <2>4 DEF leaf_count, middle_count, RadixRoots
<1> QED BY <1>5, <1>6

LEMMA SameConfig ==
    ASSUME UNCHANGED config
    PROVE  /\ UNCHANGED <<entry_count, middle_count, RadixRoots, GranuleSize, entry_bits>>
           /\ baseline_config_valid' <=> baseline_config_valid
           /\ RootsFit' <=> RootsFit
<1>1. UNCHANGED <<entry_count, GranuleSize>>
  BY DEF entry_count, GranuleSize
<1>2. baseline_config_valid' <=> baseline_config_valid
  BY DEF baseline_config_valid, GranuleSize
<1>3. entry_bits' = entry_bits
  BY <1>1 DEF entry_bits
<1>4. UNCHANGED <<middle_bits, root_bits>>
  BY <1>3 DEF middle_bits, root_bits
<1>5. UNCHANGED <<middle_count, RadixRoots>>
  BY <1>4 DEF middle_count, RadixRoots
<1>6. RootsFit' <=> RootsFit
  BY <1>1, <1>3 DEF RootsFit
<1> QED BY <1>1, <1>2, <1>3, <1>5, <1>6

-----------------------------------------------------------------------------
(***************************************************************************)
(* Sizes of blocks.                                                         *)
(***************************************************************************)
Sized == [words : Nat, pages : Nat]

LEMMA SizedBlock == \A n \in Nat : BlockOf(n) \in Sized
<1> SUFFICES ASSUME NEW n \in Nat PROVE BlockOf(n) \in Sized
  OBVIOUS
<1>1. PICK p : p = PageWords
  OBVIOUS
<1>2. p \in Nat /\ p >= 1
  BY <1>1, BaselineAssumption
<1>3. n + p - 1 \in Nat
  BY <1>2
<1>4. (n + p - 1) \div p \in Nat
  BY <1>2, <1>3, Divided
<1>5. ((n + p - 1) \div p) * p \in Nat
  BY <1>2, <1>4
<1> QED BY <1>1, <1>5 DEF BlockOf, baseline_page_account, Sized

LEMMA SizedSum ==
    ASSUME NEW x \in Sized, NEW y \in Sized, NEW n \in Nat
    PROVE  Plus(x, y) \in Sized /\ Times(n, x) \in Sized /\ NoBlocks \in Sized
BY DEF Sized, Plus, Times, NoBlocks

LEMMA OneMoreBlock ==
    ASSUME NEW x \in Sized, NEW y \in Sized, NEW n \in Nat
    PROVE  /\ Plus(Plus(x, Times(n, y)), y) = Plus(x, Times(n + 1, y))
           /\ Plus(x, Times(0, y)) = x
<1>1. \A a, b \in Nat : (a + n * b) + b = a + (n + 1) * b
  OBVIOUS
<1>2. x.words \in Nat /\ x.pages \in Nat /\ y.words \in Nat /\ y.pages \in Nat
  BY DEF Sized
<1>3. x = [words |-> x.words, pages |-> x.pages]
  BY DEF Sized
<1>4. /\ (x.words + n * y.words) + y.words = x.words + (n + 1) * y.words
      /\ (x.pages + n * y.pages) + y.pages = x.pages + (n + 1) * y.pages
  BY <1>1, <1>2
<1>5. /\ x.words + 0 * y.words = x.words
      /\ x.pages + 0 * y.pages = x.pages
  BY <1>2
<1> QED BY <1>3, <1>4, <1>5, Zenon DEF Plus, Times

LEMMA PlusShuffle ==
    ASSUME NEW w \in Sized, NEW x \in Sized, NEW y \in Sized, NEW z \in Sized
    PROVE  /\ Plus(Plus(w, Plus(x, y)), z) = Plus(w, Plus(x, Plus(y, z)))
           /\ Plus(Plus(w, Plus(x, y)), z) = Plus(w, Plus(Plus(x, z), y))
           /\ Plus(w, Plus(x, y)) = Plus(Plus(w, y), x)
           /\ Plus(x, y) = Plus(y, x)
           /\ Plus(x, NoBlocks) = x /\ Plus(NoBlocks, x) = x
<1>1. \A s \in Sized : s.words \in Nat /\ s.pages \in Nat
                       /\ s = [words |-> s.words, pages |-> s.pages]
  BY DEF Sized
<1>2. \A a, b, c, d \in Nat :
         /\ (a + (b + c)) + d = a + (b + (c + d))
         /\ (a + (b + c)) + d = a + ((b + d) + c)
         /\ a + (b + c) = (a + c) + b /\ b + c = c + b /\ b + 0 = b /\ 0 + b = b
  OBVIOUS
<1> QED BY <1>1, <1>2 DEF Plus, NoBlocks

\* The blocks of a tree with m middles and n leaves, when a set adds some.
LEMMA TreeBlocks ==
    ASSUME NEW r \in Sized, NEW y \in Sized, NEW z \in Sized, NEW m \in Nat, NEW n \in Nat,
           NEW tree, tree = Plus(r, Plus(Times(m, z), Times(n, y)))
    PROVE  /\ Plus(tree, Plus(NoBlocks, NoBlocks)) = tree
           /\ Plus(tree, Plus(y, NoBlocks)) = Plus(r, Plus(Times(m, z), Times(n + 1, y)))
           /\ Plus(tree, z) = Plus(r, Plus(Times(m + 1, z), Times(n, y)))
           /\ Plus(tree, Plus(y, z)) = Plus(r, Plus(Times(m + 1, z), Times(n + 1, y)))
           /\ Plus(r, Plus(Times(0, z), Times(0, y))) = r
<1>1. \A k \in Nat : Times(k, y) \in Sized /\ Times(k, z) \in Sized
  BY SizedSum
<1>2. NoBlocks \in Sized /\ \A a, b \in Sized : Plus(a, b) \in Sized
  BY SizedSum
<1>3. tree \in Sized
  BY <1>1, <1>2
<1>4. Plus(tree, Plus(NoBlocks, NoBlocks)) = tree /\ Plus(y, NoBlocks) = y
  BY <1>2, <1>3, PlusShuffle
<1>5. \A a, b \in Sized, k \in Nat : Plus(Plus(a, Times(k, b)), b) = Plus(a, Times(k + 1, b))
  BY OneMoreBlock
<1>6. ASSUME NEW k \in Nat
      PROVE  Plus(Plus(r, Plus(Times(k, z), Times(n, y))), y)
               = Plus(r, Plus(Times(k, z), Times(n + 1, y)))
  <2>1. PICK a : a = Plus(r, Times(k, z))
    OBVIOUS
  <2>2. a \in Sized
    BY <1>1, <1>2, <2>1
  <2>3. \A j \in Nat : Plus(r, Plus(Times(k, z), Times(j, y))) = Plus(a, Times(j, y))
    <3>1. SUFFICES ASSUME NEW j \in Nat
                   PROVE  Plus(r, Plus(Times(k, z), Times(j, y))) = Plus(a, Times(j, y))
      OBVIOUS
    <3>2. PICK u, v : u = Times(k, z) /\ v = Times(j, y)
      OBVIOUS
    <3>3. u \in Sized /\ v \in Sized
      BY <1>1, <3>2
    <3>4. Plus(r, Plus(v, u)) = Plus(Plus(r, u), v) /\ Plus(v, u) = Plus(u, v)
      BY <3>3, PlusShuffle
    <3> QED BY <2>1, <3>2, <3>4
  <2>4. n + 1 \in Nat
    OBVIOUS
  <2> QED BY <1>5, <2>2, <2>3, <2>4
<1>7. ASSUME NEW k \in Nat
      PROVE  Plus(Plus(r, Plus(Times(m, z), Times(k, y))), z)
               = Plus(r, Plus(Times(m + 1, z), Times(k, y)))
  <2>1. PICK a : a = Plus(r, Times(k, y))
    OBVIOUS
  <2>2. a \in Sized
    BY <1>1, <1>2, <2>1
  <2>3. \A j \in Nat : Plus(r, Plus(Times(j, z), Times(k, y))) = Plus(a, Times(j, z))
    <3>1. SUFFICES ASSUME NEW j \in Nat
                   PROVE  Plus(r, Plus(Times(j, z), Times(k, y))) = Plus(a, Times(j, z))
      OBVIOUS
    <3>2. PICK u, v : u = Times(j, z) /\ v = Times(k, y)
      OBVIOUS
    <3>3. u \in Sized /\ v \in Sized
      BY <1>1, <3>2
    <3>4. Plus(r, Plus(u, v)) = Plus(Plus(r, v), u)
      BY <3>3, PlusShuffle
    <3> QED BY <2>1, <3>2, <3>4
  <2>4. m + 1 \in Nat
    OBVIOUS
  <2> QED BY <1>5, <2>2, <2>3, <2>4
<1>8. Plus(tree, Plus(y, z)) = Plus(Plus(tree, y), z)
  <2>1. Plus(tree, Plus(z, y)) = Plus(Plus(tree, y), z) /\ Plus(z, y) = Plus(y, z)
    BY <1>3, PlusShuffle
  <2> QED BY <2>1
<1>9. n + 1 \in Nat
  OBVIOUS
<1>10. Plus(r, Plus(Times(0, z), Times(0, y))) = r
  <2>1. Times(0, z) = NoBlocks /\ Times(0, y) = NoBlocks
    BY DEF Times, NoBlocks, Sized
  <2> QED BY <1>2, <2>1, PlusShuffle
<1> QED BY <1>4, <1>6, <1>7, <1>8, <1>9, <1>10

-----------------------------------------------------------------------------
(***************************************************************************)
(* Trees of leaves: a leaf is found by its key, the number of leaves before *)
(* it.                                                                      *)
(***************************************************************************)
Leaves == [0 .. (leaf_count - 1) -> Handles \cup {Invalid}]
MiddlesOf(leaves, m) == [0 .. (m - 1) -> leaves \cup {Missing}]

\* Entry x of a leaf that may not be there.
EntryOf(leaf, x) == IF leaf = Missing THEN Invalid ELSE leaf[x]

\* The leaf with key k in a tree whose middles have m leaves each.
LeafAt(tree, k, m) ==
    IF tree[k \div m] = Missing THEN Missing ELSE tree[k \div m][k % m]

PresentIn(tree) == {r \in DOMAIN tree : tree[r] # Missing}
LeavesIn(tree, m) ==
    {p \in PresentIn(tree) \X (0 .. (m - 1)) : tree[p[1]][p[2]] # Missing}

LEMMA NotMissing ==
    ASSUME NEW n \in Nat, n >= 1, NEW S, NEW f \in [0 .. (n - 1) -> S]
    PROVE  f # Missing
<1>1. 0 \in DOMAIN f
  OBVIOUS
<1>2. DOMAIN Missing = {}
  BY DEF Missing
<1> QED BY <1>1, <1>2

LEMMA LeafWritten ==
    ASSUME leaf_count \in Nat, leaf_count >= 1, NEW leaf \in Leaves \cup {Missing},
           NEW i \in Nat, NEW value \in Handles
    PROVE  /\ LeafWith(leaf, i, value) \in Leaves
           /\ LeafWith(leaf, i, value) # Missing
           /\ \A x \in 0 .. (leaf_count - 1) :
                 EntryOf(LeafWith(leaf, i, value), x)
                   = IF x = Low(i) THEN value ELSE EntryOf(leaf, x)
<1>1. PICK old : old = IF leaf = Missing THEN FreshLeaf ELSE leaf
  OBVIOUS
<1>2. FreshLeaf \in Leaves
  BY DEF FreshLeaf, Leaves
<1>3. old \in Leaves
  BY <1>1, <1>2
<1>4. \A x \in 0 .. (leaf_count - 1) : old[x] = EntryOf(leaf, x)
  BY <1>1 DEF EntryOf, FreshLeaf
<1>5. Low(i) \in 0 .. (leaf_count - 1)
  BY Divided DEF Low
<1>6. LeafWith(leaf, i, value) = [old EXCEPT ![Low(i)] = value]
  BY <1>1 DEF LeafWith
<1>7. PICK new : new = LeafWith(leaf, i, value)
  OBVIOUS
<1>8. /\ new \in Leaves
      /\ \A x \in 0 .. (leaf_count - 1) : new[x] = IF x = Low(i) THEN value ELSE old[x]
  BY <1>3, <1>5, <1>6, <1>7 DEF Leaves
<1>9. new # Missing
  BY <1>8, NotMissing DEF Leaves
<1> QED BY <1>4, <1>7, <1>8, <1>9 DEF EntryOf

\* new is the tree with the leaf written at key k, in a fresh middle if need be.
LeafPut(tree, new, k, m, leaf, S, R) ==
    /\ tree \in [0 .. (R - 1) -> MiddlesOf(S, m) \cup {Missing}]
    /\ leaf \in S \cup {Missing}
    /\ k \div m < R
    /\ LET fresh == [j \in 0 .. (m - 1) |-> Missing]
           middle == IF tree[k \div m] = Missing THEN fresh ELSE tree[k \div m]
       IN  new = [tree EXCEPT ![k \div m] = [middle EXCEPT ![k % m] = leaf]]

\* What can be seen of it.
PutShows(tree, new, k, m, leaf, S, R) ==
    /\ new \in [0 .. (R - 1) -> MiddlesOf(S, m) \cup {Missing}]
    /\ \A j \in Nat : j \div m < R =>
          LeafAt(new, j, m) = IF j = k THEN leaf ELSE LeafAt(tree, j, m)
    /\ PresentIn(new) = PresentIn(tree) \cup {k \div m}
    /\ leaf # Missing => LeavesIn(new, m) = LeavesIn(tree, m) \cup {<<k \div m, k % m>>}
    /\ leaf = Missing /\ LeafAt(tree, k, m) = Missing => LeavesIn(new, m) = LeavesIn(tree, m)

LEMMA MiddleWritten ==
    ASSUME NEW m \in Nat, m >= 1, NEW R \in Nat, NEW k \in Nat, NEW tree, NEW new, NEW leaf,
           NEW S, LeafPut(tree, new, k, m, leaf, S, R)
    PROVE  PutShows(tree, new, k, m, leaf, S, R)
<1>1. PICK q, x : q = k \div m /\ x = k % m
  OBVIOUS
<1>2. q \in 0 .. (R - 1) /\ x \in 0 .. (m - 1)
  BY <1>1, Divided DEF LeafPut
<1>0. tree \in [0 .. (R - 1) -> MiddlesOf(S, m) \cup {Missing}] /\ leaf \in S \cup {Missing}
  BY DEF LeafPut
<1> DEFINE middle == IF tree[q] = Missing THEN [j \in 0 .. (m - 1) |-> Missing] ELSE tree[q]
<1>3. middle \in MiddlesOf(S, m)
  BY <1>0, <1>2 DEF MiddlesOf
<1>4. PICK mid : mid = [middle EXCEPT ![x] = leaf]
  OBVIOUS
<1>5. /\ mid \in MiddlesOf(S, m)
      /\ \A y \in 0 .. (m - 1) : mid[y] = IF y = x THEN leaf ELSE middle[y]
  BY <1>0, <1>2, <1>3, <1>4 DEF MiddlesOf
<1>6. mid # Missing
  BY <1>5, NotMissing DEF MiddlesOf
<1>7. new = [tree EXCEPT ![q] = mid]
  BY <1>1, <1>4 DEF LeafPut
<1>8. /\ new \in [0 .. (R - 1) -> MiddlesOf(S, m) \cup {Missing}]
      /\ \A r \in 0 .. (R - 1) : new[r] = IF r = q THEN mid ELSE tree[r]
      /\ DOMAIN new = 0 .. (R - 1) /\ DOMAIN tree = 0 .. (R - 1)
  BY <1>0, <1>2, <1>5, <1>7
<1>9. \A y \in 0 .. (m - 1) : middle[y] = IF tree[q] = Missing THEN Missing ELSE tree[q][y]
  BY <1>1
<1>10. ASSUME NEW j \in Nat, j \div m < R
       PROVE  LeafAt(new, j, m) = IF j = k THEN leaf ELSE LeafAt(tree, j, m)
  <2>1. PICK u, v : u = j \div m /\ v = j % m
    OBVIOUS
  <2>2. u \in 0 .. (R - 1) /\ v \in 0 .. (m - 1)
    <3>1. u \in Nat /\ v \in 0 .. (m - 1)
      BY <2>1, Divided
    <3> QED BY <1>10, <2>1, <3>1
  <2>3. j = k <=> u = q /\ v = x
    BY <1>1, <2>1, SameEntry
  <2>4. LeafAt(new, j, m) = IF new[u] = Missing THEN Missing ELSE new[u][v]
    BY <2>1 DEF LeafAt
  <2>5. LeafAt(tree, j, m) = IF tree[u] = Missing THEN Missing ELSE tree[u][v]
    BY <2>1 DEF LeafAt
  <2>6. CASE u # q
    BY <1>8, <2>2, <2>3, <2>4, <2>5, <2>6
  <2>7. CASE u = q
    <3>1. new[u] = mid
      BY <1>8, <2>2, <2>7
    <3>2. LeafAt(new, j, m) = IF v = x THEN leaf ELSE middle[v]
      BY <1>5, <1>6, <2>2, <2>4, <3>1
    <3> QED BY <1>9, <2>2, <2>3, <2>5, <2>7, <3>2
  <2> QED BY <2>6, <2>7
<1>11. PresentIn(new) = PresentIn(tree) \cup {q}
  BY <1>2, <1>6, <1>8 DEF PresentIn
<1>12. ASSUME NEW r, NEW y
       PROVE  <<r, y>> \in LeavesIn(new, m)
                <=> \/ r = q /\ y = x /\ leaf # Missing
                    \/ <<r, y>> \in LeavesIn(tree, m) /\ ~(r = q /\ y = x)
  <2>1. \A t : <<r, y>> \in LeavesIn(t, m)
               <=> r \in DOMAIN t /\ t[r] # Missing /\ y \in 0 .. (m - 1) /\ t[r][y] # Missing
    BY DEF LeavesIn, PresentIn
  <2>2. CASE r # q
    <3>1. r \in DOMAIN new <=> r \in DOMAIN tree
      BY <1>8
    <3>2. r \in DOMAIN tree => new[r] = tree[r]
      BY <1>8, <2>2
    <3> QED BY <2>1, <2>2, <3>1, <3>2
  <2>3. CASE r = q
    <3>1. r \in DOMAIN new /\ r \in DOMAIN tree /\ new[r] = mid /\ mid # Missing
      BY <1>2, <1>6, <1>8, <2>3
    <3>2. <<r, y>> \in LeavesIn(new, m) <=> y \in 0 .. (m - 1) /\ mid[y] # Missing
      BY <2>1, <3>1
    <3>3. <<r, y>> \in LeavesIn(tree, m) <=> y \in 0 .. (m - 1) /\ middle[y] # Missing
      BY <1>9, <2>1, <2>3, <3>1
    <3> QED BY <1>2, <1>5, <2>3, <3>2, <3>3
  <2> QED BY <2>2, <2>3
<1>13. \A t : \A p \in LeavesIn(t, m) : p = <<p[1], p[2]>>
  BY DEF LeavesIn
<1>14. ASSUME leaf # Missing
       PROVE  LeavesIn(new, m) = LeavesIn(tree, m) \cup {<<q, x>>}
  <2>1. \A p \in LeavesIn(new, m) : p \in LeavesIn(tree, m) \cup {<<q, x>>}
    BY <1>12, <1>13
  <2>2. ASSUME NEW p \in LeavesIn(tree, m) PROVE p \in LeavesIn(new, m)
    <3>1. PICK r, y : p = <<r, y>>
      BY <1>13
    <3> QED BY <1>12, <1>14, <3>1
  <2>3. <<q, x>> \in LeavesIn(new, m)
    BY <1>12, <1>14
  <2> QED BY <2>1, <2>2, <2>3
<1>15. ASSUME leaf = Missing, LeafAt(tree, k, m) = Missing
       PROVE  LeavesIn(new, m) = LeavesIn(tree, m)
  <2>1. <<q, x>> \notin LeavesIn(tree, m)
    BY <1>1, <1>15 DEF LeavesIn, PresentIn, LeafAt
  <2>2. \A p \in LeavesIn(new, m) : p \in LeavesIn(tree, m)
    BY <1>12, <1>13, <1>15
  <2>3. ASSUME NEW p \in LeavesIn(tree, m) PROVE p \in LeavesIn(new, m)
    <3>1. PICK r, y : p = <<r, y>>
      BY <1>13
    <3> QED BY <1>12, <2>1, <3>1
  <2> QED BY <2>2, <2>3
<1> QED BY <1>1, <1>8, <1>10, <1>11, <1>14, <1>15 DEF PutShows

-----------------------------------------------------------------------------
(***************************************************************************)
(* The inductive invariant of the baseline indexes.                         *)
(***************************************************************************)
BaselineTypes ==
    /\ config \in Configs
    /\ kind \in {"none", "flat", "two_level", "radix", "undefined"}
    /\ kind # "none" => /\ baseline_config_valid
                        /\ truth \in [0 .. (entry_count - 1) -> Handles \cup {Invalid}]
    /\ kind = "undefined" => ~RootsFit
    /\ kind = "none" => live = NoBlocks
    /\ kind \in {"none", "flat"} => allocated = NoneAllocated

FlatInv ==
    /\ root = truth
    /\ live = baseline_flat_bytes

TwoLevelInv ==
    /\ root \in [0 .. (TwoLevelRoots(leaf_count) - 1) -> Leaves \cup {Missing}]
    /\ RootsFit => \A i \in 0 .. (entry_count - 1) :
          truth[i] = EntryOf(root[i \div leaf_count], i % leaf_count)
    /\ allocated = [leaves |-> Cardinality(PresentIn(root)), middles |-> 0]
    /\ live = baseline_two_level_bytes

RadixInv ==
    /\ root \in [0 .. (RadixRoots - 1) -> MiddlesOf(Leaves, middle_count) \cup {Missing}]
    /\ \A i \in 0 .. (entry_count - 1) :
          truth[i] = EntryOf(LeafAt(root, i \div leaf_count, middle_count), i % leaf_count)
    /\ allocated = [leaves |-> Cardinality(LeavesIn(root, middle_count)),
                    middles |-> Cardinality(PresentIn(root))]
    /\ live = baseline_radix_bytes

\* A cached key names a leaf of the tree.
CacheInv ==
    /\ cache \in [0 .. (CacheEntries - 1) -> Nat \cup {NoKey}]
    /\ kind # "radix" => cache = baseline_radix_cache_init
    /\ \A slot \in 0 .. (CacheEntries - 1) : cache[slot] # NoKey =>
          /\ cache[slot] \div middle_count < RadixRoots
          /\ LeafAt(root, cache[slot], middle_count) # Missing

BaselineInv ==
    /\ BaselineTypes
    /\ kind = "flat" => FlatInv
    /\ kind = "two_level" => TwoLevelInv
    /\ kind = "radix" => RadixInv
    /\ CacheInv

LEMMA SameGeometry ==
    ASSUME UNCHANGED <<config, kind>>
    PROVE  UNCHANGED <<leaf_count, Leaves, LeafBlock, MiddleBlocks>>
<1>1. leaf_bits' = leaf_bits
  BY SameConfig DEF leaf_bits
<1>2. leaf_count' = leaf_count
  BY <1>1 DEF leaf_count
<1> QED BY <1>2, SameConfig DEF Leaves, LeafBlock, MiddleBlocks

LEMMA InsideIndex ==
    ASSUME config \in Configs, baseline_config_valid, NEW a \in Words
    PROVE  /\ baseline_index(a) <=> a \in config.base .. (config.base + config.managed_size - 1)
           /\ baseline_index(a) => Index(a) \in 0 .. (entry_count - 1)
<1>1. PICK b, g, n : b = config.base /\ g = GranuleSize /\ n = entry_count
  OBVIOUS
<1>2. /\ b \in Nat /\ g \in Nat /\ g >= 1 /\ n \in Nat /\ n >= 1
      /\ config.managed_size = g * n
  BY <1>1, EntryCount
<1>3. Pow2[WordBits] \in Nat
  BY PowPositive, BaselineAssumption
<1>4. a \in Nat
  BY <1>3 DEF Words, WordMax
<1>5. g * n \in Nat
  BY <1>2
<1>6. ASSUME a >= b
      PROVE  /\ (a - b) \div g \in Nat
             /\ a - b < g * n => (a - b) \div g < n
  <2>1. PICK x : x = a - b
    OBVIOUS
  <2>2. x \in Nat
    BY <1>2, <1>4, <1>6, <2>1
  <2>3. PICK q : q = x \div g
    OBVIOUS
  <2>4. q \in Nat /\ g * q <= x /\ g * q \in Nat
    BY <1>2, <2>2, <2>3, DividedBelow
  <2>5. ASSUME x < g * n PROVE q < n
    <3>1. CASE q >= n
      <4>1. n * g <= q * g
        BY <1>2, <2>4, <3>1, ProductMonotone
      <4> QED BY <1>2, <2>2, <2>4, <2>5, <4>1
    <3> QED BY <1>2, <2>4, <3>1
  <2> QED BY <2>1, <2>3, <2>4, <2>5
<1>7. baseline_index(a) <=> a >= b /\ a - b < g * n /\ (a - b) \div g < n
  BY <1>1, <1>2 DEF baseline_index
<1>8. Index(a) = (a - b) \div g
  BY <1>1 DEF Index
<1>9. a \in b .. (b + g * n - 1) <=> a >= b /\ a - b < g * n
  BY <1>2, <1>4, <1>5
<1> QED BY <1>1, <1>2, <1>6, <1>7, <1>8, <1>9

\* The coordinates of an entry lie in the structure.
LEMMA TwoLevelReaches ==
    ASSUME NEW n \in Nat, n >= 1, NEW N \in Nat, NEW i \in 0 .. (N - 1)
    PROVE  (N + n - 1) \div n \in Nat /\ i \div n \in 0 .. (((N + n - 1) \div n) - 1)
<1>1. PICK q, s : q = i \div n /\ s = (N + n - 1) \div n
  OBVIOUS
<1>2. N + n - 1 \in Nat /\ i \in Nat /\ i + n <= N + n - 1
  OBVIOUS
<1>3. q \in Nat /\ s \in Nat
  BY <1>1, <1>2, Divided
<1>4. n * q <= i /\ n * q \in Nat
  BY <1>1, <1>2, DividedBelow
<1>5. N + n - 1 = n * s + ((N + n - 1) % n) /\ (N + n - 1) % n \in 0 .. (n - 1) /\ n * s \in Nat
  <2>1. PICK x : x = N + n - 1
    OBVIOUS
  <2>2. x \in Nat /\ s = x \div n
    BY <1>1, <1>2, <2>1
  <2>3. x % n \in 0 .. (n - 1) /\ x = n * s + (x % n) /\ n * s \in Nat
    BY <1>3, <2>2, Divided, DividedBelow
  <2> QED BY <2>1, <2>3
<1>6. N + n - 1 < n * s + n
  BY <1>2, <1>5
<1>7. CASE s <= q
  <2>1. s * n <= q * n
    BY <1>3, <1>7, ProductMonotone
  <2>2. n * s <= n * q
    BY <1>3, <2>1
  <2> QED BY <1>2, <1>4, <1>5, <1>6, <2>2
<1> QED BY <1>1, <1>3, <1>7

\* The root of a two-level table with leaves of n entries.
LEMMA RootReaches ==
    ASSUME config \in Configs, baseline_config_valid
    PROVE  LET n == Pow2[entry_bits \div 2]
           IN  /\ n \in Nat /\ n >= 1 /\ TwoLevelRoots(n) \in Nat
               /\ RootsFit => \A i \in 0 .. (entry_count - 1) :
                     i \div n \in 0 .. (TwoLevelRoots(n) - 1)
<1>1. PICK n : n = Pow2[entry_bits \div 2]
  OBVIOUS
<1>2. entry_bits \div 2 \in Nat
  BY EntryBits, BaselineAssumption
<1>3. n \in Nat /\ n >= 1
  BY <1>1, <1>2, PowPositive
<1>4. entry_count \in Nat
  BY EntryCount
<1>5. PICK w, x : w = Pow2[WordBits] /\ x = entry_count + n - 1
  OBVIOUS
<1>6. w \in Nat /\ w >= 1 /\ x \in Nat
  BY <1>3, <1>4, <1>5, PowPositive, BaselineAssumption
<1>7. x % w \in Nat
  BY <1>6, Divided
<1>8. TwoLevelRoots(n) = (x % w) \div n
  BY <1>5 DEF TwoLevelRoots, Wrapped
<1>9. TwoLevelRoots(n) \in Nat
  BY <1>3, <1>7, <1>8, Divided
<1>10. ASSUME RootsFit, NEW i \in 0 .. (entry_count - 1)
       PROVE  i \div n \in 0 .. (TwoLevelRoots(n) - 1)
  <2>1. x <= w - 1
    BY <1>1, <1>5, <1>10 DEF RootsFit, WordMax
  <2>2. x % w = x
    BY <1>6, <2>1
  <2> QED BY <1>3, <1>4, <1>5, <1>8, <1>10, <2>2, TwoLevelReaches
<1> QED BY <1>1, <1>3, <1>9, <1>10

LEMMA RadixReaches ==
    ASSUME NEW n \in Nat, n >= 1, NEW m \in Nat, m >= 1, NEW R \in Nat,
           NEW i \in Nat, i < (n * m) * R
    PROVE  i \div n \in Nat /\ (i \div n) \div m < R
<1>1. PICK k, q : k = n * m /\ q = i \div k
  OBVIOUS
<1>2. k \in Nat /\ k >= 1
  <2>1. 1 * m <= n * m
    BY ProductMonotone
  <2> QED BY <1>1, <2>1
<1>3. q \in Nat /\ k * q <= i /\ k * q \in Nat /\ k * R \in Nat /\ i < k * R
  <2>1. q \in Nat /\ k * q <= i /\ k * q \in Nat
    BY <1>1, <1>2, DividedBelow
  <2> QED BY <1>1, <1>2, <2>1
<1>4. CASE R <= q
  <2>1. R * k <= q * k
    BY <1>2, <1>3, <1>4, ProductMonotone
  <2>2. k * R <= k * q
    BY <1>2, <1>3, <2>1
  <2> QED BY ONLY <1>3, <2>2
<1>5. q = (i \div n) \div m
  BY <1>1, DividedTwice
<1>6. i \div n \in Nat
  BY Divided
<1>7. CASE q < R
  BY <1>5, <1>6, <1>7
<1> QED BY <1>3, <1>4, <1>7

\* What the model's coordinates are in terms of keys.
LEMMA Coordinates ==
    ASSUME config \in Configs, baseline_config_valid
    PROVE  /\ \A i \in Nat : /\ Low(i) = i % leaf_count
                             /\ LeafKey(i) = i \div leaf_count
                             /\ LeafKey(i) \in Nat
                             /\ TwoLevelRoot(i) = i \div leaf_count
                             /\ Middle(i) = LeafKey(i) % middle_count
                             /\ RadixRoot(i) = LeafKey(i) \div middle_count
                             /\ RadixLeaf(i) = LeafAt(root, LeafKey(i), middle_count)
           /\ \A k \in Nat : CachedLeaf(k) = LeafAt(root, k, middle_count)
<1>1. leaf_count \in Nat /\ leaf_count >= 1 /\ middle_count \in Nat /\ middle_count >= 1
  BY LevelCounts
<1>2. ASSUME NEW i \in Nat
      PROVE  /\ Low(i) = i % leaf_count
             /\ LeafKey(i) = i \div leaf_count
             /\ LeafKey(i) \in Nat
             /\ TwoLevelRoot(i) = i \div leaf_count
             /\ Middle(i) = LeafKey(i) % middle_count
             /\ RadixRoot(i) = LeafKey(i) \div middle_count
  <2>1. i \div leaf_count \in Nat
    BY <1>1, Divided
  <2>2. i \div (leaf_count * middle_count) = (i \div leaf_count) \div middle_count
    BY <1>1, DividedTwice
  <2> QED BY <2>1, <2>2 DEF Low, LeafKey, TwoLevelRoot, Middle, RadixRoot
<1>3. \A i \in Nat : RadixLeaf(i) = LeafAt(root, LeafKey(i), middle_count)
  BY <1>2 DEF RadixLeaf, LeafAt
<1>4. ASSUME NEW k \in Nat PROVE CachedLeaf(k) = LeafAt(root, k, middle_count)
  <2>1. k * leaf_count \in Nat
    BY <1>1
  <2>2. LeafKey(k * leaf_count) = k
    <3>1. (leaf_count * k) \div leaf_count = k /\ leaf_count * k = k * leaf_count
      BY <1>1, ExactQuotient
    <3> QED BY <3>1 DEF LeafKey
  <2> QED BY <1>3, <2>1, <2>2 DEF CachedLeaf
<1> QED BY <1>2, <1>3, <1>4

LEMMA BaselineStart == BaselineInit => BaselineInv
<1> SUFFICES ASSUME BaselineInit PROVE BaselineInv
  OBVIOUS
<1>1. BaselineTypes /\ kind = "none"
  BY DEF BaselineInit, BaselineTypes
<1>2. CacheInv
  BY DEF BaselineInit, CacheInv, baseline_radix_cache_init
<1> QED BY <1>1, <1>2 DEF BaselineInv

LEMMA BaselineStutter ==
    ASSUME BaselineInv, UNCHANGED BaselineVars
    PROVE  BaselineInv'
<1>1. /\ config' = config /\ kind' = kind /\ root' = root /\ allocated' = allocated
      /\ cache' = cache /\ live' = live /\ truth' = truth
  BY DEF BaselineVars
<1>2. /\ entry_count' = entry_count /\ middle_count' = middle_count
      /\ RadixRoots' = RadixRoots /\ leaf_count' = leaf_count /\ Leaves' = Leaves
      /\ LeafBlock' = LeafBlock /\ MiddleBlocks' = MiddleBlocks
      /\ baseline_config_valid' <=> baseline_config_valid
      /\ RootsFit' <=> RootsFit
  BY <1>1, SameConfig, SameGeometry
<1>3. BaselineTypes' /\ CacheInv'
  BY <1>1, <1>2 DEF BaselineInv, BaselineTypes, CacheInv, LeafAt
<1>4. kind' = "flat" => FlatInv'
  BY <1>1, <1>2 DEF BaselineInv, FlatInv, baseline_flat_bytes
<1>5. kind' = "two_level" => TwoLevelInv'
  BY <1>1, <1>2 DEF BaselineInv, TwoLevelInv, baseline_two_level_bytes, TwoLevelRoots, Wrapped,
                    PresentIn
<1>6. kind' = "radix" => RadixInv'
  BY <1>1, <1>2 DEF BaselineInv, RadixInv, baseline_radix_bytes, PresentIn, LeavesIn, LeafAt,
                    MiddlesOf
<1> QED BY <1>3, <1>4, <1>5, <1>6 DEF BaselineInv

\* What every step on an existing structure keeps.
LEMMA BaselineKept ==
    ASSUME BaselineInv, kind # "none", UNCHANGED <<config, kind>>,
           kind = "flat" => allocated' = NoneAllocated,
           \/ UNCHANGED truth
           \/ \E i \in 0 .. (entry_count - 1), value \in Handles :
                 truth' = [truth EXCEPT ![i] = value]
    PROVE  BaselineTypes'
<1>1. truth \in [0 .. (entry_count - 1) -> Handles \cup {Invalid}]
  BY DEF BaselineInv, BaselineTypes
<1>2. truth' \in [0 .. (entry_count - 1) -> Handles \cup {Invalid}]
  BY <1>1
<1>3. UNCHANGED entry_count /\ (baseline_config_valid' <=> baseline_config_valid)
      /\ (RootsFit' <=> RootsFit)
  <2>1. UNCHANGED config
    OBVIOUS
  <2> QED BY <2>1, SameConfig
<1> QED BY <1>2, <1>3 DEF BaselineInv, BaselineTypes

-----------------------------------------------------------------------------
(***************************************************************************)
(* Creation and destruction.                                                *)
(***************************************************************************)
LEMMA CreatedTypes ==
    ASSUME BaselineInv, NEW k \in {"flat", "two_level", "radix"}, Created(k)
    PROVE  /\ BaselineTypes' /\ allocated' = NoneAllocated
           /\ \A i \in 0 .. (entry_count - 1) : truth'[i] = Invalid
           /\ UNCHANGED entry_count
           /\ cache' = baseline_radix_cache_init /\ CacheInv'
           /\ kind' = k
<1>1. UNCHANGED <<entry_count>> /\ baseline_config_valid'
  BY SameConfig DEF Created
<1>2. allocated' = NoneAllocated /\ cache' = baseline_radix_cache_init /\ kind' = k
  BY DEF Created, BaselineInv, BaselineTypes, CacheInv
<1>3. truth' = [i \in 0 .. (entry_count - 1) |-> Invalid]
  BY DEF Created
<1>4. BaselineTypes'
  BY <1>1, <1>2, <1>3 DEF BaselineTypes, BaselineInv, Created
<1>5. CacheInv'
  BY <1>2 DEF CacheInv, baseline_radix_cache_init
<1> QED BY <1>1, <1>2, <1>3, <1>4, <1>5

LEMMA FlatCreated ==
    ASSUME BaselineInv, baseline_flat_create
    PROVE  BaselineInv'
<1>1. Created("flat")
  BY DEF baseline_flat_create
<1>2. BaselineTypes' /\ UNCHANGED entry_count /\ CacheInv' /\ kind' = "flat"
  BY <1>1, CreatedTypes
<1>3. FlatInv'
  BY <1>2 DEF baseline_flat_create, Created, FlatInv, baseline_flat_bytes
<1> QED BY <1>2, <1>3 DEF BaselineInv

LEMMA NoneIn ==
    ASSUME NEW tree, \A r \in DOMAIN tree : tree[r] = Missing, NEW m
    PROVE  Cardinality(PresentIn(tree)) = 0 /\ Cardinality(LeavesIn(tree, m)) = 0
<1>1. PresentIn(tree) = {} /\ LeavesIn(tree, m) = {}
  BY DEF PresentIn, LeavesIn
<1> QED BY <1>1, FS_EmptySet

LEMMA TwoLevelCreated ==
    ASSUME BaselineInv, baseline_two_level_create
    PROVE  BaselineInv'
<1>1. Created("two_level") /\ baseline_config_valid /\ config \in Configs
  BY DEF baseline_two_level_create, Created, BaselineInv, BaselineTypes
<1>2. /\ BaselineTypes' /\ UNCHANGED entry_count /\ CacheInv' /\ kind' = "two_level"
      /\ allocated' = NoneAllocated
      /\ \A i \in 0 .. (entry_count - 1) : truth'[i] = Invalid
  BY <1>1, CreatedTypes
<1>3. UNCHANGED <<entry_bits>> /\ (RootsFit' <=> RootsFit)
  BY <1>1, SameConfig DEF Created
<1>4. leaf_count' = Pow2[entry_bits \div 2]
  BY <1>2, <1>3 DEF leaf_count, leaf_bits
<1>6. PICK n : n = leaf_count'
  OBVIOUS
<1>7. /\ n \in Nat /\ n >= 1 /\ TwoLevelRoots(n) \in Nat
      /\ RootsFit => \A i \in 0 .. (entry_count - 1) :
            i \div n \in 0 .. (TwoLevelRoots(n) - 1)
  BY <1>1, <1>4, <1>6, RootReaches
<1>8. PICK R : R = TwoLevelRoots(n)
  OBVIOUS
<1>9. root' = NullRoots(R) /\ live' = RootBlocks(R) /\ TwoLevelRoots(leaf_count)' = R
  BY <1>2, <1>4, <1>6, <1>8 DEF baseline_two_level_create, TwoLevelRoots, Wrapped
<1>13. R \in Nat
  BY <1>7, <1>8
<1>14. /\ root' \in [0 .. (R - 1) -> Leaves' \cup {Missing}]
       /\ \A r \in 0 .. (R - 1) : root'[r] = Missing
       /\ DOMAIN root' = 0 .. (R - 1)
  BY <1>9 DEF NullRoots
<1>15. RootsFit => \A i \in 0 .. (entry_count - 1) :
          truth'[i] = EntryOf(root'[i \div n], i % n)
  BY <1>2, <1>7, <1>8, <1>14 DEF EntryOf
<1>16. Cardinality(PresentIn(root')) = 0
  BY <1>14, NoneIn
<1>17. allocated' = [leaves |-> Cardinality(PresentIn(root')), middles |-> 0]
  BY <1>2, <1>16 DEF NoneAllocated
<1>18. live' = baseline_two_level_bytes'
  <2>1. BlockOf(n) \in Sized /\ BlockOf(R) \in Sized /\ BlockOf(StructWords) \in Sized
    BY <1>7, <1>13, SizedBlock, BaselineAssumption
  <2>2. RootBlocks(R) \in Sized
    BY <2>1, SizedSum DEF RootBlocks
  <2>3. Plus(RootBlocks(R), Times(0, BlockOf(n))) = RootBlocks(R)
    BY <2>1, <2>2, OneMoreBlock
  <2>4. LeafBlock' = BlockOf(n) /\ allocated'.leaves = 0
    BY <1>6, <1>16, <1>17 DEF LeafBlock
  <2> QED BY <1>9, <2>3, <2>4 DEF baseline_two_level_bytes
<1>19. TwoLevelInv'
  BY <1>2, <1>3, <1>6, <1>9, <1>14, <1>15, <1>17, <1>18 DEF TwoLevelInv
<1> QED BY <1>2, <1>19 DEF BaselineInv

LEMMA RadixCreated ==
    ASSUME BaselineInv, baseline_radix_create
    PROVE  BaselineInv'
<1>1. Created("radix") /\ baseline_config_valid /\ config \in Configs
  BY DEF baseline_radix_create, Created, BaselineInv, BaselineTypes
<1>2. /\ BaselineTypes' /\ UNCHANGED entry_count /\ CacheInv' /\ kind' = "radix"
      /\ allocated' = NoneAllocated
      /\ \A i \in 0 .. (entry_count - 1) : truth'[i] = Invalid
  BY <1>1, CreatedTypes
<1>3. UNCHANGED <<entry_bits, RadixRoots, middle_count>>
  BY <1>1, SameConfig DEF Created
<1>4. leaf_count' = Pow2[entry_bits \div 3]
  BY <1>2, <1>3 DEF leaf_count, leaf_bits
<1>5. PICK b : b = entry_bits
  OBVIOUS
<1>6. b \in Nat /\ Pow2[b] >= entry_count /\ b \div 3 \in Nat /\ b - 2 * (b \div 3) \in Nat
  BY <1>1, <1>5, EntryBits, BaselineAssumption
<1>7. PICK n, m, R : n = leaf_count' /\ m = middle_count /\ R = RadixRoots
  OBVIOUS
<1>8. n = Pow2[b \div 3] /\ m = Pow2[b \div 3] /\ R = Pow2[b - 2 * (b \div 3)]
  BY <1>4, <1>5, <1>7 DEF middle_count, middle_bits, RadixRoots, root_bits
<1>9. n \in Nat /\ n >= 1 /\ m \in Nat /\ m >= 1 /\ R \in Nat
  BY <1>6, <1>8, PowPositive
<1>10. entry_count <= (n * m) * R
  <2>1. PICK c, d : c = b \div 3 /\ d = b - 2 * (b \div 3)
    OBVIOUS
  <2>2. c \in Nat /\ d \in Nat /\ c + c \in Nat /\ (c + c) + d = b
    BY <1>6, <2>1
  <2>3. Pow2[c + c] = Pow2[c] * Pow2[c] /\ Pow2[(c + c) + d] = Pow2[c + c] * Pow2[d]
    BY <2>2, PowSum
  <2> QED BY <1>6, <1>8, <2>1, <2>2, <2>3
<1>11. entry_count \in Nat
  BY <1>1, EntryCount
<1>12. root' = NullRoots(R) /\ live' = RootBlocks(R)
  BY <1>7 DEF baseline_radix_create
<1>13. /\ root' \in [0 .. (R - 1) -> MiddlesOf(Leaves', m) \cup {Missing}]
       /\ \A r \in 0 .. (R - 1) : root'[r] = Missing
       /\ DOMAIN root' = 0 .. (R - 1)
  BY <1>12 DEF NullRoots
<1>14. ASSUME NEW i \in 0 .. (entry_count - 1)
       PROVE  truth'[i] = EntryOf(LeafAt(root', i \div n, m), i % n)
  <2>1. (n * m) * R \in Int
    BY <1>9
  <2>2. i \in Nat /\ i < (n * m) * R
    BY <1>10, <1>11, <2>1
  <2>3. i \div n \in Nat /\ (i \div n) \div m < R
    BY <1>9, <2>2, RadixReaches
  <2>4. (i \div n) \div m \in 0 .. (R - 1)
    BY <1>9, <2>3, Divided
  <2> QED BY <1>2, <1>13, <2>4 DEF LeafAt, EntryOf
<1>15. Cardinality(PresentIn(root')) = 0 /\ Cardinality(LeavesIn(root', m)) = 0
  BY <1>13, NoneIn
<1>16. allocated' = [leaves |-> Cardinality(LeavesIn(root', m)),
                     middles |-> Cardinality(PresentIn(root'))]
  BY <1>2, <1>15 DEF NoneAllocated
<1>17. live' = baseline_radix_bytes'
  <2>1. /\ BlockOf(n) \in Sized /\ BlockOf(R) \in Sized /\ BlockOf(StructWords) \in Sized
        /\ BlockOf(1) \in Sized /\ BlockOf(m) \in Sized
    BY <1>9, SizedBlock, BaselineAssumption
  <2>2. RootBlocks(R) \in Sized /\ MiddleBlocks' \in Sized
    BY <1>3, <1>7, <2>1, SizedSum DEF RootBlocks, MiddleBlocks
  <2>3. PICK y, z : y = BlockOf(n) /\ z = MiddleBlocks'
    OBVIOUS
  <2>4. Plus(RootBlocks(R), Plus(Times(0, z), Times(0, y))) = RootBlocks(R)
    BY <2>1, <2>2, <2>3, TreeBlocks
  <2>5. LeafBlock' = y /\ allocated'.leaves = 0 /\ allocated'.middles = 0
    BY <1>7, <1>15, <1>16, <2>3 DEF LeafBlock
  <2>6. RootBlocks(RadixRoots)' = RootBlocks(R)
    BY <1>3, <1>7
  <2> QED BY <1>12, <2>3, <2>4, <2>5, <2>6 DEF baseline_radix_bytes
<1>18. RadixInv'
  BY <1>2, <1>3, <1>7, <1>13, <1>14, <1>16, <1>17 DEF RadixInv
<1> QED BY <1>2, <1>18 DEF BaselineInv

LEMMA Places ==
    ASSUME NEW R, NEW m \in Nat, R \in Nat, NEW tree, DOMAIN tree = 0 .. (R - 1)
    PROVE  /\ IsFiniteSet(PresentIn(tree)) /\ Cardinality(PresentIn(tree)) \in Nat
           /\ IsFiniteSet(LeavesIn(tree, m)) /\ Cardinality(LeavesIn(tree, m)) \in Nat
<1>1. IsFiniteSet(0 .. (R - 1)) /\ IsFiniteSet(0 .. (m - 1))
  BY FS_Interval
<1>2. IsFiniteSet(PresentIn(tree))
  BY <1>1, FS_Subset DEF PresentIn
<1>3. IsFiniteSet(PresentIn(tree) \X (0 .. (m - 1)))
  BY <1>1, <1>2, FS_Product
<1>4. IsFiniteSet(LeavesIn(tree, m))
  BY <1>3, FS_Subset DEF LeavesIn
<1> QED BY <1>2, <1>4, FS_CardinalityType

LEMMA GeometryKept ==
    ASSUME config' = config, kind' = kind
    PROVE  /\ entry_count' = entry_count /\ middle_count' = middle_count
           /\ RadixRoots' = RadixRoots /\ leaf_count' = leaf_count /\ Leaves' = Leaves
           /\ LeafBlock' = LeafBlock /\ MiddleBlocks' = MiddleBlocks
BY SameConfig, SameGeometry

\* Sizes of the pieces.
LEMMA SizedParts ==
    ASSUME config \in Configs, baseline_config_valid
    PROVE  /\ BlockOf(StructWords + entry_count) \in Sized
           /\ LeafBlock \in Sized /\ MiddleBlocks \in Sized
           /\ TwoLevelRoots(leaf_count) \in Nat
           /\ RootBlocks(TwoLevelRoots(leaf_count)) \in Sized
           /\ RootBlocks(RadixRoots) \in Sized
<1>1. /\ leaf_count \in Nat /\ leaf_count >= 1 /\ middle_count \in Nat
      /\ RadixRoots \in Nat /\ entry_count \in Nat
  BY LevelCounts, EntryCount
<1>2. entry_count + leaf_count - 1 \in Nat /\ Pow2[WordBits] \in Nat /\ Pow2[WordBits] >= 1
  BY <1>1, PowPositive, BaselineAssumption
<1>3. TwoLevelRoots(leaf_count) \in Nat
  <2>1. PICK x : x = Wrapped(entry_count + leaf_count - 1)
    OBVIOUS
  <2>2. x \in Nat
    BY <1>2, <2>1, Divided DEF Wrapped
  <2> QED BY <1>1, <2>1, <2>2, Divided DEF TwoLevelRoots
<1>4. StructWords \in Nat /\ StructWords + entry_count \in Nat /\ 1 \in Nat
  BY <1>1, BaselineAssumption
<1>5. ASSUME NEW x \in Nat PROVE RootBlocks(x) \in Sized
  <2>1. BlockOf(x) \in Sized /\ BlockOf(StructWords) \in Sized
    BY <1>4, SizedBlock
  <2> QED BY <2>1, SizedSum DEF RootBlocks
<1>6. LeafBlock \in Sized /\ BlockOf(1) \in Sized /\ BlockOf(middle_count) \in Sized
      /\ BlockOf(StructWords + entry_count) \in Sized
  BY <1>1, <1>4, SizedBlock DEF LeafBlock
<1>7. MiddleBlocks \in Sized
  BY <1>6, SizedSum DEF MiddleBlocks
<1> QED BY <1>1, <1>3, <1>5, <1>6, <1>7

LEMMA AllFreed ==
    ASSUME BaselineInv, NEW k \in {"flat", "two_level", "radix"}, NEW freed \in Sized,
           Destroyed(k, freed), live = freed
    PROVE  BaselineInv'
<1>1. freed.words \in Nat /\ freed.pages \in Nat
  BY DEF Sized
<1>2. live' = [words |-> live.words - freed.words, pages |-> live.pages - freed.pages]
  BY DEF Destroyed
<1>3. live' = NoBlocks
  BY <1>1, <1>2 DEF NoBlocks
<1>4. /\ config' = config /\ kind' = "none" /\ allocated' = NoneAllocated
      /\ cache' = baseline_radix_cache_init
  BY DEF Destroyed
<1>5. BaselineTypes'
  BY <1>3, <1>4 DEF BaselineInv, BaselineTypes
<1>6. CacheInv'
  BY <1>4 DEF CacheInv, baseline_radix_cache_init
<1> QED BY <1>4, <1>5, <1>6 DEF BaselineInv

LEMMA FlatDestroyed ==
    ASSUME BaselineInv, baseline_flat_destroy
    PROVE  BaselineInv'
<1>1. Destroyed("flat", BlockOf(StructWords + entry_count)) /\ kind = "flat"
  BY DEF baseline_flat_destroy, Destroyed
<1>2. live = BlockOf(StructWords + entry_count) /\ config \in Configs /\ baseline_config_valid
  BY <1>1 DEF BaselineInv, BaselineTypes, FlatInv, baseline_flat_bytes
<1>3. BlockOf(StructWords + entry_count) \in Sized
  BY <1>2, SizedParts
<1> QED BY <1>1, <1>2, <1>3, AllFreed

LEMMA TwoLevelDestroyed ==
    ASSUME BaselineInv, baseline_two_level_destroy
    PROVE  BaselineInv'
<1>1. PICK freed : freed = Plus(RootBlocks(Cardinality(DOMAIN root)),
                                Times(Cardinality(Present), LeafBlock))
  OBVIOUS
<1>2. Destroyed("two_level", freed) /\ kind = "two_level"
  BY <1>1 DEF baseline_two_level_destroy, Destroyed
<1>3. TwoLevelInv /\ config \in Configs /\ baseline_config_valid
  BY <1>2 DEF BaselineInv, BaselineTypes
<1>4. PICK R : R = TwoLevelRoots(leaf_count)
  OBVIOUS
<1>5. R \in Nat /\ RootBlocks(R) \in Sized /\ LeafBlock \in Sized
  BY <1>3, <1>4, SizedParts
<1>6. DOMAIN root = 0 .. (R - 1) /\ live = baseline_two_level_bytes
      /\ allocated.leaves = Cardinality(PresentIn(root))
  BY <1>3, <1>4 DEF TwoLevelInv
<1>7. Cardinality(PresentIn(root)) \in Nat
  BY <1>5, <1>6, Places, 0 \in Nat
<1>8. Cardinality(DOMAIN root) = R
  BY <1>5, <1>6, FS_Interval
<1>9. Present = PresentIn(root)
  BY DEF Present, PresentIn
<1>10. live = freed
  BY <1>1, <1>4, <1>6, <1>8, <1>9 DEF baseline_two_level_bytes
<1>11. freed \in Sized
  BY <1>1, <1>5, <1>7, <1>8, <1>9, SizedSum
<1> QED BY <1>2, <1>10, <1>11, AllFreed

LEMMA RadixDestroyed ==
    ASSUME BaselineInv, baseline_radix_destroy
    PROVE  BaselineInv'
<1>1. PICK freed : freed = Plus(RootBlocks(Cardinality(DOMAIN root)),
                                Plus(Times(Cardinality(Present), MiddleBlocks),
                                     Times(Cardinality(PresentLeaves), LeafBlock)))
  OBVIOUS
<1>2. Destroyed("radix", freed) /\ kind = "radix"
  BY <1>1 DEF baseline_radix_destroy, Destroyed
<1>3. RadixInv /\ config \in Configs /\ baseline_config_valid
  BY <1>2 DEF BaselineInv, BaselineTypes
<1>4. PICK R, m : R = RadixRoots /\ m = middle_count
  OBVIOUS
<1>5. R \in Nat /\ m \in Nat /\ RootBlocks(R) \in Sized /\ LeafBlock \in Sized
      /\ MiddleBlocks \in Sized
  BY <1>3, <1>4, SizedParts, LevelCounts
<1>6. DOMAIN root = 0 .. (R - 1) /\ live = baseline_radix_bytes
      /\ allocated.leaves = Cardinality(LeavesIn(root, m))
      /\ allocated.middles = Cardinality(PresentIn(root))
  BY <1>3, <1>4 DEF RadixInv
<1>7. Cardinality(PresentIn(root)) \in Nat /\ Cardinality(LeavesIn(root, m)) \in Nat
  BY <1>5, <1>6, Places
<1>8. Cardinality(DOMAIN root) = R
  BY <1>5, <1>6, FS_Interval
<1>9. Present = PresentIn(root) /\ PresentLeaves = LeavesIn(root, m)
  BY <1>4 DEF Present, PresentIn, PresentLeaves, LeavesIn
<1>10. live = freed
  BY <1>1, <1>4, <1>6, <1>8, <1>9 DEF baseline_radix_bytes
<1>11. freed \in Sized
  BY <1>1, <1>5, <1>7, <1>8, <1>9, SizedSum
<1> QED BY <1>2, <1>10, <1>11, AllFreed

-----------------------------------------------------------------------------
(***************************************************************************)
(* Sets, failing sets and cached lookups.                                   *)
(***************************************************************************)
LEMMA FlatSet ==
    ASSUME BaselineInv, NEW a \in Words, NEW value \in Handles, baseline_flat_set(a, value)
    PROVE  BaselineInv'
<1>1. /\ config' = config /\ kind' = kind /\ cache' = cache /\ kind = "flat"
      /\ allocated' = allocated /\ live' = live /\ baseline_index(a)
      /\ root' = [root EXCEPT ![Index(a)] = value]
      /\ truth' = [truth EXCEPT ![Index(a)] = value]
  BY DEF baseline_flat_set, SetEntry
<1>2. FlatInv /\ config \in Configs /\ baseline_config_valid /\ allocated = NoneAllocated
      /\ cache = baseline_radix_cache_init
  BY <1>1 DEF BaselineInv, BaselineTypes, CacheInv
<1>3. Index(a) \in 0 .. (entry_count - 1)
  BY <1>1, <1>2, InsideIndex
<1>4. BaselineTypes'
  BY <1>1, <1>2, <1>3, BaselineKept
<1>5. entry_count' = entry_count
  BY <1>1, GeometryKept
<1>6. FlatInv'
  BY <1>1, <1>2, <1>5 DEF FlatInv, baseline_flat_bytes
<1>7. CacheInv'
  BY <1>1, <1>2 DEF CacheInv, baseline_radix_cache_init
<1> QED BY <1>1, <1>4, <1>6, <1>7 DEF BaselineInv

LEMMA TwoLevelSet ==
    ASSUME BaselineInv, NEW a \in Words, NEW value \in Handles,
           baseline_two_level_set(a, value)
    PROVE  BaselineInv'
<1>1. PICK i : i = Index(a)
  OBVIOUS
<1>2. /\ config' = config /\ kind' = kind /\ cache' = cache /\ kind = "two_level"
      /\ baseline_index(a) /\ TwoLevelRoot(i) \in DOMAIN root
      /\ root' = [root EXCEPT ![TwoLevelRoot(i)] = LeafWith(root[TwoLevelRoot(i)], i, value)]
      /\ truth' = [truth EXCEPT ![i] = value]
      /\ IF root[TwoLevelRoot(i)] = Missing
         THEN /\ allocated' = [allocated EXCEPT !.leaves = @ + 1]
              /\ live' = Plus(live, LeafBlock)
         ELSE allocated' = allocated /\ live' = live
  BY <1>1 DEF baseline_two_level_set, SetEntry, InRoot
<1>3. TwoLevelInv /\ config \in Configs /\ baseline_config_valid
      /\ cache = baseline_radix_cache_init
      /\ truth \in [0 .. (entry_count - 1) -> Handles \cup {Invalid}]
  BY <1>2 DEF BaselineInv, BaselineTypes, CacheInv
<1>4. PICK n, R, q : n = leaf_count /\ R = TwoLevelRoots(leaf_count) /\ q = i \div leaf_count
  OBVIOUS
<1>5. n \in Nat /\ n >= 1 /\ R \in Nat /\ entry_count \in Nat /\ LeafBlock \in Sized
      /\ RootBlocks(R) \in Sized
  BY <1>3, <1>4, LevelCounts, SizedParts, EntryCount
<1>6. i \in 0 .. (entry_count - 1) /\ i \in Nat
  BY <1>1, <1>2, <1>3, <1>5, InsideIndex
<1>7. RootsFit => \A j \in 0 .. (entry_count - 1) : j \in Nat /\ j \div n \in 0 .. (R - 1)
  <2>1. n = Pow2[entry_bits \div 2]
    BY <1>2, <1>4 DEF leaf_count, leaf_bits
  <2> QED BY <1>3, <1>4, <2>1, RootReaches
<1>8. TwoLevelRoot(i) = q /\ Low(i) = i % n /\ q \in 0 .. (R - 1) /\ q = i \div n
  <2>1. DOMAIN root = 0 .. (R - 1)
    BY <1>3, <1>4 DEF TwoLevelInv
  <2> QED BY <1>2, <1>3, <1>4, <1>6, <2>1, Coordinates
<1>9. /\ root \in [0 .. (R - 1) -> Leaves \cup {Missing}]
      /\ RootsFit => \A j \in 0 .. (entry_count - 1) :
            truth[j] = EntryOf(root[j \div n], j % n)
      /\ allocated = [leaves |-> Cardinality(PresentIn(root)), middles |-> 0]
      /\ live = Plus(RootBlocks(R), Times(Cardinality(PresentIn(root)), LeafBlock))
  BY <1>3, <1>4 DEF TwoLevelInv, baseline_two_level_bytes
<1>10. PICK new : new = LeafWith(root[q], i, value)
  OBVIOUS
<1>11. /\ new \in Leaves /\ new # Missing
       /\ \A x \in 0 .. (n - 1) :
             EntryOf(new, x) = IF x = i % n THEN value ELSE EntryOf(root[q], x)
  <2>1. root[q] \in Leaves \cup {Missing}
    BY <1>8, <1>9
  <2>2. PICK leaf : leaf = root[q]
    OBVIOUS
  <2>3. leaf \in Leaves \cup {Missing} /\ leaf_count \in Nat /\ leaf_count >= 1
    BY <1>4, <1>5, <2>1, <2>2
  <2>4. /\ LeafWith(leaf, i, value) \in Leaves
        /\ LeafWith(leaf, i, value) # Missing
        /\ \A x \in 0 .. (leaf_count - 1) :
              EntryOf(LeafWith(leaf, i, value), x)
                = IF x = Low(i) THEN value ELSE EntryOf(leaf, x)
    BY <1>6, <2>3, LeafWritten
  <2>5. new = LeafWith(leaf, i, value)
    BY <1>10, <2>2
  <2> QED BY <1>4, <1>8, <2>2, <2>4, <2>5
<1>12. /\ root' = [root EXCEPT ![q] = new]
       /\ root' \in [0 .. (R - 1) -> Leaves \cup {Missing}]
       /\ \A r \in 0 .. (R - 1) : root'[r] = IF r = q THEN new ELSE root[r]
       /\ DOMAIN root' = 0 .. (R - 1) /\ DOMAIN root = 0 .. (R - 1)
  BY <1>2, <1>8, <1>9, <1>10, <1>11
<1>13. ASSUME RootsFit, NEW j \in 0 .. (entry_count - 1)
       PROVE  truth'[j] = EntryOf(root'[j \div n], j % n)
  <2>1. truth'[j] = IF j = i THEN value ELSE truth[j]
    BY <1>2, <1>3
  <2>2. EntryOf(root'[j \div n], j % n) = IF j = i THEN value ELSE truth[j]
    <3>1. truth[j] = EntryOf(root[j \div n], j % n)
      BY <1>9, <1>13
    <3>2. CASE j \div n # q
      <4>1. root'[j \div n] = root[j \div n] /\ j # i
        BY <1>7, <1>8, <1>12, <1>13, <3>2
      <4> QED BY <3>1, <4>1
    <3>3. CASE j \div n = q
      <4>1. j % n = i % n <=> j = i
        BY <1>5, <1>6, <1>7, <1>8, <1>13, <3>3, SameEntry
      <4>2. j % n \in 0 .. (n - 1)
        BY <1>5, <1>7, <1>13, Divided
      <4>3. EntryOf(new, j % n) = IF j = i THEN value ELSE EntryOf(root[q], j % n)
        BY <1>11, <4>1, <4>2
      <4>4. root'[j \div n] = new
        BY <1>8, <1>12, <3>3
      <4> QED BY <3>1, <3>3, <4>3, <4>4
    <3> QED BY <3>2, <3>3
  <2> QED BY <2>1, <2>2
<1>14. PresentIn(root') = PresentIn(root) \cup {q}
  BY <1>8, <1>11, <1>12 DEF PresentIn
<1>15. IsFiniteSet(PresentIn(root)) /\ Cardinality(PresentIn(root)) \in Nat
  BY <1>5, <1>12, Places, 0 \in Nat
<1>16. PICK c : c = Cardinality(PresentIn(root))
  OBVIOUS
<1>17. /\ allocated' = [leaves |-> Cardinality(PresentIn(root')), middles |-> 0]
       /\ live' = Plus(RootBlocks(R), Times(Cardinality(PresentIn(root')), LeafBlock))
  <2>1. CASE root[q] = Missing
    <3>1. q \notin PresentIn(root)
      BY <2>1 DEF PresentIn
    <3>2. Cardinality(PresentIn(root')) = c + 1
      BY <1>14, <1>15, <1>16, <3>1, FS_AddElement
    <3>3. allocated' = [allocated EXCEPT !.leaves = @ + 1] /\ live' = Plus(live, LeafBlock)
      BY <1>2, <1>8, <2>1
    <3>4. live' = Plus(RootBlocks(R), Times(c + 1, LeafBlock))
      BY <1>5, <1>9, <1>15, <1>16, <3>3, OneMoreBlock
    <3>5. allocated' = [leaves |-> c + 1, middles |-> 0]
      BY <1>9, <1>16, <3>3
    <3> QED BY <3>2, <3>4, <3>5
  <2>2. CASE root[q] # Missing
    <3>1. q \in PresentIn(root)
      BY <1>8, <1>12, <2>2 DEF PresentIn
    <3>2. PresentIn(root') = PresentIn(root)
      BY <1>14, <3>1
    <3>3. allocated' = allocated /\ live' = live
      BY <1>2, <1>8, <2>2
    <3> QED BY <1>9, <3>2, <3>3
  <2> QED BY <2>1, <2>2
<1>18. /\ entry_count' = entry_count /\ leaf_count' = leaf_count /\ Leaves' = Leaves
       /\ LeafBlock' = LeafBlock /\ (RootsFit' <=> RootsFit)
  BY <1>2, GeometryKept, SameConfig
<1>19. TwoLevelRoots(leaf_count)' = R
  BY <1>4, <1>18 DEF TwoLevelRoots, Wrapped
<1>20. allocated'.leaves = Cardinality(PresentIn(root'))
  BY <1>17
<1>21. live' = baseline_two_level_bytes'
  BY <1>17, <1>18, <1>19, <1>20 DEF baseline_two_level_bytes
<1>22. TwoLevelInv'
  BY <1>4, <1>12, <1>13, <1>17, <1>18, <1>19, <1>21 DEF TwoLevelInv
<1>23. BaselineTypes'
  BY <1>2, <1>6, BaselineKept
<1>24. CacheInv'
  BY <1>2, <1>3 DEF CacheInv, baseline_radix_cache_init
<1> QED BY <1>2, <1>22, <1>23, <1>24 DEF BaselineInv

\* The tree at an entry that is set, in terms of its key.
LEMMA RadixAt ==
    ASSUME BaselineInv, kind = "radix", NEW a \in Words, baseline_index(a),
           NEW i, i = Index(a), NEW k, k = i \div leaf_count
    PROVE  /\ config \in Configs /\ baseline_config_valid
           /\ leaf_count \in Nat /\ leaf_count >= 1
           /\ middle_count \in Nat /\ middle_count >= 1 /\ RadixRoots \in Nat
           /\ i \in Nat /\ i \in 0 .. (entry_count - 1)
           /\ k \in Nat /\ k \div middle_count < RadixRoots
           /\ k \div middle_count \in 0 .. (RadixRoots - 1)
           /\ k % middle_count \in 0 .. (middle_count - 1)
           /\ Low(i) = i % leaf_count /\ LeafKey(i) = k
           /\ RadixRoot(i) = k \div middle_count /\ Middle(i) = k % middle_count
           /\ RadixLeaf(i) = LeafAt(root, k, middle_count)
           /\ LeafAt(root, k, middle_count) \in Leaves \cup {Missing}
           /\ \A j \in 0 .. (entry_count - 1) :
                 j \in Nat /\ j \div leaf_count \in Nat
                 /\ (j \div leaf_count) \div middle_count < RadixRoots
<1>1. config \in Configs /\ baseline_config_valid /\ RadixInv
  BY DEF BaselineInv, BaselineTypes
<1>2. /\ leaf_count \in Nat /\ leaf_count >= 1
      /\ middle_count \in Nat /\ middle_count >= 1 /\ RadixRoots \in Nat
      /\ entry_count <= (leaf_count * middle_count) * RadixRoots
      /\ entry_count \in Nat
  BY <1>1, LevelCounts, EntryCount
<1>3. ASSUME NEW j \in 0 .. (entry_count - 1)
      PROVE  j \in Nat /\ j \div leaf_count \in Nat
             /\ (j \div leaf_count) \div middle_count < RadixRoots
  <2>1. (leaf_count * middle_count) * RadixRoots \in Int
    BY <1>2
  <2>2. j \in Nat /\ j < (leaf_count * middle_count) * RadixRoots
    BY <1>2, <2>1
  <2> QED BY <1>2, <2>2, RadixReaches
<1>4. i \in 0 .. (entry_count - 1) /\ i \in Nat
  BY <1>1, <1>2, InsideIndex
<1>5. k \in Nat /\ k \div middle_count < RadixRoots
  BY <1>3, <1>4
<1>6. k \div middle_count \in 0 .. (RadixRoots - 1) /\ k % middle_count \in 0 .. (middle_count - 1)
  BY <1>2, <1>5, Divided
<1>7. /\ Low(i) = i % leaf_count /\ LeafKey(i) = k
      /\ RadixRoot(i) = k \div middle_count /\ Middle(i) = k % middle_count
      /\ RadixLeaf(i) = LeafAt(root, k, middle_count)
  BY <1>1, <1>4, Coordinates
<1>8. LeafAt(root, k, middle_count) \in Leaves \cup {Missing}
  <2>1. root[k \div middle_count] \in MiddlesOf(Leaves, middle_count) \cup {Missing}
    BY <1>1, <1>6 DEF RadixInv
  <2> QED BY <1>6, <2>1 DEF LeafAt, MiddlesOf
<1> QED BY <1>1, <1>2, <1>3, <1>4, <1>5, <1>6, <1>7, <1>8

\* The step writes a leaf at the key of an address, in the middle that is there
\* or in a fresh one.
RadixWrites(k, m, leaf) ==
    /\ config' = config /\ kind' = kind /\ cache' = cache /\ kind = "radix"
    /\ \E a \in Words : baseline_index(a) /\ k = Index(a) \div leaf_count
    /\ m = middle_count
    /\ leaf \in Leaves \cup {Missing}
    /\ leaf # Missing \/ LeafAt(root, k, m) = Missing
    /\ LET middle == IF root[k \div m] = Missing THEN FreshMiddle ELSE root[k \div m]
       IN  root' = [root EXCEPT ![k \div m] = [middle EXCEPT ![k % m] = leaf]]

LEMMA RadixWritten ==
    ASSUME BaselineInv, NEW k, NEW m, NEW leaf, RadixWrites(k, m, leaf)
    PROVE  /\ root' \in [0 .. (RadixRoots - 1) -> MiddlesOf(Leaves, m) \cup {Missing}]
           /\ \A j \in Nat : j \div m < RadixRoots =>
                 LeafAt(root', j, m) = IF j = k THEN leaf ELSE LeafAt(root, j, m)
           /\ CacheInv'
           /\ Cardinality(PresentIn(root)) \in Nat /\ Cardinality(LeavesIn(root, m)) \in Nat
           /\ root[k \div m] = Missing =>
                 Cardinality(PresentIn(root')) = Cardinality(PresentIn(root)) + 1
           /\ root[k \div m] # Missing => PresentIn(root') = PresentIn(root)
           /\ leaf # Missing /\ LeafAt(root, k, m) = Missing =>
                 Cardinality(LeavesIn(root', m)) = Cardinality(LeavesIn(root, m)) + 1
           /\ leaf = Missing \/ LeafAt(root, k, m) # Missing =>
                 LeavesIn(root', m) = LeavesIn(root, m)
<1>0. /\ config' = config /\ kind' = kind /\ cache' = cache /\ kind = "radix"
      /\ m = middle_count
  BY DEF RadixWrites
<1>1. RadixInv /\ CacheInv /\ config \in Configs /\ baseline_config_valid
  BY <1>0 DEF BaselineInv, BaselineTypes
<1>2. PICK R : R = RadixRoots
  OBVIOUS
<1>3. /\ m \in Nat /\ m >= 1 /\ R \in Nat /\ k \in Nat /\ k \div m < R
      /\ k \div m \in 0 .. (R - 1) /\ k % m \in 0 .. (m - 1)
  <2>1. PICK a \in Words : baseline_index(a) /\ k = Index(a) \div leaf_count
    BY DEF RadixWrites
  <2> QED BY <1>0, <1>2, <2>1, RadixAt
<1>4. root \in [0 .. (R - 1) -> MiddlesOf(Leaves, m) \cup {Missing}]
  BY <1>0, <1>1, <1>2 DEF RadixInv
<1>5. DOMAIN root = 0 .. (R - 1)
  BY <1>4
<1>6. FreshMiddle = [j \in 0 .. (m - 1) |-> Missing]
  BY <1>0 DEF FreshMiddle
<1>7. /\ root' \in [0 .. (R - 1) -> MiddlesOf(Leaves, m) \cup {Missing}]
      /\ \A j \in Nat : j \div m < R =>
            LeafAt(root', j, m) = IF j = k THEN leaf ELSE LeafAt(root, j, m)
      /\ PresentIn(root') = PresentIn(root) \cup {k \div m}
      /\ leaf # Missing => LeavesIn(root', m) = LeavesIn(root, m) \cup {<<k \div m, k % m>>}
      /\ leaf = Missing /\ LeafAt(root, k, m) = Missing => LeavesIn(root', m) = LeavesIn(root, m)
  <2>1. PICK S, tree, new : S = Leaves /\ tree = root /\ new = root'
    OBVIOUS
  <2>2. LeafPut(tree, new, k, m, leaf, S, R)
    BY <1>3, <1>4, <1>6, <2>1 DEF LeafPut, RadixWrites
  <2>3. PutShows(tree, new, k, m, leaf, S, R)
    BY <1>3, <2>2, MiddleWritten
  <2> QED BY <2>1, <2>3 DEF PutShows
<1>8. /\ IsFiniteSet(PresentIn(root)) /\ Cardinality(PresentIn(root)) \in Nat
      /\ IsFiniteSet(LeavesIn(root, m)) /\ Cardinality(LeavesIn(root, m)) \in Nat
  BY <1>3, <1>5, Places
<1>9. /\ k \div m \in PresentIn(root) <=> root[k \div m] # Missing
      /\ <<k \div m, k % m>> \in LeavesIn(root, m) <=> LeafAt(root, k, m) # Missing
  BY <1>3, <1>5 DEF PresentIn, LeavesIn, LeafAt
<1>10. /\ root[k \div m] = Missing =>
             Cardinality(PresentIn(root')) = Cardinality(PresentIn(root)) + 1
       /\ root[k \div m] # Missing => PresentIn(root') = PresentIn(root)
  <2>1. PICK S, x : S = PresentIn(root) /\ x = k \div m
    OBVIOUS
  <2>2. x \notin S => Cardinality(S \cup {x}) = Cardinality(S) + 1
    BY <1>8, <2>1, FS_AddElement
  <2>3. x \in S => S \cup {x} = S
    OBVIOUS
  <2> QED BY <1>7, <1>9, <2>1, <2>2, <2>3
<1>11. /\ leaf # Missing /\ LeafAt(root, k, m) = Missing =>
             Cardinality(LeavesIn(root', m)) = Cardinality(LeavesIn(root, m)) + 1
       /\ leaf = Missing \/ LeafAt(root, k, m) # Missing =>
             LeavesIn(root', m) = LeavesIn(root, m)
  <2>1. PICK S, x : S = LeavesIn(root, m) /\ x = <<k \div m, k % m>>
    OBVIOUS
  <2>2. x \notin S => Cardinality(S \cup {x}) = Cardinality(S) + 1
    BY <1>8, <2>1, FS_AddElement
  <2>3. CASE leaf # Missing
    <3>1. LeavesIn(root', m) = S \cup {x}
      BY <1>7, <2>1, <2>3
    <3>2. CASE x \in S
      <4>1. LeavesIn(root', m) = S
        BY <3>1, <3>2
      <4> QED BY <1>9, <2>1, <3>2, <4>1
    <3>3. CASE x \notin S
      <4>1. Cardinality(LeavesIn(root', m)) = Cardinality(S) + 1
        BY <2>2, <3>1, <3>3
      <4> QED BY <1>9, <2>1, <2>3, <3>3, <4>1
    <3> QED BY <3>2, <3>3
  <2>4. CASE leaf = Missing
    <3>1. LeavesIn(root', m) = LeavesIn(root, m)
      BY <1>7, <2>4 DEF RadixWrites
    <3> QED BY <2>4, <3>1, Zenon
  <2> QED BY <2>3, <2>4
<1>12. middle_count' = m /\ RadixRoots' = R
  BY <1>0, <1>2, GeometryKept
<1>13. CacheInv'
  <2>1. cache \in [0 .. (CacheEntries - 1) -> Nat \cup {NoKey}]
    BY <1>1 DEF CacheInv
  <2>2. ASSUME NEW slot \in 0 .. (CacheEntries - 1), cache[slot] # NoKey
        PROVE  cache[slot] \div m < R /\ LeafAt(root', cache[slot], m) # Missing
    <3>1. cache[slot] \in Nat /\ cache[slot] \div m < R /\ LeafAt(root, cache[slot], m) # Missing
      BY <1>0, <1>1, <1>2, <2>1, <2>2 DEF CacheInv
    <3>2. leaf # Missing \/ LeafAt(root, k, m) = Missing
      BY DEF RadixWrites
    <3> QED BY <1>7, <3>1, <3>2
  <2> QED BY <1>0, <1>12, <2>1, <2>2 DEF CacheInv
<1> QED BY <1>2, <1>7, <1>8, <1>10, <1>11, <1>13

\* The sizes and counters of the tree, from the middles and leaves in it.
LEMMA RadixCounted ==
    ASSUME BaselineInv, kind = "radix", config' = config, kind' = kind,
           NEW c \in {0, 1}, NEW d \in {0, 1}, NEW m, m = middle_count,
           Cardinality(PresentIn(root)) \in Nat, Cardinality(LeavesIn(root, m)) \in Nat,
           Cardinality(PresentIn(root')) = Cardinality(PresentIn(root)) + c,
           Cardinality(LeavesIn(root', m)) = Cardinality(LeavesIn(root, m)) + d,
           allocated' = [leaves |-> allocated.leaves + d, middles |-> allocated.middles + c],
           live' = Plus(live, Plus(IF d = 1 THEN LeafBlock ELSE NoBlocks,
                                   IF c = 1 THEN MiddleBlocks ELSE NoBlocks))
    PROVE  /\ allocated' = [leaves |-> Cardinality(LeavesIn(root', m)),
                            middles |-> Cardinality(PresentIn(root'))]
           /\ live' = baseline_radix_bytes'
<1>1. PICK p, q : p = Cardinality(PresentIn(root)) /\ q = Cardinality(LeavesIn(root, m))
  OBVIOUS
<1>2. p \in Nat /\ q \in Nat
  BY <1>1
<1>3. /\ allocated = [leaves |-> q, middles |-> p] /\ live = baseline_radix_bytes
      /\ config \in Configs /\ baseline_config_valid
  BY <1>1 DEF BaselineInv, BaselineTypes, RadixInv
<1>4. allocated.leaves = q /\ allocated.middles = p
  BY <1>3
<1>5. PICK r, y, z : r = RootBlocks(RadixRoots) /\ y = LeafBlock /\ z = MiddleBlocks
  OBVIOUS
<1>6. r \in Sized /\ y \in Sized /\ z \in Sized
  BY <1>3, <1>5, SizedParts
<1>7. live = Plus(r, Plus(Times(p, z), Times(q, y)))
  BY <1>3, <1>4, <1>5 DEF baseline_radix_bytes
<1>8. live' = Plus(r, Plus(Times(p + c, z), Times(q + d, y)))
  <2>1. live' = Plus(live, Plus(IF d = 1 THEN y ELSE NoBlocks, IF c = 1 THEN z ELSE NoBlocks))
    BY <1>5
  <2>2. /\ Plus(live, Plus(NoBlocks, NoBlocks)) = live
        /\ Plus(live, Plus(y, NoBlocks)) = Plus(r, Plus(Times(p, z), Times(q + 1, y)))
        /\ Plus(live, z) = Plus(r, Plus(Times(p + 1, z), Times(q, y)))
        /\ Plus(live, Plus(y, z)) = Plus(r, Plus(Times(p + 1, z), Times(q + 1, y)))
    BY <1>2, <1>6, <1>7, TreeBlocks
  <2>3. Plus(NoBlocks, z) = z
    BY <1>6, PlusShuffle
  <2>4. p + 0 = p /\ q + 0 = q
    BY <1>2
  <2>5. CASE c = 0 /\ d = 0
    BY <1>7, <2>1, <2>2, <2>4, <2>5
  <2>6. CASE c = 0 /\ d = 1
    BY <2>1, <2>2, <2>4, <2>6
  <2>7. CASE c = 1 /\ d = 0
    BY <2>1, <2>2, <2>3, <2>4, <2>7
  <2>8. CASE c = 1 /\ d = 1
    BY <2>1, <2>2, <2>8
  <2> QED BY <2>5, <2>6, <2>7, <2>8
<1>9. allocated' = [leaves |-> q + d, middles |-> p + c]
  BY <1>4
<1>10. allocated'.leaves = q + d /\ allocated'.middles = p + c
  BY <1>9
<1>11. LeafBlock' = y /\ MiddleBlocks' = z /\ RadixRoots' = RadixRoots
  BY <1>5, GeometryKept
<1>12. live' = baseline_radix_bytes'
  BY <1>5, <1>8, <1>10, <1>11 DEF baseline_radix_bytes
<1> QED BY <1>1, <1>9, <1>12

LEMMA RadixSet ==
    ASSUME BaselineInv, NEW a \in Words, NEW value \in Handles, baseline_radix_set(a, value)
    PROVE  BaselineInv'
<1>1. PICK i, k, n, m : i = Index(a) /\ n = leaf_count /\ k = i \div n /\ m = middle_count
  OBVIOUS
<1>2. config' = config /\ kind' = kind /\ cache' = cache /\ kind = "radix" /\ baseline_index(a)
  BY DEF baseline_radix_set, SetEntry
<1>3. /\ config \in Configs /\ baseline_config_valid
      /\ n \in Nat /\ n >= 1 /\ m \in Nat /\ m >= 1 /\ RadixRoots \in Nat
      /\ i \in Nat /\ i \in 0 .. (entry_count - 1)
      /\ k \in Nat /\ k \div m < RadixRoots
      /\ Low(i) = i % n
      /\ RadixRoot(i) = k \div m /\ Middle(i) = k % m
      /\ RadixLeaf(i) = LeafAt(root, k, m)
      /\ LeafAt(root, k, m) \in Leaves \cup {Missing}
      /\ \A j \in 0 .. (entry_count - 1) :
            j \in Nat /\ j \div n \in Nat /\ (j \div n) \div m < RadixRoots
  BY <1>1, <1>2, RadixAt
<1>4. PICK old, new, middle :
         /\ old = LeafAt(root, k, m) /\ new = LeafWith(old, i, value)
         /\ middle = IF root[k \div m] = Missing THEN FreshMiddle ELSE root[k \div m]
  OBVIOUS
<1>5. /\ root' = [root EXCEPT ![k \div m] = [middle EXCEPT ![k % m] = new]]
      /\ allocated' = [leaves |-> allocated.leaves + (IF old = Missing THEN 1 ELSE 0),
                       middles |-> allocated.middles
                                     + (IF root[k \div m] = Missing THEN 1 ELSE 0)]
      /\ live' = Plus(live, Plus(IF old = Missing THEN LeafBlock ELSE NoBlocks,
                                 IF root[k \div m] = Missing THEN MiddleBlocks ELSE NoBlocks))
      /\ truth' = [truth EXCEPT ![i] = value]
  BY <1>1, <1>3, <1>4 DEF baseline_radix_set, SetEntry
<1>6. /\ new \in Leaves /\ new # Missing
      /\ \A x \in 0 .. (n - 1) :
            EntryOf(new, x) = IF x = i % n THEN value ELSE EntryOf(old, x)
  <2>1. old \in Leaves \cup {Missing} /\ leaf_count \in Nat /\ leaf_count >= 1
    BY <1>1, <1>3, <1>4
  <2>2. /\ LeafWith(old, i, value) \in Leaves
        /\ LeafWith(old, i, value) # Missing
        /\ \A x \in 0 .. (leaf_count - 1) :
              EntryOf(LeafWith(old, i, value), x)
                = IF x = Low(i) THEN value ELSE EntryOf(old, x)
    <3>1. i \in Nat
      BY <1>3
    <3> QED BY <2>1, <3>1, LeafWritten
  <2> QED BY <1>1, <1>3, <1>4, <2>2
<1>7. new \in Leaves \cup {Missing} /\ k = Index(a) \div leaf_count
  BY <1>1, <1>6
<1>8. /\ root' \in [0 .. (RadixRoots - 1) -> MiddlesOf(Leaves, m) \cup {Missing}]
      /\ \A j \in Nat : j \div m < RadixRoots =>
            LeafAt(root', j, m) = IF j = k THEN new ELSE LeafAt(root, j, m)
      /\ CacheInv'
      /\ Cardinality(PresentIn(root)) \in Nat /\ Cardinality(LeavesIn(root, m)) \in Nat
      /\ root[k \div m] = Missing =>
            Cardinality(PresentIn(root')) = Cardinality(PresentIn(root)) + 1
      /\ root[k \div m] # Missing => PresentIn(root') = PresentIn(root)
      /\ new # Missing /\ LeafAt(root, k, m) = Missing =>
            Cardinality(LeavesIn(root', m)) = Cardinality(LeavesIn(root, m)) + 1
      /\ new = Missing \/ LeafAt(root, k, m) # Missing =>
            LeavesIn(root', m) = LeavesIn(root, m)
  <2>1. RadixWrites(k, m, new)
    BY <1>1, <1>2, <1>4, <1>5, <1>6, <1>7 DEF RadixWrites
  <2> QED BY <2>1, RadixWritten
<1>9. PICK c, d : /\ c = IF root[k \div m] = Missing THEN 1 ELSE 0
                  /\ d = IF old = Missing THEN 1 ELSE 0
  OBVIOUS
<1>10. /\ allocated' = [leaves |-> Cardinality(LeavesIn(root', m)),
                        middles |-> Cardinality(PresentIn(root'))]
       /\ live' = baseline_radix_bytes'
  <2>1. c \in {0, 1} /\ d \in {0, 1}
    BY <1>9
  <2>2. Cardinality(PresentIn(root')) = Cardinality(PresentIn(root)) + c
    BY <1>8, <1>9
  <2>3. Cardinality(LeavesIn(root', m)) = Cardinality(LeavesIn(root, m)) + d
    BY <1>4, <1>6, <1>8, <1>9
  <2>4. allocated' = [leaves |-> allocated.leaves + d, middles |-> allocated.middles + c]
    BY <1>5, <1>9
  <2>5. live' = Plus(live, Plus(IF d = 1 THEN LeafBlock ELSE NoBlocks,
                                IF c = 1 THEN MiddleBlocks ELSE NoBlocks))
    BY <1>5, <1>9
  <2> QED BY <1>1, <1>2, <1>8, <2>1, <2>2, <2>3, <2>4, <2>5, RadixCounted
<1>11. truth \in [0 .. (entry_count - 1) -> Handles \cup {Invalid}]
       /\ \A j \in 0 .. (entry_count - 1) : truth[j] = EntryOf(LeafAt(root, j \div n, m), j % n)
  BY <1>1, <1>2 DEF BaselineInv, BaselineTypes, RadixInv
<1>12. ASSUME NEW j \in 0 .. (entry_count - 1)
       PROVE  truth'[j] = EntryOf(LeafAt(root', j \div n, m), j % n)
  <2>1. truth'[j] = IF j = i THEN value ELSE truth[j]
    BY <1>5, <1>11
  <2>2. truth[j] = EntryOf(LeafAt(root, j \div n, m), j % n)
    BY <1>11
  <2>3. LeafAt(root', j \div n, m) = IF j \div n = k THEN new ELSE LeafAt(root, j \div n, m)
    BY <1>3, <1>8
  <2>4. CASE j \div n # k
    BY <1>1, <2>1, <2>2, <2>3, <2>4
  <2>5. CASE j \div n = k
    <3>1. j % n = i % n <=> j = i
      BY <1>1, <1>3, <2>5, SameEntry
    <3>2. j % n \in 0 .. (n - 1)
      BY <1>3, Divided
    <3>3. EntryOf(new, j % n) = IF j = i THEN value ELSE EntryOf(old, j % n)
      BY <1>6, <3>1, <3>2
    <3> QED BY <1>4, <2>1, <2>2, <2>3, <2>5, <3>3
  <2> QED BY <2>4, <2>5
<1>13. /\ entry_count' = entry_count /\ leaf_count' = n /\ Leaves' = Leaves
       /\ middle_count' = m /\ RadixRoots' = RadixRoots
  BY <1>1, <1>2, GeometryKept
<1>14. RadixInv'
  BY <1>8, <1>10, <1>12, <1>13 DEF RadixInv
<1>15. BaselineTypes'
  BY <1>2, <1>3, <1>5, BaselineKept
<1> QED BY <1>2, <1>8, <1>14, <1>15 DEF BaselineInv

LEMMA MiddleStays ==
    ASSUME BaselineInv, NEW a \in Words, RadixLeafFails(a)
    PROVE  BaselineInv'
<1>1. PICK i, k, n, m : i = Index(a) /\ n = leaf_count /\ k = i \div n /\ m = middle_count
  OBVIOUS
<1>2. /\ config' = config /\ kind' = kind /\ cache' = cache /\ kind = "radix"
      /\ baseline_index(a) /\ truth' = truth
      /\ RadixLeaf(i) = Missing
      /\ IF root[RadixRoot(i)] = Missing
         THEN /\ root' = [root EXCEPT ![RadixRoot(i)] = FreshMiddle]
              /\ allocated' = [allocated EXCEPT !.middles = @ + 1]
              /\ live' = Plus(live, MiddleBlocks)
         ELSE root' = root /\ allocated' = allocated /\ live' = live
  BY <1>1 DEF RadixLeafFails
<1>3. /\ config \in Configs /\ baseline_config_valid
      /\ n \in Nat /\ n >= 1 /\ m \in Nat /\ m >= 1 /\ RadixRoots \in Nat
      /\ k \in Nat /\ k \div m < RadixRoots
      /\ k % m \in 0 .. (m - 1)
      /\ RadixRoot(i) = k \div m
      /\ RadixLeaf(i) = LeafAt(root, k, m)
      /\ \A j \in 0 .. (entry_count - 1) :
            j \in Nat /\ j \div n \in Nat /\ (j \div n) \div m < RadixRoots
  BY <1>1, <1>2, RadixAt
<1>4. CASE root[k \div m] # Missing
  <2>1. UNCHANGED BaselineVars
    BY <1>2, <1>3, <1>4 DEF BaselineVars
  <2> QED BY <2>1, BaselineStutter
<1>5. CASE root[k \div m] = Missing
  <2>1. /\ root' = [root EXCEPT ![k \div m] = FreshMiddle]
        /\ allocated' = [allocated EXCEPT !.middles = @ + 1]
        /\ live' = Plus(live, MiddleBlocks)
    BY <1>2, <1>3, <1>5
  <2>2. FreshMiddle = [FreshMiddle EXCEPT ![k % m] = Missing]
    BY <1>1, <1>3 DEF FreshMiddle
  <2>3. PICK leaf, middle :
           /\ leaf = Missing
           /\ middle = IF root[k \div m] = Missing THEN FreshMiddle ELSE root[k \div m]
    OBVIOUS
  <2>4. /\ root' = [root EXCEPT ![k \div m] = [middle EXCEPT ![k % m] = leaf]]
        /\ leaf \in Leaves \cup {Missing} /\ LeafAt(root, k, m) = Missing
        /\ k = Index(a) \div leaf_count
    BY <1>1, <1>2, <1>3, <1>5, <2>1, <2>2, <2>3
  <2>5. /\ root' \in [0 .. (RadixRoots - 1) -> MiddlesOf(Leaves, m) \cup {Missing}]
        /\ \A j \in Nat : j \div m < RadixRoots =>
              LeafAt(root', j, m) = IF j = k THEN leaf ELSE LeafAt(root, j, m)
        /\ CacheInv'
        /\ Cardinality(PresentIn(root)) \in Nat /\ Cardinality(LeavesIn(root, m)) \in Nat
        /\ root[k \div m] = Missing =>
              Cardinality(PresentIn(root')) = Cardinality(PresentIn(root)) + 1
        /\ leaf = Missing \/ LeafAt(root, k, m) # Missing =>
              LeavesIn(root', m) = LeavesIn(root, m)
    <3>1. RadixWrites(k, m, leaf)
      BY <1>1, <1>2, <2>3, <2>4 DEF RadixWrites
    <3> QED BY <3>1, RadixWritten
  <2>6. /\ RadixInv /\ live = baseline_radix_bytes
        /\ allocated = [leaves |-> Cardinality(LeavesIn(root, m)),
                        middles |-> Cardinality(PresentIn(root))]
    BY <1>1, <1>2 DEF BaselineInv, RadixInv
  <2>7. /\ allocated' = [leaves |-> Cardinality(LeavesIn(root', m)),
                         middles |-> Cardinality(PresentIn(root'))]
        /\ live' = baseline_radix_bytes'
    <3>1. PICK c, d : c = 1 /\ d = 0
      OBVIOUS
    <3>2. c \in {0, 1} /\ d \in {0, 1}
      BY <3>1
    <3>3. Cardinality(PresentIn(root')) = Cardinality(PresentIn(root)) + c
      BY <1>5, <2>5, <3>1
    <3>4. Cardinality(LeavesIn(root', m)) = Cardinality(LeavesIn(root, m)) + d
      BY <2>3, <2>5, <3>1
    <3>5. allocated' = [leaves |-> allocated.leaves + d, middles |-> allocated.middles + c]
      BY <2>1, <2>5, <2>6, <3>1
    <3>6. live' = Plus(live, Plus(IF d = 1 THEN LeafBlock ELSE NoBlocks,
                                  IF c = 1 THEN MiddleBlocks ELSE NoBlocks))
      <4>1. Plus(NoBlocks, MiddleBlocks) = MiddleBlocks
        BY <1>3, SizedParts, PlusShuffle
      <4> QED BY <2>1, <3>1, <4>1
    <3> QED BY <1>1, <1>2, <2>5, <3>2, <3>3, <3>4, <3>5, <3>6, RadixCounted
  <2>8. ASSUME NEW j \in 0 .. (entry_count - 1)
        PROVE  truth'[j] = EntryOf(LeafAt(root', j \div n, m), j % n)
    <3>1. truth[j] = EntryOf(LeafAt(root, j \div n, m), j % n)
      <4>1. \A x \in 0 .. (entry_count - 1) : truth[x]
              = EntryOf(LeafAt(root, x \div leaf_count, middle_count), x % leaf_count)
        BY <2>6, Zenon DEF RadixInv
      <4> QED BY <1>1, <4>1, Zenon
    <3>2. LeafAt(root', j \div n, m) = LeafAt(root, j \div n, m)
      BY <1>3, <2>3, <2>4, <2>5
    <3> QED BY <1>2, <3>1, <3>2
  <2>9. /\ entry_count' = entry_count /\ leaf_count' = n /\ Leaves' = Leaves
        /\ middle_count' = m /\ RadixRoots' = RadixRoots
    BY <1>1, <1>2, GeometryKept
  <2>10. RadixInv'
    BY <2>5, <2>7, <2>8, <2>9 DEF RadixInv
  <2>11. BaselineTypes'
    BY <1>2, BaselineKept
  <2> QED BY <1>2, <2>5, <2>10, <2>11 DEF BaselineInv
<1> QED BY <1>4, <1>5

LEMMA MissCached ==
    ASSUME BaselineInv, NEW a \in Words, CacheMiss(a)
    PROVE  BaselineInv'
<1>1. PICK i, k, m : i = Index(a) /\ k = i \div leaf_count /\ m = middle_count
  OBVIOUS
<1>2. /\ config' = config /\ kind' = kind /\ kind = "radix" /\ root' = root
      /\ baseline_index(a) /\ truth' = truth /\ allocated' = allocated /\ live' = live
      /\ RadixLeaf(i) # Missing
      /\ cache' = [cache EXCEPT ![LeafKey(i) % CacheEntries] = LeafKey(i)]
  BY <1>1 DEF CacheMiss
<1>3. /\ k \in Nat /\ k \div m < RadixRoots /\ LeafKey(i) = k
      /\ RadixLeaf(i) = LeafAt(root, k, m)
  BY <1>1, <1>2, RadixAt
<1>4. /\ entry_count' = entry_count /\ leaf_count' = leaf_count /\ Leaves' = Leaves
      /\ middle_count' = m /\ RadixRoots' = RadixRoots
      /\ LeafBlock' = LeafBlock /\ MiddleBlocks' = MiddleBlocks
  BY <1>1, <1>2, GeometryKept
<1>5. RadixInv /\ CacheInv
  BY <1>2 DEF BaselineInv
<1>6. RadixInv'
  BY <1>1, <1>2, <1>4, <1>5 DEF RadixInv, baseline_radix_bytes
<1>7. k % CacheEntries \in 0 .. (CacheEntries - 1)
  BY <1>3, Divided, BaselineAssumption
<1>8. PICK s : s = k % CacheEntries
  OBVIOUS
<1>9. cache \in [0 .. (CacheEntries - 1) -> Nat \cup {NoKey}]
  BY <1>5 DEF CacheInv
<1>10. /\ cache' \in [0 .. (CacheEntries - 1) -> Nat \cup {NoKey}]
       /\ \A slot \in 0 .. (CacheEntries - 1) : cache'[slot] = IF slot = s THEN k ELSE cache[slot]
  BY <1>2, <1>3, <1>7, <1>8, <1>9
<1>11. ASSUME NEW slot \in 0 .. (CacheEntries - 1), cache'[slot] # NoKey
       PROVE  /\ cache'[slot] \div m < RadixRoots
              /\ LeafAt(root, cache'[slot], m) # Missing
  <2>1. CASE slot = s
    BY <1>2, <1>3, <1>10, <2>1
  <2>2. CASE slot # s
    BY <1>1, <1>5, <1>10, <1>11, <2>2 DEF CacheInv
  <2> QED BY <2>1, <2>2
<1>12. CacheInv'
  BY <1>2, <1>4, <1>10, <1>11 DEF CacheInv
<1>13. BaselineTypes'
  BY <1>2, BaselineKept
<1> QED BY <1>2, <1>6, <1>12, <1>13 DEF BaselineInv

\* Only where the number of leaves wrapped is anything read past the root.
LEMMA LeftOutside ==
    ASSUME BaselineInv, NEW a \in Words, TwoLevelOutside(a)
    PROVE  BaselineInv'
<1>1. /\ config' = config /\ kind' = "undefined" /\ kind = "two_level" /\ cache' = cache
      /\ truth' = truth /\ baseline_index(a) /\ TwoLevelRoot(Index(a)) \notin DOMAIN root
  BY DEF TwoLevelOutside, InRoot
<1>2. config \in Configs /\ baseline_config_valid /\ TwoLevelInv /\ BaselineTypes
      /\ cache = baseline_radix_cache_init /\ CacheInv
  BY <1>1 DEF BaselineInv, BaselineTypes, CacheInv
<1>3. PICK n : n = Pow2[entry_bits \div 2]
  OBVIOUS
<1>4. leaf_count = n
  BY <1>1, <1>3 DEF leaf_count, leaf_bits
<1>5. Index(a) \in 0 .. (entry_count - 1) /\ TwoLevelRoot(Index(a)) = Index(a) \div n
  BY <1>1, <1>2, <1>4, InsideIndex DEF TwoLevelRoot
<1>6. DOMAIN root = 0 .. (TwoLevelRoots(n) - 1)
  BY <1>2, <1>4 DEF TwoLevelInv
<1>7. RootsFit => Index(a) \div n \in 0 .. (TwoLevelRoots(n) - 1)
  BY <1>2, <1>3, <1>5, RootReaches
<1>8. ~RootsFit
  BY <1>1, <1>5, <1>6, <1>7
<1>9. entry_count' = entry_count /\ baseline_config_valid' /\ ~RootsFit'
  BY <1>1, <1>2, <1>8, SameConfig
<1>10. BaselineTypes'
  BY <1>1, <1>2, <1>9 DEF BaselineTypes
<1>11. CacheInv'
  BY <1>1, <1>2 DEF CacheInv, baseline_radix_cache_init
<1> QED BY <1>1, <1>10, <1>11 DEF BaselineInv

LEMMA BaselineStep == BaselineInv /\ [BaselineNext]_BaselineVars => BaselineInv'
<1> SUFFICES ASSUME BaselineInv, [BaselineNext]_BaselineVars PROVE BaselineInv'
  OBVIOUS
<1>1. CASE baseline_flat_create
  BY <1>1, FlatCreated
<1>2. CASE baseline_two_level_create
  BY <1>2, TwoLevelCreated
<1>3. CASE baseline_radix_create
  BY <1>3, RadixCreated
<1>4. CASE CreateFails \/ Undefined \/ UNCHANGED BaselineVars
  BY <1>4, BaselineStutter DEF CreateFails, Undefined
<1>5. CASE \E a \in Words, value \in Handles : baseline_flat_set(a, value)
  BY <1>5, FlatSet
<1>6. CASE \E a \in Words, value \in Handles : baseline_two_level_set(a, value)
  BY <1>6, TwoLevelSet
<1>7. CASE \E a \in Words, value \in Handles : baseline_radix_set(a, value)
  BY <1>7, RadixSet
<1>8. CASE \E a \in Words : TwoLevelLeafFails(a) \/ MiddleFails(a)
  <2>1. UNCHANGED BaselineVars
    BY <1>8 DEF TwoLevelLeafFails, MiddleFails
  <2> QED BY <2>1, BaselineStutter
<1>9. CASE \E a \in Words : RadixLeafFails(a)
  BY <1>9, MiddleStays
<1>10. CASE \E a \in Words : CacheMiss(a)
  BY <1>10, MissCached
<1>11. CASE baseline_flat_destroy
  BY <1>11, FlatDestroyed
<1>12. CASE baseline_two_level_destroy
  BY <1>12, TwoLevelDestroyed
<1>13. CASE baseline_radix_destroy
  BY <1>13, RadixDestroyed
<1>14. CASE \E a \in Words : TwoLevelOutside(a)
  BY <1>14, LeftOutside
<1> QED BY <1>1, <1>2, <1>3, <1>4, <1>5, <1>6, <1>7, <1>8, <1>9, <1>10, <1>11, <1>12, <1>13,
           <1>14
        DEF BaselineNext

\* The inductive invariant of the baseline indexes: every entry that was set is
\* where its coordinates say, in leaves and middles that exist, everything else
\* reads as invalid, the counters of leaves and middles are those of the tree,
\* and a key in the leaf cache names a leaf (baseline_*_set and the lookups);
\* a two-level table is accessed past its root, or does not have its entries,
\* only where the sum in baseline_two_level_create wrapped.
THEOREM BaselineInvariant == BaselineSpec => []BaselineInv
<1>1. BaselineInit => BaselineInv
  BY BaselineStart
<1>2. BaselineInv /\ [BaselineNext]_BaselineVars => BaselineInv'
  BY BaselineStep
<1> QED BY <1>1, <1>2, PTL DEF BaselineSpec

LEMMA InvAgrees == BaselineInv => BaselinesAgree
<1> SUFFICES ASSUME BaselineInv, NEW a \in Words
             PROVE  LET inside == a \in config.base .. (config.base + config.managed_size - 1)
                        answer == IF inside THEN truth[Index(a)] ELSE Invalid
                    IN  CASE kind = "flat" -> /\ baseline_flat_lookup(a) = answer
                                              /\ inside => baseline_flat_lookup_assume_mapped(a) = answer
                          [] kind = "two_level" ->
                                RootsFit \/ ~inside => baseline_two_level_lookup(a) = answer
                          [] kind = "radix" -> /\ baseline_radix_lookup(a) = answer
                                               /\ baseline_radix_cached_lookup(a) = answer
                          [] OTHER -> TRUE
  BY DEF BaselinesAgree, BaselineInv, BaselineTypes
<1> DEFINE inside == a \in config.base .. (config.base + config.managed_size - 1)
           answer == IF inside THEN truth[Index(a)] ELSE Invalid
<1> HIDE DEF inside
<1>1. CASE kind \notin {"flat", "two_level", "radix"}
  BY <1>1
<1>0. SUFFICES ASSUME kind \in {"flat", "two_level", "radix"}
               PROVE  /\ kind = "flat" =>
                            /\ baseline_flat_lookup(a) = answer
                            /\ inside => baseline_flat_lookup_assume_mapped(a) = answer
                      /\ kind = "two_level" /\ (RootsFit \/ ~inside) =>
                            baseline_two_level_lookup(a) = answer
                      /\ kind = "radix" => /\ baseline_radix_lookup(a) = answer
                                           /\ baseline_radix_cached_lookup(a) = answer
  BY <1>1 DEF inside
<1>2. config \in Configs /\ baseline_config_valid
  BY <1>0 DEF BaselineInv, BaselineTypes
<1>3. PICK i : i = Index(a)
  OBVIOUS
<1>4. baseline_index(a) <=> inside
  BY <1>2, InsideIndex DEF inside
<1>5. baseline_index(a) => i \in 0 .. (entry_count - 1) /\ i \in Nat
  BY <1>2, <1>3, InsideIndex
<1>6. CASE kind = "flat"
  <2>1. root = truth
    BY <1>6 DEF BaselineInv, FlatInv
  <2> QED BY <1>4, <1>6, <2>1 DEF baseline_flat_lookup, baseline_flat_lookup_assume_mapped
<1>7. CASE kind = "two_level"
  <2>1. CASE RootsFit /\ baseline_index(a)
    <3>1. TwoLevelRoot(i) = i \div leaf_count /\ Low(i) = i % leaf_count
      BY <1>2, <1>5, <2>1, Coordinates
    <3>2. truth[i] = EntryOf(root[i \div leaf_count], i % leaf_count)
      BY <1>5, <1>7, <2>1 DEF BaselineInv, TwoLevelInv
    <3>3. baseline_two_level_lookup(a) = truth[i]
      BY <1>3, <2>1, <3>1, <3>2 DEF baseline_two_level_lookup, EntryOf
    <3> QED BY <1>3, <1>4, <1>7, <2>1, <3>3
  <2>2. CASE ~baseline_index(a)
    BY <1>4, <1>7, <2>2 DEF baseline_two_level_lookup
  <2> QED BY <1>4, <1>7, <2>1, <2>2
<1>8. CASE kind = "radix"
  <2>1. CASE baseline_index(a)
    <3>1. PICK k : k = i \div leaf_count
      OBVIOUS
    <3>2. /\ RadixLeaf(i) = LeafAt(root, k, middle_count) /\ Low(i) = i % leaf_count
          /\ LeafKey(i) = k /\ k \in Nat
      BY <1>3, <1>8, <2>1, <3>1, RadixAt
    <3>3. truth[i] = EntryOf(LeafAt(root, k, middle_count), i % leaf_count)
      BY <1>5, <1>8, <2>1, <3>1 DEF BaselineInv, RadixInv
    <3>4. baseline_radix_lookup(a) = truth[i]
      BY <1>3, <2>1, <3>2, <3>3 DEF baseline_radix_lookup, EntryOf
    <3>5. baseline_radix_cached_lookup(a) = truth[i]
      <4>1. CASE CacheHit(i)
        <5>1. cache[k % CacheEntries] = k
          BY <3>2, <4>1 DEF CacheHit
        <5>2. k % CacheEntries \in 0 .. (CacheEntries - 1) /\ k # NoKey
          BY <3>2, Divided, BaselineAssumption DEF NoKey
        <5>3. LeafAt(root, k, middle_count) # Missing
          BY <5>1, <5>2 DEF BaselineInv, CacheInv
        <5>4. CachedLeaf(k) = LeafAt(root, k, middle_count)
          BY <1>2, <3>2, Coordinates
        <5>5. baseline_radix_cached_lookup(a) = CachedLeaf(k)[Low(i)]
          BY <1>3, <2>1, <3>2, <4>1 DEF baseline_radix_cached_lookup
        <5> QED BY <3>2, <3>3, <5>3, <5>4, <5>5 DEF EntryOf
      <4>2. CASE ~CacheHit(i)
        BY <1>3, <3>4, <4>2 DEF baseline_radix_cached_lookup
      <4> QED BY <4>1, <4>2
    <3> QED BY <1>3, <1>4, <1>8, <2>1, <3>4, <3>5
  <2>2. CASE ~baseline_index(a)
    BY <1>4, <1>8, <2>2 DEF baseline_radix_lookup, baseline_radix_cached_lookup
  <2> QED BY <2>1, <2>2
<1> QED BY <1>6, <1>7, <1>8

\* The flat table, the two-level table and the radix tree, with or without the
\* leaf cache, answer for every address like a plain map of what was set, for
\* any width of words, any geometry a configuration gives and any cache size,
\* with the exception of a two-level table whose root_count wrapped, the only
\* one that is accessed outside its arrays.
THEOREM BaselineLookupsAgree == BaselineSpec => []BaselinesAgree
<1>1. BaselineInv => BaselinesAgree
  BY InvAgrees
<1> QED BY <1>1, BaselineInvariant, PTL

\* The reported sizes are those of the blocks that exist, whatever allocations
\* have failed half way, and a destroy gives back every one (baseline_*_bytes,
\* baseline_*_destroy), unless a two-level table whose root_count wrapped has
\* been accessed outside its root.
THEOREM BaselineAccountingExact == BaselineSpec => []AccountingExact
<1>1. BaselineInv => AccountingExact
  BY DEF BaselineInv, BaselineTypes, FlatInv, TwoLevelInv, RadixInv, AccountingExact
<1> QED BY <1>1, BaselineInvariant, PTL
=============================================================================
