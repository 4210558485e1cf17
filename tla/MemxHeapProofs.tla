--------------------------- MODULE MemxHeapProofs ---------------------------
(***************************************************************************)
(* Proofs about MemxHeap, for every number of threads, caches, classes,     *)
(* spans and blocks and every accepted cache_limit and cache_batch: types,  *)
(* soundness of the spliced lists, the cache bound, that a detached cache   *)
(* keeps nothing, and, in the second half, that no block is lost or handed  *)
(* out twice, the header state tells whether the program holds a block, and *)
(* the exclusive cache owns every block in use.                             *)
(***************************************************************************)
EXTENDS MemxHeap, TLAPS, SequenceTheorems, FiniteSetTheorems

-----------------------------------------------------------------------------
(***************************************************************************)
(* Segments.                                                                *)
(***************************************************************************)
\* The empty list, as memx_heap_adopt_spare and the trim leave it, is sound.
LEMMA EmptySegmentSound ==
    EmptySegment \in Segments /\ Sound(EmptySegment)
BY EmptySeq DEF EmptySegment, Segments, Sound

\* The count of a sound list tells whether the list is empty.
LEMMA SoundEmpty ==
    ASSUME NEW s \in Segments, Sound(s)
    PROVE  s.blocks = <<>> <=> s.count = 0
BY EmptySeq DEF Segments, Sound

\* Pushing a freed block keeps tail and count right.
LEMMA PushSound ==
    ASSUME NEW s \in Segments, Sound(s), NEW b \in Blocks
    PROVE  /\ Push(s, b) \in Segments
           /\ Sound(Push(s, b))
           /\ Push(s, b).count = s.count + 1
<1> DEFINE new == <<b>> \o s.blocks
<1>1. s.blocks \in Seq(Blocks) /\ s.count \in Nat /\ s.tail \in Blocks \cup {NoBlock}
  BY DEF Segments
<1>2. /\ new \in Seq(Blocks)
      /\ Len(new) = Len(s.blocks) + 1
      /\ \A i \in 1 .. Len(s.blocks) + 1 :
            new[i] = IF i <= 1 THEN b ELSE s.blocks[i - 1]
  <2>1. <<b>> \in Seq(Blocks) /\ Len(<<b>>) = 1 /\ <<b>>[1] = b
    OBVIOUS
  <2> QED BY <1>1, <2>1, ConcatProperties
<1>3. Last(new) = IF s.blocks = <<>> THEN b ELSE Last(s.blocks)
  BY <1>1, <1>2, EmptySeq, LenProperties DEF Last
<1>4. new # <<>>
  BY <1>1, <1>2, EmptySeq, LenProperties
<1> QED BY <1>1, <1>2, <1>3, <1>4 DEF Push, Segments, Sound

\* So does the pop of memx_heap_allocate_small.
LEMMA PopSound ==
    ASSUME NEW s \in Segments, Sound(s), s.blocks # <<>>
    PROVE  /\ Head(s.blocks) \in Blocks
           /\ Pop(s) \in Segments
           /\ Sound(Pop(s))
           /\ s.count >= 1
           /\ Pop(s).count = s.count - 1
<1>1. s.blocks \in Seq(Blocks) /\ s.count \in Nat /\ s.tail \in Blocks \cup {NoBlock}
  BY DEF Segments
<1>2. PICK rest : rest = Tail(s.blocks)
  OBVIOUS
<1>3. /\ Head(s.blocks) \in Blocks
      /\ rest \in Seq(Blocks)
      /\ Len(rest) = Len(s.blocks) - 1
      /\ \A i \in 1 .. Len(rest) : rest[i] = s.blocks[i + 1]
  BY <1>1, <1>2, HeadTailProperties
<1>4. Len(s.blocks) \in Nat /\ Len(s.blocks) >= 1
  BY <1>1, EmptySeq, LenProperties
<1>a. Len(rest) \in Nat
  BY <1>3, LenProperties
<1>5. Len(s.blocks) = 1 <=> rest = <<>>
  <2>1. Len(rest) = 0 <=> rest = <<>>
    BY <1>3, <1>a, EmptySeq
  <2> QED BY <1>3, <1>4, <1>a, <2>1
<1>b. Len(rest) + 1 = Len(s.blocks)
  BY <1>3, <1>4
<1>6. Len(s.blocks) # 1 => Last(rest) = Last(s.blocks)
  <2>1. CASE Len(rest) = 0
    BY <1>b, <2>1
  <2>2. CASE Len(rest) # 0
    <3>1. Len(rest) \in 1 .. Len(rest)
      BY <1>a, <2>2
    <3> QED BY <1>3, <1>b, <3>1 DEF Last
  <2> QED BY <2>1, <2>2
<1> QED BY <1>1, <1>2, <1>3, <1>4, <1>5, <1>6 DEF Pop, Segments, Sound

\* Cutting a sound list at its tail removes nothing.
LEMMA CutSound ==
    ASSUME NEW s \in Segments, Sound(s), s.blocks # <<>>
    PROVE  CutAt(s) = s
<1> DEFINE ends == {i \in DOMAIN s.blocks : s.blocks[i] = s.tail}
           n == Len(s.blocks)
<1>1. s.blocks \in Seq(Blocks) /\ n \in Nat /\ n >= 1 /\ DOMAIN s.blocks = 1 .. n
  BY EmptySeq, LenProperties DEF Segments
<1>2. n \in ends
  BY <1>1 DEF Sound, Last
<1>3. \A j \in ends : j <= n
  BY <1>1
<1>4. (CHOOSE i \in ends : \A j \in ends : j <= i) = n
  <2>1. \E i \in ends : \A j \in ends : j <= i
    BY <1>2, <1>3
  <2>2. PICK m : m = CHOOSE i \in ends : \A j \in ends : j <= i
    OBVIOUS
  <2>3. m \in ends /\ \A j \in ends : j <= m
    BY <2>1, <2>2
  <2> QED BY <1>1, <1>2, <1>3, <2>2, <2>3
<1>5. SubSeq(s.blocks, 1, n) = s.blocks
  BY <1>1, SubSeqFull
<1> QED BY <1>2, <1>4, <1>5 DEF CutAt, Segments

\* A block pushed alone to the central bin is a sound chunk.
LEMMA SingleSound ==
    ASSUME NEW b \in Blocks
    PROVE  Single(b) \in Segments /\ Sound(Single(b)) /\ Single(b).count = 1
BY DEF Single, Segments, Sound, Last

-----------------------------------------------------------------------------
(***************************************************************************)
(* Chunks and bins.                                                         *)
(***************************************************************************)

\* What a chunk in a central bin, and hence a refilled segment, satisfies.
GoodChunk(chunk) ==
    /\ chunk \in Segments
    /\ Sound(chunk)
    /\ chunk.count >= 1
    /\ chunk.count <= CountMax
    /\ chunk.count <= CacheLimit

GoodBin(bin) ==
    /\ bin \in Seq(Segments)
    /\ \A i \in 1 .. Len(bin) : GoodChunk(bin[i])

\* Pushing good chunks on a good bin gives a good bin.
LEMMA PushBin ==
    ASSUME NEW bin, GoodBin(bin), NEW chunks, GoodBin(chunks)
    PROVE  GoodBin(Reverse(chunks) \o bin)
<1> DEFINE n == Len(chunks)
           turned == Reverse(chunks)
<1>1. n \in Nat /\ chunks \in [1 .. n -> Segments]
  BY LenProperties DEF GoodBin
<1>2. /\ turned = [i \in 1 .. n |-> chunks[(n - i) + 1]]
      /\ turned \in [1 .. n -> Segments]
      /\ \A i \in 1 .. n : turned[i] = chunks[(n - i) + 1]
  BY <1>1 DEF Reverse
<1>3. turned \in Seq(Segments) /\ Len(turned) = n
  <2>1. turned \in Seq(Segments)
    BY <1>1, <1>2, IsASeq
  <2>2. DOMAIN turned = 1 .. n /\ DOMAIN turned = 1 .. Len(turned)
    BY <1>2, <2>1, LenProperties
  <2> QED BY <1>1, <2>1, <2>2, LenProperties
<1>4. \A i \in 1 .. n : GoodChunk(turned[i])
  BY <1>1, <1>2 DEF GoodBin
<1>5. PICK all : all = turned \o bin
  OBVIOUS
<1>6. /\ all \in Seq(Segments)
      /\ Len(all) = n + Len(bin)
      /\ Len(bin) \in Nat
      /\ \A i \in 1 .. n + Len(bin) :
            all[i] = IF i <= n THEN turned[i] ELSE bin[i - n]
  <2>1. bin \in Seq(Segments) /\ Len(bin) \in Nat
    BY LenProperties DEF GoodBin
  <2>2. PICK first : first = turned
    OBVIOUS
  <2>3. first \in Seq(Segments) /\ Len(first) = n
    BY <1>3, <2>2
  <2>4. /\ first \o bin \in Seq(Segments)
        /\ Len(first \o bin) = Len(first) + Len(bin)
        /\ \A i \in 1 .. Len(first) + Len(bin) : (first \o bin)[i] =
                IF i <= Len(first) THEN first[i] ELSE bin[i - Len(first)]
    BY <2>1, <2>3, ConcatProperties
  <2> QED BY <1>5, <2>1, <2>2, <2>3, <2>4
<1>7. ASSUME NEW i \in 1 .. Len(all) PROVE GoodChunk(all[i])
  <2>1. CASE i <= n
    BY <1>1, <1>4, <1>6, <2>1
  <2>2. CASE ~(i <= n)
    <3>1. i - n \in 1 .. Len(bin)
      BY <1>1, <1>6, <2>2
    <3> QED BY <1>6, <2>2, <3>1 DEF GoodBin
  <2> QED BY <2>1, <2>2
<1> QED BY <1>5, <1>6, <1>7 DEF GoodBin

\* One good chunk makes a good bin.
LEMMA OneChunkBin ==
    ASSUME NEW chunk, GoodChunk(chunk)
    PROVE  GoodBin(<<chunk>>)
BY DEF GoodBin, GoodChunk

\* Blocks returned one by one by a detach are good chunks.
LEMMA SinglesBin ==
    ASSUME NEW blocks \in Seq(Blocks)
    PROVE  GoodBin(Singles(blocks))
<1> DEFINE n == Len(blocks)
<1>1. n \in Nat /\ DOMAIN blocks = 1 .. n /\ \A i \in 1 .. n : blocks[i] \in Blocks
  BY LenProperties
<1>2. \A i \in 1 .. n : GoodChunk(Single(blocks[i]))
  BY <1>1, SingleSound, HeapAssumption DEF GoodChunk
<1>3. PICK all : all = Singles(blocks)
  OBVIOUS
<1>4. /\ all \in [1 .. n -> Segments]
      /\ \A i \in 1 .. n : all[i] = Single(blocks[i])
  BY <1>1, <1>2, <1>3 DEF Singles, GoodChunk
<1>5. all \in Seq(Segments) /\ Len(all) = n
  <2>1. all \in Seq(Segments)
    BY <1>1, <1>4, IsASeq
  <2>2. DOMAIN all = 1 .. n /\ DOMAIN all = 1 .. Len(all)
    BY <1>4, <2>1, LenProperties
  <2> QED BY <1>1, <2>1, <2>2, LenProperties
<1> QED BY <1>2, <1>3, <1>4, <1>5 DEF GoodBin

\* The top chunk of a good bin is good, and so is the rest.
LEMMA PopBin ==
    ASSUME NEW bin, GoodBin(bin), bin # <<>>
    PROVE  GoodChunk(Head(bin)) /\ GoodBin(Tail(bin))
<1>1. bin \in Seq(Segments) /\ Len(bin) \in Nat /\ Len(bin) >= 1
  BY EmptySeq, LenProperties DEF GoodBin
<1>2. Head(bin) = bin[1]
  BY <1>1, HeadTailProperties
<1>3. PICK rest : rest = Tail(bin)
  OBVIOUS
<1>4. /\ rest \in Seq(Segments)
      /\ Len(rest) = Len(bin) - 1
      /\ \A i \in 1 .. Len(rest) : rest[i] = bin[i + 1]
  BY <1>1, <1>3, HeadTailProperties
<1>5. Len(rest) \in Nat /\ Len(rest) + 1 = Len(bin)
  BY <1>1, <1>4, LenProperties
<1>6. ASSUME NEW i \in 1 .. Len(rest) PROVE GoodChunk(rest[i])
  <2>1. i + 1 \in 1 .. Len(bin)
    BY <1>5
  <2> QED BY <1>4, <2>1 DEF GoodBin
<1>7. 1 \in 1 .. Len(bin)
  BY <1>1
<1> QED BY <1>2, <1>3, <1>4, <1>6, <1>7 DEF GoodBin

-----------------------------------------------------------------------------
(***************************************************************************)
(* Arithmetic of spans.                                                     *)
(***************************************************************************)
\* Multiplication by a natural number is monotone.
LEMMA ProductMonotone ==
    ASSUME NEW a \in Nat, NEW b \in Nat, NEW n \in Nat, a <= b
    PROVE  a * n \in Nat /\ a * n <= b * n
<1>1. PICK d \in Nat : b = a + d
  BY b - a \in Nat
<1>2. b * n = a * n + d * n
  BY <1>1
<1>3. a * n \in Nat /\ d * n \in Nat
  OBVIOUS
<1> QED BY <1>2, <1>3

\* What integer division promises.
LEMMA DivisionBounds ==
    ASSUME NEW a \in Nat, NEW n \in Nat \ {0}
    PROVE  /\ a \div n \in Nat
           /\ (a \div n) * n <= a
           /\ a < (a \div n) * n + n
OBVIOUS

\* A number below m * n is in one of the first m rows of n.
LEMMA DivisionLess ==
    ASSUME NEW a \in Nat, NEW n \in Nat \ {0}, NEW m \in Nat, a < m * n
    PROVE  a \div n < m
<1>1. SUFFICES ASSUME m <= a \div n PROVE FALSE
  BY DivisionBounds
<1>2. m * n <= (a \div n) * n
  BY <1>1, DivisionBounds, ProductMonotone
<1>3. m * n \in Nat /\ (a \div n) * n \in Nat
  BY DivisionBounds
<1> QED BY <1>2, <1>3, DivisionBounds

\* The blocks of a span are blocks of the arena.
LEMMA BlockRange ==
    ASSUME NEW span \in Spans, NEW x \in Nat, x < BlocksPerSpan
    PROVE  BlockOf(span, x) \in Blocks
<1>1. span \in Nat /\ span + 1 <= SpanCapacity /\ BlocksPerSpan \in Nat
      /\ SpanCapacity \in Nat
  BY HeapAssumption DEF Spans
<1>2. (span + 1) * BlocksPerSpan <= SpanCapacity * BlocksPerSpan
  BY <1>1, ProductMonotone
<1>3. (span + 1) * BlocksPerSpan = span * BlocksPerSpan + BlocksPerSpan
  BY <1>1
<1>4. span * BlocksPerSpan \in Nat /\ SpanCapacity * BlocksPerSpan \in Nat
  BY <1>1
<1> QED BY <1>1, <1>2, <1>3, <1>4 DEF BlockOf, Blocks

\* Every block of the arena lies in a span.
LEMMA SpanRange ==
    ASSUME NEW b \in Blocks
    PROVE  SpanOf(b) \in Spans
<1>1. b \in Nat /\ b < SpanCapacity * BlocksPerSpan
  BY HeapAssumption DEF Blocks
<1>2. SpanOf(b) \in Nat /\ SpanOf(b) < SpanCapacity
  BY <1>1, HeapAssumption, DivisionBounds, DivisionLess DEF SpanOf
<1> QED BY <1>2, HeapAssumption DEF Spans

\* A carved chunk fits the cache and the 32-bit count of its header.
LEMMA ChunkLimitBounds ==
    /\ ChunkLimit \in Nat /\ ChunkLimit >= 1
    /\ ChunkLimit <= CountMax /\ ChunkLimit <= CacheLimit
BY HeapAssumption DEF ChunkLimit

\* The chunks memx_heap_create_span_locked carves are good.
LEMMA CarvedBin ==
    ASSUME NEW span \in Spans
    PROVE  GoodBin(CarvedChunks(span))
<1> DEFINE L == ChunkLimit
           B == BlocksPerSpan
           N == (B + L - 1) \div L
<1>1. L \in Nat /\ L >= 1 /\ B \in Nat /\ B >= 1 /\ B + L - 1 \in Nat
  BY HeapAssumption, ChunkLimitBounds
<1>2. N \in Nat /\ N * L <= B + L - 1
  BY <1>1, DivisionBounds
<1>3. ASSUME NEW j \in 1 .. N PROVE GoodChunk(CarvedChunk(span, j))
  <2> DEFINE lo == (j - 1) * L
             hi == IF j * L < B THEN j * L ELSE B
             chunk == CarvedChunk(span, j)
  <2>1. j - 1 \in Nat /\ j \in Nat /\ j <= N
    BY <1>2
  <2>2. lo \in Nat /\ j * L = lo + L
    BY <1>1, <2>1
  <2>3. j * L <= N * L
    BY <1>1, <1>2, <2>1, ProductMonotone
  <2>4. lo < B
    BY <1>1, <1>2, <2>2, <2>3
  <2>5. hi \in Nat /\ lo < hi /\ hi <= B /\ hi - lo <= L
    BY <1>1, <2>2, <2>4
  <2>6. PICK m \in Nat : m = hi - lo /\ m >= 1 /\ m <= L
    BY <1>1, <2>2, <2>5
  <2>7. chunk = [blocks |-> [i \in 1 .. m |-> BlockOf(span, hi - i)],
                 tail |-> BlockOf(span, lo),
                 count |-> m]
    BY <2>6 DEF CarvedChunk
  <2>8. \A i \in 1 .. m : BlockOf(span, hi - i) \in Blocks
    BY <1>1, <2>2, <2>5, <2>6, BlockRange
  <2>9. BlockOf(span, lo) \in Blocks
    BY <2>2, <2>4, BlockRange
  <2>10. PICK list : list = [i \in 1 .. m |-> BlockOf(span, hi - i)]
    OBVIOUS
  <2>11. list \in Seq(Blocks) /\ Len(list) = m /\ list[m] = BlockOf(span, hi - m)
    BY <2>6, <2>8, <2>10
  <2>12. hi - m = lo
    BY <2>2, <2>5, <2>6
  <2>13. list # <<>> /\ Last(list) = BlockOf(span, lo)
    BY <2>6, <2>11, <2>12, EmptySeq DEF Last
  <2> HIDE DEF lo, hi, chunk
  <2>14. chunk = [blocks |-> list, tail |-> BlockOf(span, lo), count |-> m]
    BY <2>7, <2>10
  <2>15. chunk \in Segments /\ Sound(chunk)
    BY <2>6, <2>9, <2>11, <2>13, <2>14 DEF Segments, Sound
  <2>16. chunk.count = m
    BY <2>14
  <2> QED BY <2>6, <2>15, <2>16, ChunkLimitBounds, HeapAssumption DEF GoodChunk, chunk
<1>4. CarvedChunks(span) = [j \in 1 .. N |-> CarvedChunk(span, j)]
  BY DEF CarvedChunks
<1> HIDE DEF N
<1>5. PICK all : all = CarvedChunks(span)
  OBVIOUS
<1>6. all \in Seq(Segments) /\ Len(all) = N
      /\ \A j \in 1 .. N : all[j] = CarvedChunk(span, j)
  BY <1>2, <1>3, <1>4, <1>5 DEF GoodChunk
<1> QED BY <1>3, <1>5, <1>6 DEF GoodBin

-----------------------------------------------------------------------------
(***************************************************************************)
(* The inductive invariant.                                                 *)
(***************************************************************************)
Refilling == {"lock", "locked", "claim", "carve", "failed"}

\* A cache belongs to one thread, through its TLS or while it detaches it.
OwnershipInv ==
    /\ \A t, u \in Threads : tls[t] # NoCache /\ tls[t] = tls[u] => t = u
    /\ \A t \in Threads : tls[t] # NoCache => tls[t] \in caches
    /\ \A t \in Threads : pc[t] = "detach" =>
            /\ to[t] \in caches
            /\ \A u \in Threads : tls[u] # to[t]
    /\ \A t, u \in Threads :
            pc[t] = "detach" /\ pc[u] = "detach" /\ to[t] = to[u] => t = u
    /\ \A k \in Caches : accepting_remote[k] => \E t \in Threads : tls[t] = k

\* The locals of a thread are what its location needs.
FrameInv ==
    /\ \A t \in Threads :
            pc[t] \in {"pop", "drain"} \cup Refilling => tls[t] # NoCache
    /\ \A t \in Threads :
            pc[t] \in {"carve", "cas", "route", "remote", "central"} =>
                blk[t] \in Blocks
    /\ \A t \in Threads : pc[t] = "remote" => to[t] \in Caches

CentralInv == \A c \in Classes : GoodBin(central[c])

\* The two segments of a cache that nobody is detaching.
GoodPair(hot, cold) ==
    /\ Sound(hot) /\ Sound(cold)
    /\ hot.count + cold.count <= CacheLimit
    /\ hot.count <= CountMax /\ cold.count <= CountMax

CacheInv ==
    \A k \in Caches, c \in Classes :
        ~Detaching(k) => GoodPair(local[k][c], spare[k][c])

\* Except just before the pop, the hot segment has room for one more block.
RoomInv ==
    \A t \in Threads, c \in Classes :
        (tls[t] # NoCache /\ ~(pc[t] = "pop" /\ cls[t] = c)) =>
            /\ local[tls[t]][c].count < CacheLimit
            /\ local[tls[t]][c].count < CountMax

\* A thread asks the central bin only when both segments are empty.
RefillInv ==
    \A t \in Threads : pc[t] \in Refilling =>
        /\ local[tls[t]][cls[t]].count = 0
        /\ spare[tls[t]][cls[t]].count = 0

Emptied(k, c) == local[k][c] = EmptySegment /\ spare[k][c] = EmptySegment

\* The classes a detach has passed are empty.
DetachInv ==
    \A t \in Threads : pc[t] = "detach" =>
        \A c \in Classes : c < cls[t] => Emptied(to[t], c)

\* So are all classes of a cache that no thread has.
AbandonedInv ==
    \A k \in Caches : (\A t \in Threads : tls[t] # k) =>
        \A c \in Classes :
            /\ remote[k][c] = <<>>
            /\ ~Detaching(k) => Emptied(k, c)

HeapInv ==
    /\ VariablesTyped
    /\ OwnershipInv
    /\ FrameInv
    /\ CentralInv
    /\ CacheInv
    /\ RoomInv
    /\ RefillInv
    /\ DetachInv
    /\ AbandonedInv

\* The invariant holds of a new heap.
LEMMA HeapInvInit == Init => HeapInv
<1> SUFFICES ASSUME Init PROVE HeapInv
  OBVIOUS
<1> USE HeapAssumption
<1>1. EmptySegment \in Segments /\ Sound(EmptySegment) /\ EmptySegment.count = 0
  BY EmptySegmentSound DEF EmptySegment
<1>2. GoodBin(<<>>)
  BY EmptySeq DEF GoodBin
<1>3. VariablesTyped
  BY <1>1, EmptySeq DEF Init, VariablesTyped, Classes, Spans, Locations
<1>4. OwnershipInv /\ FrameInv
  BY DEF Init, OwnershipInv, FrameInv, Refilling
<1>5. CentralInv
  BY <1>2 DEF Init, CentralInv
<1>6. CacheInv
  BY <1>1 DEF Init, CacheInv, GoodPair
<1>7. RoomInv /\ RefillInv /\ DetachInv /\ AbandonedInv
  BY <1>1 DEF Init, RoomInv, RefillInv, DetachInv, AbandonedInv, Refilling, Emptied
<1> QED BY <1>3, <1>4, <1>5, <1>6, <1>7 DEF HeapInv

-----------------------------------------------------------------------------
(***************************************************************************)
(* Facts the steps share.                                                   *)
(***************************************************************************)

\* A step that touches no list of a cache and no detach in progress keeps what
\* is known of detached and detaching caches.
LEMMA DetachFrame ==
    ASSUME DetachInv, AbandonedInv,
           UNCHANGED <<tls, local, spare, remote>>,
           \A u \in Threads : pc'[u] = "detach" <=> pc[u] = "detach",
           \A u \in Threads : pc[u] = "detach" => to'[u] = to[u] /\ cls'[u] = cls[u]
    PROVE  DetachInv' /\ AbandonedInv'
<1>1. DetachInv'
  BY DEF DetachInv, Emptied
<1>2. ASSUME NEW k \in Caches PROVE Detaching(k) => Detaching(k)'
  BY DEF Detaching
<1>3. AbandonedInv'
  BY <1>2 DEF AbandonedInv, Emptied
<1> QED BY <1>1, <1>3

\* A thread's own cache is not being detached, so its segments are sound.
LEMMA OwnedCache ==
    ASSUME HeapInv, NEW t \in Threads, tls[t] # NoCache, NEW c \in Classes
    PROVE  /\ tls[t] \in Caches
           /\ ~Detaching(tls[t])
           /\ local[tls[t]][c] \in Segments /\ spare[tls[t]][c] \in Segments
           /\ GoodPair(local[tls[t]][c], spare[tls[t]][c])
<1>1. tls[t] \in Caches
  BY DEF HeapInv, VariablesTyped
<1>2. ~Detaching(tls[t])
  BY DEF HeapInv, OwnershipInv, Detaching
<1> QED BY <1>1, <1>2 DEF HeapInv, VariablesTyped, CacheInv

\* memx_heap_push_central_chunk_locked keeps the bins good.
LEMMA CentralPush ==
    ASSUME VariablesTyped, CentralInv, NEW c \in Classes, NEW chunks, GoodBin(chunks),
           NEW count \in Int, memx_heap_push_central_chunks(c, chunks, count)
    PROVE  /\ central' \in [Classes -> Seq(Segments)]
           /\ central_count' \in [Classes -> Int]
           /\ CentralInv'
<1>1. GoodBin(central[c])
  BY DEF CentralInv
<1>2. PICK bin : bin = Reverse(chunks) \o central[c]
  OBVIOUS
<1>3. GoodBin(bin)
  BY <1>1, <1>2, PushBin
<1>4. central' = [central EXCEPT ![c] = bin]
  BY <1>2 DEF memx_heap_push_central_chunks
<1>5. central' \in [Classes -> Seq(Segments)] /\ CentralInv'
  BY <1>3, <1>4 DEF VariablesTyped, CentralInv, GoodBin
<1>6. central_count' \in [Classes -> Int]
  BY DEF VariablesTyped, memx_heap_push_central_chunks
<1> QED BY <1>5, <1>6

\* Pushing a block and trimming keeps the pair of segments good and leaves
\* room for another block.
LEMMA PushAndTrimGood ==
    ASSUME VariablesTyped, CentralInv,
           NEW k \in Caches, NEW c \in Classes, NEW b \in Blocks,
           GoodPair(local[k][c], spare[k][c]),
           local[k][c].count < CacheLimit, local[k][c].count < CountMax,
           PushAndTrim(k, c, b)
    PROVE  /\ local' \in [Caches -> [Classes -> Segments]]
           /\ spare' \in [Caches -> [Classes -> Segments]]
           /\ central' \in [Classes -> Seq(Segments)]
           /\ central_count' \in [Classes -> Int]
           /\ CentralInv'
           /\ \A j \in Caches, d \in Classes : j # k \/ d # c =>
                    local'[j][d] = local[j][d] /\ spare'[j][d] = spare[j][d]
           /\ GoodPair(local'[k][c], spare'[k][c])
           /\ local'[k][c].count < CacheLimit /\ local'[k][c].count < CountMax
<1> USE HeapAssumption
<1>1. PICK hot : hot = Push(local[k][c], b)
  OBVIOUS
<1>2. PICK cold : cold = spare[k][c]
  OBVIOUS
<1>3. local[k][c] \in Segments /\ cold \in Segments
  BY <1>2 DEF VariablesTyped
<1>4. hot \in Segments /\ Sound(hot) /\ hot.count = local[k][c].count + 1
  BY <1>1, <1>3, PushSound DEF GoodPair
<1>5. /\ hot.count \in Nat /\ cold.count \in Nat /\ local[k][c].count \in Nat
      /\ hot.count <= CacheLimit /\ hot.count <= CountMax
      /\ Sound(cold) /\ cold.count <= CountMax /\ cold.count <= CacheLimit
  BY SMTT(30), <1>2, <1>3, <1>4 DEF Segments, GoodPair
<1>6. EmptySegment \in Segments /\ Sound(EmptySegment) /\ EmptySegment.count = 0
  BY EmptySegmentSound DEF EmptySegment
<1>7. CASE memx_heap_trim_needed(hot, cold)
  <2>1. /\ spare' = [spare EXCEPT ![k][c] = hot]
        /\ local' = [local EXCEPT ![k][c] = EmptySegment]
    BY <1>1, <1>2, <1>7 DEF PushAndTrim
  <2>2. /\ local' \in [Caches -> [Classes -> Segments]]
        /\ spare' \in [Caches -> [Classes -> Segments]]
        /\ \A j \in Caches, d \in Classes : j # k \/ d # c =>
                local'[j][d] = local[j][d] /\ spare'[j][d] = spare[j][d]
        /\ local'[k][c] = EmptySegment /\ spare'[k][c] = hot
    BY <1>4, <1>6, <2>1 DEF VariablesTyped
  <2>3. /\ central' \in [Classes -> Seq(Segments)]
        /\ central_count' \in [Classes -> Int]
        /\ CentralInv'
    <3>1. CASE FlushesSpare(cold)
      <4>1. memx_heap_push_central_chunks(c, <<CutAt(cold)>>, cold.count)
        BY <1>1, <1>2, <1>7, <3>1 DEF PushAndTrim
      <4>2. CutAt(cold) = cold /\ GoodChunk(cold)
        BY <1>3, <1>5, <3>1, CutSound DEF FlushesSpare, GoodChunk
      <4>3. GoodBin(<<CutAt(cold)>>)
        BY <4>2, OneChunkBin
      <4> QED BY <1>5, <4>1, <4>3, CentralPush
    <3>2. CASE ~FlushesSpare(cold)
      <4>1. UNCHANGED <<central, central_count>>
        BY <1>1, <1>2, <1>7, <3>2 DEF PushAndTrim, bins
      <4> QED BY <4>1 DEF VariablesTyped, CentralInv
    <3> QED BY <3>1, <3>2
  <2> QED BY <1>4, <1>5, <1>6, <2>2, <2>3 DEF GoodPair
<1>8. CASE ~memx_heap_trim_needed(hot, cold)
  <2>1. /\ local' = [local EXCEPT ![k][c] = hot]
        /\ UNCHANGED <<spare, central, central_count>>
    BY <1>1, <1>2, <1>8 DEF PushAndTrim, bins
  <2>2. /\ local' \in [Caches -> [Classes -> Segments]]
        /\ \A j \in Caches, d \in Classes : j # k \/ d # c =>
                local'[j][d] = local[j][d]
        /\ local'[k][c] = hot
    BY <1>4, <2>1 DEF VariablesTyped
  <2>3. /\ hot.count < CacheLimit \div 2
        /\ hot.count < CountMax
        /\ cold.count <= CacheLimit - hot.count
    BY <1>5, <1>8 DEF memx_heap_trim_needed
  <2>4. hot.count < CacheLimit /\ hot.count + cold.count <= CacheLimit
    BY <1>5, <2>3
  <2>5. GoodPair(local'[k][c], spare'[k][c])
    BY <1>2, <1>4, <1>5, <2>1, <2>2, <2>3, <2>4 DEF GoodPair
  <2> QED BY <2>1, <2>2, <2>3, <2>4, <2>5 DEF VariablesTyped, CentralInv
<1> QED BY <1>7, <1>8

\* A thread that changes only the segments of one class of its own cache, and
\* leaves them good with room for a block unless it is about to pop one, keeps
\* the parts of the invariant that speak of caches.
LEMMA OwnerUpdate ==
    ASSUME HeapInv, VariablesTyped', NEW t \in Threads, NEW c \in Classes,
           tls[t] # NoCache, UNCHANGED tls,
           pc[t] # "detach", pc'[t] # "detach", pc'[t] \notin Refilling,
           pc[t] = "pop" => cls[t] = c,
           \A u \in Threads : u # t =>
                pc'[u] = pc[u] /\ cls'[u] = cls[u] /\ to'[u] = to[u],
           \A j \in Caches, d \in Classes : j # tls[t] \/ d # c =>
                local'[j][d] = local[j][d] /\ spare'[j][d] = spare[j][d],
           \A j \in Caches, d \in Classes : j # tls[t] \/ d # c =>
                remote'[j][d] = remote[j][d],
           GoodPair(local'[tls[t]][c], spare'[tls[t]][c]),
           \/ pc'[t] = "pop" /\ cls'[t] = c
           \/ /\ local'[tls[t]][c].count < CacheLimit
              /\ local'[tls[t]][c].count < CountMax
    PROVE  CacheInv' /\ RoomInv' /\ RefillInv' /\ DetachInv' /\ AbandonedInv'
<1>1. tls[t] \in Caches /\ ~Detaching(tls[t])
  BY OwnedCache
<1>2. \A k \in Caches : Detaching(k)' <=> Detaching(k)
  BY DEF Detaching
<1>3. CacheInv'
  BY <1>1, <1>2 DEF HeapInv, CacheInv
<1>4. \A u \in Threads : u # t /\ tls[u] # NoCache => tls[u] \in Caches /\ tls[u] # tls[t]
  BY DEF HeapInv, VariablesTyped, OwnershipInv
<1>5. RoomInv'
  <2> SUFFICES ASSUME NEW u \in Threads, NEW d \in Classes,
                      tls[u] # NoCache, ~(pc'[u] = "pop" /\ cls'[u] = d)
               PROVE  /\ local'[tls[u]][d].count < CacheLimit
                      /\ local'[tls[u]][d].count < CountMax
    BY DEF RoomInv
  <2>1. CASE u # t
    BY <1>4, <2>1 DEF HeapInv, RoomInv
  <2>2. CASE u = t /\ d # c
    BY <1>1, <2>2 DEF HeapInv, RoomInv
  <2>3. CASE u = t /\ d = c
    BY <2>3
  <2> QED BY <2>1, <2>2, <2>3
<1>6. RefillInv'
  <2> SUFFICES ASSUME NEW u \in Threads, pc'[u] \in Refilling
               PROVE  /\ local'[tls[u]][cls'[u]].count = 0
                      /\ spare'[tls[u]][cls'[u]].count = 0
    BY DEF RefillInv
  <2>1. u # t /\ pc[u] \in Refilling /\ cls'[u] = cls[u] /\ cls[u] \in Classes
    BY DEF HeapInv, VariablesTyped
  <2>2. tls[u] \in Caches /\ tls[u] # tls[t]
    BY <1>4, <2>1 DEF HeapInv, FrameInv
  <2> QED BY <2>1, <2>2 DEF HeapInv, RefillInv
<1>7. DetachInv'
  <2> SUFFICES ASSUME NEW u \in Threads, pc'[u] = "detach",
                      NEW d \in Classes, d < cls'[u]
               PROVE  Emptied(to[u], d)' /\ to'[u] = to[u]
    BY DEF DetachInv, Emptied
  <2>1. u # t /\ pc[u] = "detach" /\ cls'[u] = cls[u] /\ to'[u] = to[u]
    OBVIOUS
  <2>2. to[u] \in Caches /\ to[u] # tls[t]
    BY <2>1 DEF HeapInv, VariablesTyped, OwnershipInv
  <2> QED BY <2>1, <2>2 DEF HeapInv, DetachInv, Emptied
<1>8. AbandonedInv'
  BY <1>2 DEF HeapInv, AbandonedInv, Emptied
<1> QED BY <1>3, <1>5, <1>6, <1>7, <1>8

\* A return leaves the locals typed.
LEMMA DoneTypes ==
    ASSUME VariablesTyped, NEW t \in Threads, Done(t)
    PROVE  /\ pc' \in [Threads -> Locations]
           /\ cls' \in [Threads -> Classes]
           /\ blk' \in [Threads -> Blocks \cup {NoBlock}]
           /\ to' \in [Threads -> Caches \cup {NoCache}]
           /\ pending' \in [Threads -> Seq(Blocks)]
           /\ pc'[t] = "idle"
           /\ \A u \in Threads : u # t =>
                /\ pc'[u] = pc[u] /\ cls'[u] = cls[u] /\ blk'[u] = blk[u]
                /\ to'[u] = to[u]
<1>1. <<>> \in Seq(Blocks)
  OBVIOUS
<1>2. 0 \in Classes
  BY HeapAssumption DEF Classes
<1>3. pending' \in [Threads -> Seq(Blocks)]
  BY <1>1 DEF VariablesTyped, Done
<1>4. cls' \in [Threads -> Classes]
  BY <1>2 DEF VariablesTyped, Done
<1> QED BY <1>3, <1>4 DEF VariablesTyped, Done, Locations

-----------------------------------------------------------------------------
(***************************************************************************)
(* Every action keeps the invariant.  First the ones that touch no list.    *)
(***************************************************************************)

\* A call of malloc starts.
LEMMA MallocStep ==
    ASSUME HeapInv, NEW t \in Threads, NEW c \in Classes, Malloc(t, c)
    PROVE  HeapInv'
<1> USE HeapAssumption DEF HeapInv, Malloc, Goto,
      shared, lists, bins, arena, headers, locks
<1>1. VariablesTyped'
  BY DEF VariablesTyped, Locations, Classes, Spans
<1>2. OwnershipInv' /\ FrameInv'
  BY DEF VariablesTyped, OwnershipInv, FrameInv, Refilling
<1>3. CentralInv' /\ CacheInv'
  BY DEF VariablesTyped, CentralInv, CacheInv, Detaching
<1>4. RoomInv' /\ RefillInv'
  BY DEF VariablesTyped, FrameInv, RoomInv, RefillInv, Refilling
<1>5. DetachInv' /\ AbandonedInv'
  <2>1. /\ UNCHANGED <<tls, local, spare, remote>>
        /\ \A u \in Threads : pc'[u] = "detach" <=> pc[u] = "detach"
        /\ \A u \in Threads :
              pc[u] = "detach" => to'[u] = to[u] /\ cls'[u] = cls[u]
    BY DEF VariablesTyped
  <2> QED BY <2>1, DetachFrame
<1> QED BY <1>1, <1>2, <1>3, <1>4, <1>5

\* The class lock is taken for a refill.
LEMMA LockClassStep ==
    ASSUME HeapInv, NEW t \in Threads, LockClass(t)
    PROVE  HeapInv'
<1> USE HeapAssumption DEF HeapInv, LockClass, Goto,
      shared, lists, bins, arena, headers, locks
<1>1. VariablesTyped'
  BY DEF VariablesTyped, Locations, Classes, Spans
<1>2. OwnershipInv' /\ FrameInv'
  BY DEF VariablesTyped, OwnershipInv, FrameInv, Refilling
<1>3. CentralInv' /\ CacheInv'
  BY DEF VariablesTyped, CentralInv, CacheInv, Detaching
<1>4. RoomInv' /\ RefillInv'
  BY DEF VariablesTyped, FrameInv, RoomInv, RefillInv, Refilling
<1>5. DetachInv' /\ AbandonedInv'
  <2>1. /\ UNCHANGED <<tls, local, spare, remote>>
        /\ \A u \in Threads : pc'[u] = "detach" <=> pc[u] = "detach"
        /\ \A u \in Threads :
              pc[u] = "detach" => to'[u] = to[u] /\ cls'[u] = cls[u]
    BY DEF VariablesTyped
  <2> QED BY <2>1, DetachFrame
<1> QED BY <1>1, <1>2, <1>3, <1>4, <1>5

\* arena_lock is taken inside the class lock.
LEMMA LockArenaStep ==
    ASSUME HeapInv, NEW t \in Threads, LockArena(t)
    PROVE  HeapInv'
<1> USE HeapAssumption DEF HeapInv, LockArena, Goto,
      shared, lists, bins, arena, headers, locks
<1>1. VariablesTyped'
  BY DEF VariablesTyped, Locations, Classes, Spans
<1>2. OwnershipInv' /\ FrameInv'
  BY DEF VariablesTyped, OwnershipInv, FrameInv, Refilling
<1>3. CentralInv' /\ CacheInv'
  BY DEF VariablesTyped, CentralInv, CacheInv, Detaching
<1>4. RoomInv' /\ RefillInv'
  BY DEF VariablesTyped, FrameInv, RoomInv, RefillInv, Refilling
<1>5. DetachInv' /\ AbandonedInv'
  <2>1. /\ UNCHANGED <<tls, local, spare, remote>>
        /\ \A u \in Threads : pc'[u] = "detach" <=> pc[u] = "detach"
        /\ \A u \in Threads :
              pc[u] = "detach" => to'[u] = to[u] /\ cls'[u] = cls[u]
    BY DEF VariablesTyped
  <2> QED BY <2>1, DetachFrame
<1> QED BY <1>1, <1>2, <1>3, <1>4, <1>5

\* The claim of a span fails.
LEMMA ClaimFailStep ==
    ASSUME HeapInv, NEW t \in Threads, ClaimFail(t)
    PROVE  HeapInv'
<1> USE HeapAssumption DEF HeapInv, ClaimFail, Goto,
      shared, lists, bins, arena, headers, locks
<1>1. VariablesTyped'
  BY DEF VariablesTyped, Locations, Classes, Spans
<1>2. OwnershipInv' /\ FrameInv'
  BY DEF VariablesTyped, OwnershipInv, FrameInv, Refilling
<1>3. CentralInv' /\ CacheInv'
  BY DEF VariablesTyped, CentralInv, CacheInv, Detaching
<1>4. RoomInv' /\ RefillInv'
  BY DEF VariablesTyped, FrameInv, RoomInv, RefillInv, Refilling
<1>5. DetachInv' /\ AbandonedInv'
  <2>1. /\ UNCHANGED <<tls, local, spare, remote>>
        /\ \A u \in Threads : pc'[u] = "detach" <=> pc[u] = "detach"
        /\ \A u \in Threads :
              pc[u] = "detach" => to'[u] = to[u] /\ cls'[u] = cls[u]
    BY DEF VariablesTyped
  <2> QED BY <2>1, DetachFrame
<1> QED BY <1>1, <1>2, <1>3, <1>4, <1>5

\* A trusted free gives the block up.
LEMMA FreeUncheckedStep ==
    ASSUME HeapInv, NEW t \in Threads, NEW b \in Blocks, FreeUnchecked(t, b)
    PROVE  HeapInv'
<1> USE HeapAssumption DEF HeapInv, FreeUnchecked, Goto,
      shared, lists, bins, arena, headers, locks
<1>1. VariablesTyped'
  BY SpanRange DEF VariablesTyped, Locations, Classes, Spans
<1>2. OwnershipInv' /\ FrameInv'
  BY DEF VariablesTyped, OwnershipInv, FrameInv, Refilling
<1>3. CentralInv' /\ CacheInv'
  BY DEF VariablesTyped, CentralInv, CacheInv, Detaching
<1>4. RoomInv' /\ RefillInv'
  BY DEF VariablesTyped, FrameInv, RoomInv, RefillInv, Refilling
<1>5. DetachInv' /\ AbandonedInv'
  <2>1. /\ UNCHANGED <<tls, local, spare, remote>>
        /\ \A u \in Threads : pc'[u] = "detach" <=> pc[u] = "detach"
        /\ \A u \in Threads :
              pc[u] = "detach" => to'[u] = to[u] /\ cls'[u] = cls[u]
    BY DEF VariablesTyped
  <2> QED BY <2>1, DetachFrame
<1> QED BY <1>1, <1>2, <1>3, <1>4, <1>5

\* A checked free finds the block.
LEMMA FreeLookupStep ==
    ASSUME HeapInv, NEW t \in Threads, NEW b \in Blocks, FreeLookup(t, b)
    PROVE  HeapInv'
<1> USE HeapAssumption DEF HeapInv, FreeLookup, Goto,
      shared, lists, bins, arena, headers, locks
<1>1. VariablesTyped'
  BY SpanRange DEF VariablesTyped, Locations, Classes, Spans
<1>2. OwnershipInv' /\ FrameInv'
  BY DEF VariablesTyped, OwnershipInv, FrameInv, Refilling
<1>3. CentralInv' /\ CacheInv'
  BY DEF VariablesTyped, CentralInv, CacheInv, Detaching
<1>4. RoomInv' /\ RefillInv'
  BY DEF VariablesTyped, FrameInv, RoomInv, RefillInv, Refilling
<1>5. DetachInv' /\ AbandonedInv'
  <2>1. /\ UNCHANGED <<tls, local, spare, remote>>
        /\ \A u \in Threads : pc'[u] = "detach" <=> pc[u] = "detach"
        /\ \A u \in Threads :
              pc[u] = "detach" => to'[u] = to[u] /\ cls'[u] = cls[u]
    BY DEF VariablesTyped
  <2> QED BY <2>1, DetachFrame
<1> QED BY <1>1, <1>2, <1>3, <1>4, <1>5

\* A block of another cache is on its way.
LEMMA RouteAwayStep ==
    ASSUME HeapInv, NEW t \in Threads, RouteAway(t)
    PROVE  HeapInv'
<1> USE HeapAssumption DEF HeapInv, RouteAway, Goto, RouteOwner,
      shared, lists, bins, arena, headers, locks
<1>1. VariablesTyped'
  BY DEF VariablesTyped, FrameInv, Locations, Classes, Spans
<1>2. OwnershipInv' /\ FrameInv'
  BY DEF VariablesTyped, OwnershipInv, FrameInv, Refilling
<1>3. CentralInv' /\ CacheInv'
  BY DEF VariablesTyped, CentralInv, CacheInv, Detaching
<1>4. RoomInv' /\ RefillInv'
  BY DEF VariablesTyped, FrameInv, RoomInv, RefillInv, Refilling
<1>5. DetachInv' /\ AbandonedInv'
  <2>1. /\ UNCHANGED <<tls, local, spare, remote>>
        /\ \A u \in Threads : pc'[u] = "detach" <=> pc[u] = "detach"
        /\ \A u \in Threads :
              pc[u] = "detach" => to'[u] = to[u] /\ cls'[u] = cls[u]
    BY DEF VariablesTyped
  <2> QED BY <2>1, DetachFrame
<1> QED BY <1>1, <1>2, <1>3, <1>4, <1>5

\* The record of a new cache was never used, so it is empty.
LEMMA MallocNewCacheStep ==
    ASSUME HeapInv, NEW t \in Threads, NEW c \in Classes, NEW k \in Caches, MallocNewCache(t, c, k)
    PROVE  HeapInv'
<1> USE HeapAssumption DEF HeapInv, MallocNewCache, Goto,
      shared, lists, bins, arena, headers, locks
<1>1. /\ \A u \in Threads : tls[u] # k
      /\ ~Detaching(k)
  BY SMTT(30) DEF VariablesTyped, OwnershipInv, Detaching
<1>2. \A d \in Classes : Emptied(k, d)
  BY <1>1 DEF AbandonedInv
<1>3. VariablesTyped'
  BY DEF VariablesTyped, Locations
<1>4. tls' = [tls EXCEPT ![t] = k] /\ k # NoCache
  OBVIOUS
<1>5. OwnershipInv' /\ FrameInv'
  <2>1. \A u \in Threads : tls'[u] = IF u = t THEN k ELSE tls[u]
    BY <1>4 DEF VariablesTyped
  <2>2. \A j \in Caches : accepting_remote'[j] => accepting_remote[j] \/ j = k
    BY DEF VariablesTyped
  <2>3. \A u \in Threads : pc'[u] = "detach" => pc[u] = "detach" /\ to[u] # k
    BY <1>1 DEF VariablesTyped, Detaching
  <2>4. \A j \in Caches : accepting_remote'[j] => \E u \in Threads : tls'[u] = j
    BY <2>1, <2>2 DEF OwnershipInv
  <2>5. OwnershipInv'
    BY SMTT(30), <1>1, <1>4, <2>1, <2>3, <2>4 DEF VariablesTyped, OwnershipInv
  <2>6. FrameInv'
    BY <1>4, <2>1 DEF VariablesTyped, FrameInv, Refilling
  <2> QED BY <2>5, <2>6
<1>6. CentralInv' /\ CacheInv'
  BY DEF VariablesTyped, CentralInv, CacheInv, Detaching
<1>7. RoomInv' /\ RefillInv'
  <2>1. \A d \in Classes : local[k][d].count = 0
    BY <1>2 DEF Emptied, EmptySegment
  <2>2. \A u \in Threads : tls'[u] = IF u = t THEN k ELSE tls[u]
    BY <1>4 DEF VariablesTyped
  <2>3. /\ pc'[t] = "pop"
        /\ \A u \in Threads : u # t => pc'[u] = pc[u] /\ cls'[u] = cls[u]
    BY DEF VariablesTyped
  <2>4. RoomInv'
    BY <2>1, <2>2, <2>3 DEF RoomInv
  <2>5. RefillInv'
    BY <2>2, <2>3 DEF RefillInv, Refilling
  <2> QED BY <2>4, <2>5
<1>8. DetachInv' /\ AbandonedInv'
  <2>1. DetachInv'
    BY DEF VariablesTyped, DetachInv, Emptied
  <2>2. \A j \in Caches : (\A u \in Threads : tls'[u] # j) =>
                            \A u \in Threads : tls[u] # j
    BY <1>4 DEF VariablesTyped
  <2>3. \A j \in Caches : Detaching(j)' <=> Detaching(j)
    BY DEF VariablesTyped, Detaching
  <2> QED BY <2>1, <2>2, <2>3 DEF AbandonedInv, Emptied
<1> QED BY <1>3, <1>5, <1>6, <1>7, <1>8

\* A span is claimed; its first block names it.
LEMMA ClaimSpanStep ==
    ASSUME HeapInv, NEW t \in Threads, ClaimSpan(t)
    PROVE  HeapInv'
<1> USE HeapAssumption DEF HeapInv, ClaimSpan, Goto,
      shared, lists, bins, arena, headers, locks
<1>1. next_span \in Spans /\ BlockOf(next_span, 0) \in Blocks
  BY BlockRange DEF VariablesTyped, Spans
<1>2. VariablesTyped'
  BY SMTT(30), <1>1 DEF VariablesTyped, Locations, Spans
<1>3. OwnershipInv' /\ FrameInv'
  <2>1. OwnershipInv'
    BY DEF VariablesTyped, OwnershipInv
  <2>2. FrameInv'
    BY <1>1 DEF VariablesTyped, FrameInv, Refilling
  <2> QED BY <2>1, <2>2
<1>4. CentralInv' /\ CacheInv'
  BY DEF VariablesTyped, CentralInv, CacheInv, Detaching
<1>5. RoomInv' /\ RefillInv'
  BY DEF VariablesTyped, FrameInv, RoomInv, RefillInv, Refilling
<1>6. DetachInv' /\ AbandonedInv'
  <2>1. /\ UNCHANGED <<tls, local, spare, remote>>
        /\ \A u \in Threads : pc'[u] = "detach" <=> pc[u] = "detach"
        /\ \A u \in Threads :
              pc[u] = "detach" => to'[u] = to[u] /\ cls'[u] = cls[u]
    BY DEF VariablesTyped
  <2> QED BY <2>1, DetachFrame
<1> QED BY <1>2, <1>3, <1>4, <1>5, <1>6

\* malloc returns NULL.
LEMMA RefillFailStep ==
    ASSUME HeapInv, NEW t \in Threads, RefillFail(t)
    PROVE  HeapInv'
<1> USE HeapAssumption DEF HeapInv, RefillFail, Done,
      shared, lists, bins, arena, headers, locks
<1>1. VariablesTyped'
  BY DoneTypes DEF VariablesTyped
<1>2. OwnershipInv' /\ FrameInv'
  BY DEF VariablesTyped, OwnershipInv, FrameInv, Refilling
<1>3. CentralInv' /\ CacheInv'
  BY DEF VariablesTyped, CentralInv, CacheInv, Detaching
<1>4. RoomInv' /\ RefillInv'
  BY DEF VariablesTyped, FrameInv, RoomInv, RefillInv, Refilling
<1>5. DetachInv' /\ AbandonedInv'
  <2>1. /\ UNCHANGED <<tls, local, spare, remote>>
        /\ \A u \in Threads : pc'[u] = "detach" <=> pc[u] = "detach"
        /\ \A u \in Threads :
              pc[u] = "detach" => to'[u] = to[u] /\ cls'[u] = cls[u]
    BY DEF VariablesTyped
  <2> QED BY <2>1, DetachFrame
<1> QED BY <1>1, <1>2, <1>3, <1>4, <1>5

\* The checked free wins the block, or returns.
LEMMA FreeCasStep ==
    ASSUME HeapInv, NEW t \in Threads, FreeCas(t)
    PROVE  HeapInv'
<1> USE HeapAssumption DEF HeapInv, FreeCas, Goto, Done,
      shared, lists, bins, arena, headers, locks
<1>1. VariablesTyped'
  <2>1. state' \in [Blocks -> {0, 1}] /\ program' \subseteq Blocks
    BY DEF VariablesTyped, FrameInv
  <2>2. /\ pc' \in [Threads -> Locations] /\ cls' \in [Threads -> Classes]
        /\ blk' \in [Threads -> Blocks \cup {NoBlock}]
        /\ to' \in [Threads -> Caches \cup {NoCache}]
        /\ pending' \in [Threads -> Seq(Blocks)]
    <3>1. CASE state[blk[t]] = 1
      BY <3>1 DEF VariablesTyped, Locations
    <3>2. CASE state[blk[t]] # 1
      BY <3>2, DoneTypes
    <3> QED BY <3>1, <3>2
  <2> QED BY <2>1, <2>2 DEF VariablesTyped
<1>2. /\ \A u \in Threads : u # t => /\ pc'[u] = pc[u] /\ cls'[u] = cls[u]
                                     /\ blk'[u] = blk[u] /\ to'[u] = to[u]
      /\ pc[t] = "cas" /\ pc'[t] \in {"idle", "route"}
      /\ pc'[t] = "route" => blk'[t] = blk[t]
  BY DEF VariablesTyped
<1>3. UNCHANGED <<tls, caches, accepting_remote, local, spare, remote, central>>
  OBVIOUS
<1> HIDE DEF FreeCas
<1>4. OwnershipInv' /\ FrameInv'
  BY <1>2, <1>3 DEF OwnershipInv, FrameInv, Refilling
<1>5. \A k \in Caches : Detaching(k)' <=> Detaching(k)
  BY <1>2 DEF Detaching
<1>6. CentralInv' /\ CacheInv'
  BY <1>3, <1>5 DEF CentralInv, CacheInv
<1>7. RoomInv' /\ RefillInv'
  BY <1>2, <1>3 DEF RoomInv, RefillInv, Refilling
<1>8. DetachInv' /\ AbandonedInv'
  BY <1>2, <1>3, <1>5 DEF DetachInv, AbandonedInv, Emptied
<1> QED BY <1>1, <1>4, <1>6, <1>7, <1>8

\* Both segments are empty when the thread goes to the central bin.
LEMMA DrainEndStep ==
    ASSUME HeapInv, NEW t \in Threads, DrainEnd(t)
    PROVE  HeapInv'
<1> USE HeapAssumption DEF HeapInv, DrainEnd, Goto,
      shared, lists, bins, arena, headers, locks
<1>1. tls[t] # NoCache /\ cls[t] \in Classes
  BY DEF VariablesTyped, FrameInv
<1>2. /\ local[tls[t]][cls[t]].blocks = <<>> => local[tls[t]][cls[t]].count = 0
      /\ spare[tls[t]][cls[t]].blocks = <<>> => spare[tls[t]][cls[t]].count = 0
  BY <1>1, OwnedCache, SoundEmpty DEF GoodPair
<1>3. VariablesTyped'
  BY DEF VariablesTyped, Locations
<1>4. OwnershipInv' /\ FrameInv'
  BY <1>1 DEF VariablesTyped, OwnershipInv, FrameInv, Refilling
<1>5. CentralInv' /\ CacheInv'
  BY DEF VariablesTyped, CentralInv, CacheInv, Detaching
<1>6. RoomInv' /\ RefillInv'
  BY <1>2 DEF VariablesTyped, FrameInv, RoomInv, RefillInv, Refilling
<1>7. DetachInv' /\ AbandonedInv'
  <2>1. /\ UNCHANGED <<tls, local, spare, remote>>
        /\ \A u \in Threads : pc'[u] = "detach" <=> pc[u] = "detach"
        /\ \A u \in Threads :
              pc[u] = "detach" => to'[u] = to[u] /\ cls'[u] = cls[u]
    BY DEF VariablesTyped
  <2> QED BY <2>1, DetachFrame
<1> QED BY <1>3, <1>4, <1>5, <1>6, <1>7

-----------------------------------------------------------------------------
(***************************************************************************)
(* The actions on the thread's own cache.                                   *)
(***************************************************************************)

\* The pop.
LEMMA AllocateSmallStep ==
    ASSUME HeapInv, NEW t \in Threads, AllocateSmall(t)
    PROVE  HeapInv'
<1> USE HeapAssumption DEF HeapInv, AllocateSmall, Done,
      shared, lists, bins, arena, headers, locks
<1> DEFINE k == tls[t]
           c == cls[t]
<1>1. k # NoCache /\ k \in Caches /\ c \in Classes
  BY OwnedCache DEF VariablesTyped, FrameInv
<1>2. PICK hot : hot = local[k][c]
  OBVIOUS
<1>3. hot \in Segments /\ GoodPair(hot, spare[k][c]) /\ spare[k][c] \in Segments
  BY <1>1, <1>2, OwnedCache
<1>4. PICK new : new = Pop(hot)
  OBVIOUS
<1>5. /\ Head(hot.blocks) \in Blocks
      /\ new \in Segments /\ Sound(new)
      /\ hot.count >= 1 /\ new.count = hot.count - 1
  BY <1>2, <1>3, <1>4, PopSound DEF GoodPair
<1>6. local' = [local EXCEPT ![k][c] = new]
  BY <1>2, <1>4
<1>7. /\ local' \in [Caches -> [Classes -> Segments]]
      /\ local'[k][c] = new
      /\ \A j \in Caches, d \in Classes : j # k \/ d # c => local'[j][d] = local[j][d]
  BY <1>1, <1>5, <1>6 DEF VariablesTyped
<1>8. GoodPair(new, spare[k][c]) /\ new.count < CacheLimit /\ new.count < CountMax
  <2>1. new.count \in Nat /\ hot.count \in Nat /\ spare[k][c].count \in Nat
    BY <1>3, <1>5 DEF Segments
  <2>2. new.count < hot.count
    BY <1>5, <2>1
  <2>3. /\ Sound(new) /\ Sound(spare[k][c])
        /\ hot.count + spare[k][c].count <= CacheLimit
        /\ hot.count <= CountMax /\ spare[k][c].count <= CountMax
    BY <1>3, <1>5 DEF GoodPair
  <2> HIDE DEF HeapInv, AllocateSmall
  <2> QED BY <2>1, <2>2, <2>3, HeapAssumption DEF GoodPair, HeapAssumption
<1>9. VariablesTyped'
  <2>1. /\ owner' \in [Blocks -> Caches \cup {NoCache}]
        /\ state' \in [Blocks -> {0, 1}]
        /\ program' \subseteq Blocks
    BY <1>1, <1>2, <1>5 DEF VariablesTyped
  <2> QED BY <1>7, <2>1, DoneTypes DEF VariablesTyped
<1>10. /\ pc[t] = "pop"
      /\ pc'[t] = "idle"
      /\ \A u \in Threads : u # t =>
            /\ pc'[u] = pc[u] /\ cls'[u] = cls[u] /\ blk'[u] = blk[u]
            /\ to'[u] = to[u]
  BY DoneTypes
<1>11. UNCHANGED <<tls, caches, accepting_remote, spare, remote, central>>
  OBVIOUS
<1> HIDE DEF AllocateSmall, Done
<1>12. OwnershipInv' /\ FrameInv' /\ CentralInv'
  BY <1>10, <1>11 DEF OwnershipInv, FrameInv, CentralInv, Refilling
<1>13. CacheInv' /\ RoomInv' /\ RefillInv' /\ DetachInv' /\ AbandonedInv'
  BY <1>1, <1>7, <1>8, <1>9, <1>10, <1>11, OwnerUpdate DEF Refilling
<1> QED BY <1>9, <1>12, <1>13

\* The spare segment becomes the hot one.
LEMMA AdoptSpareStep ==
    ASSUME HeapInv, NEW t \in Threads, AdoptSpare(t)
    PROVE  HeapInv'
<1> USE HeapAssumption DEF HeapInv, AdoptSpare, Goto,
      shared, lists, bins, arena, headers, locks
<1> DEFINE k == tls[t]
           c == cls[t]
<1>1. k # NoCache /\ k \in Caches /\ c \in Classes
  BY OwnedCache DEF VariablesTyped, FrameInv
<1>2. PICK cold : cold = spare[k][c]
  OBVIOUS
<1>3. cold \in Segments /\ GoodPair(local[k][c], cold) /\ local[k][c] \in Segments
  BY <1>1, <1>2, OwnedCache
<1>4. EmptySegment \in Segments /\ Sound(EmptySegment) /\ EmptySegment.count = 0
  BY EmptySegmentSound DEF EmptySegment
<1>5. /\ local' \in [Caches -> [Classes -> Segments]]
      /\ spare' \in [Caches -> [Classes -> Segments]]
      /\ local'[k][c] = cold /\ spare'[k][c] = EmptySegment
      /\ \A j \in Caches, d \in Classes : j # k \/ d # c =>
            local'[j][d] = local[j][d] /\ spare'[j][d] = spare[j][d]
  BY <1>1, <1>2, <1>3, <1>4 DEF VariablesTyped
<1>6. GoodPair(cold, EmptySegment)
  <2>1. local[k][c].count \in Nat /\ cold.count \in Nat
    BY <1>3 DEF Segments
  <2> QED BY <1>3, <1>4, <2>1 DEF GoodPair
<1>7. UNCHANGED <<tls, caches, accepting_remote, remote, central, pc, cls, blk, to>>
      /\ pc[t] = "pop"
  BY DEF frame
<1>8. VariablesTyped'
  BY <1>5 DEF VariablesTyped, frame
<1> HIDE DEF AdoptSpare
<1>9. OwnershipInv' /\ FrameInv' /\ CentralInv'
  BY <1>7 DEF OwnershipInv, FrameInv, CentralInv, Refilling
<1>10. CacheInv' /\ RoomInv' /\ RefillInv' /\ DetachInv' /\ AbandonedInv'
  BY <1>1, <1>5, <1>6, <1>7, <1>8, OwnerUpdate DEF Refilling
<1> QED BY <1>8, <1>9, <1>10

\* The remote list of the own cache is taken.
LEMMA DrainTakeStep ==
    ASSUME HeapInv, NEW t \in Threads, DrainTake(t)
    PROVE  HeapInv'
<1> USE HeapAssumption DEF HeapInv, DrainTake, Goto,
      shared, lists, bins, arena, headers, locks
<1> DEFINE k == tls[t]
           c == cls[t]
<1>1. k # NoCache /\ k \in Caches /\ c \in Classes
  BY OwnedCache DEF VariablesTyped, FrameInv
<1>2. GoodPair(local[k][c], spare[k][c]) /\ local[k][c].count = 0
  BY <1>1, OwnedCache, SoundEmpty DEF GoodPair
<1>3. <<>> \in Seq(Blocks)
  OBVIOUS
<1>4. VariablesTyped'
  BY <1>1, <1>3 DEF VariablesTyped, Locations
<1>5. \A j \in Caches, d \in Classes : j # k \/ d # c => remote'[j][d] = remote[j][d]
  BY <1>1 DEF VariablesTyped
<1>6. /\ pc[t] = "pop" /\ pc'[t] = "drain"
      /\ \A u \in Threads : u # t => pc'[u] = pc[u]
      /\ UNCHANGED <<tls, caches, accepting_remote, local, spare, central, cls, blk, to>>
  BY DEF VariablesTyped
<1> HIDE DEF DrainTake
<1>7. OwnershipInv' /\ FrameInv' /\ CentralInv'
  BY <1>1, <1>6 DEF OwnershipInv, FrameInv, CentralInv, Refilling
<1>8. CacheInv' /\ RoomInv' /\ RefillInv' /\ DetachInv' /\ AbandonedInv'
  BY <1>1, <1>2, <1>4, <1>5, <1>6, OwnerUpdate DEF Refilling
<1> QED BY <1>4, <1>7, <1>8

\* A drained block is pushed and the cache trimmed.
LEMMA DrainPushStep ==
    ASSUME HeapInv, NEW t \in Threads, DrainPush(t)
    PROVE  HeapInv'
<1> USE HeapAssumption DEF HeapInv, DrainPush, Goto,
      shared, lists, bins, arena, headers, locks
<1> DEFINE k == tls[t]
           c == cls[t]
           b == Head(pending[t])
<1>1. k # NoCache /\ k \in Caches /\ c \in Classes
  BY OwnedCache DEF VariablesTyped, FrameInv
<1>2. b \in Blocks /\ pending' \in [Threads -> Seq(Blocks)]
  <2>1. pending[t] \in Seq(Blocks) /\ pending[t] # <<>>
    BY DEF VariablesTyped
  <2>2. b \in Blocks /\ Tail(pending[t]) \in Seq(Blocks)
    BY <2>1, HeadTailProperties
  <2> QED BY <2>2 DEF VariablesTyped
<1>3. /\ GoodPair(local[k][c], spare[k][c])
      /\ local[k][c].count < CacheLimit /\ local[k][c].count < CountMax
  BY <1>1, OwnedCache DEF RoomInv
<1>4. PushAndTrim(k, c, b)
  OBVIOUS
<1>5. UNCHANGED <<tls, caches, exclusive_cache, accepting_remote, remote,
                  next_span, span_classes, state, owner, class_lock, arena_lock,
                  pc, cls, blk, to, program>> /\ pc[t] = "drain"
  OBVIOUS
<1> HIDE DEF DrainPush, k, c, b
<1>6. VariablesTyped'
  BY <1>1, <1>2, <1>3, <1>4, <1>5, PushAndTrimGood DEF VariablesTyped
<1>7. CentralInv'
  BY <1>1, <1>2, <1>3, <1>4, PushAndTrimGood
<1>8. OwnershipInv' /\ FrameInv'
  BY <1>5 DEF OwnershipInv, FrameInv
<1>9. CacheInv' /\ RoomInv' /\ RefillInv' /\ DetachInv' /\ AbandonedInv'
  <2>1. /\ \A j \in Caches, d \in Classes : j # k \/ d # c =>
                local'[j][d] = local[j][d] /\ spare'[j][d] = spare[j][d]
        /\ GoodPair(local'[k][c], spare'[k][c])
        /\ local'[k][c].count < CacheLimit /\ local'[k][c].count < CountMax
    BY <1>1, <1>2, <1>3, <1>4, PushAndTrimGood
  <2> QED BY <1>1, <1>5, <1>6, <2>1, OwnerUpdate DEF Refilling, k, c
<1> QED BY <1>6, <1>7, <1>8, <1>9

\* A freed block of the own cache is pushed and the cache trimmed.
LEMMA RouteLocalStep ==
    ASSUME HeapInv, NEW t \in Threads, RouteLocal(t)
    PROVE  HeapInv'
<1> USE HeapAssumption DEF HeapInv, RouteLocal, Done,
      shared, lists, bins, arena, headers, locks
<1> DEFINE k == tls[t]
           c == cls[t]
           b == blk[t]
<1>1. k # NoCache /\ k \in Caches /\ c \in Classes /\ b \in Blocks
  BY OwnedCache DEF VariablesTyped, FrameInv
<1>2. /\ GoodPair(local[k][c], spare[k][c])
      /\ local[k][c].count < CacheLimit /\ local[k][c].count < CountMax
  BY <1>1, OwnedCache DEF RoomInv
<1>3. PushAndTrim(k, c, b) /\ pc[t] = "route"
  OBVIOUS
<1>4. /\ pc'[t] = "idle"
      /\ \A u \in Threads : u # t =>
            /\ pc'[u] = pc[u] /\ cls'[u] = cls[u] /\ blk'[u] = blk[u]
            /\ to'[u] = to[u]
  BY DoneTypes
<1>5. UNCHANGED <<tls, caches, exclusive_cache, accepting_remote, remote,
                  next_span, span_classes, state, owner, class_lock, arena_lock,
                  program>>
  OBVIOUS
<1>6. /\ local' \in [Caches -> [Classes -> Segments]]
      /\ spare' \in [Caches -> [Classes -> Segments]]
      /\ central' \in [Classes -> Seq(Segments)]
      /\ central_count' \in [Classes -> Int]
      /\ CentralInv'
      /\ \A j \in Caches, d \in Classes : j # k \/ d # c =>
                local'[j][d] = local[j][d] /\ spare'[j][d] = spare[j][d]
      /\ GoodPair(local'[k][c], spare'[k][c])
      /\ local'[k][c].count < CacheLimit /\ local'[k][c].count < CountMax
  <2> HIDE DEF RouteLocal, Done, k, c, b
  <2> QED BY <1>1, <1>2, <1>3, PushAndTrimGood
<1>7. VariablesTyped'
  BY <1>5, <1>6, DoneTypes DEF VariablesTyped
<1> HIDE DEF RouteLocal, Done
<1>8. OwnershipInv' /\ FrameInv'
  BY <1>3, <1>4, <1>5 DEF OwnershipInv, FrameInv, Refilling
<1>9. CacheInv' /\ RoomInv' /\ RefillInv' /\ DetachInv' /\ AbandonedInv'
  <2>1. pc[t] # "pop" /\ pc[t] # "detach" /\ pc'[t] # "detach" /\ pc'[t] \notin Refilling
    BY <1>3, <1>4 DEF Refilling
  <2>2. UNCHANGED tls /\ \A j \in Caches, d \in Classes : remote'[j][d] = remote[j][d]
    BY <1>5
  <2>3. \A u \in Threads : u # t =>
            pc'[u] = pc[u] /\ cls'[u] = cls[u] /\ to'[u] = to[u]
    BY <1>4
  <2>4. /\ GoodPair(local'[k][c], spare'[k][c])
        /\ local'[k][c].count < CacheLimit /\ local'[k][c].count < CountMax
    BY <1>6
  <2>5. \A j \in Caches, d \in Classes : j # k \/ d # c =>
                local'[j][d] = local[j][d] /\ spare'[j][d] = spare[j][d]
    BY <1>6
  <2>6. tls[t] # NoCache /\ cls[t] \in Classes
    BY <1>1
  <2> HIDE DEF HeapInv
  <2> QED BY <1>7, <2>1, <2>2, <2>3, <2>4, <2>5, <2>6, OwnerUpdate
<1> QED BY <1>6, <1>7, <1>8, <1>9

\* The empty hot segment takes a whole chunk.
LEMMA RefillChunkStep ==
    ASSUME HeapInv, NEW t \in Threads, RefillChunk(t)
    PROVE  HeapInv'
<1> USE HeapAssumption DEF HeapInv, RefillChunk, Goto,
      shared, lists, bins, arena, headers, locks
<1> DEFINE k == tls[t]
           c == cls[t]
<1>1. k # NoCache /\ k \in Caches /\ c \in Classes
  BY OwnedCache DEF VariablesTyped, FrameInv, Refilling
<1>2. /\ GoodPair(local[k][c], spare[k][c])
      /\ local[k][c] \in Segments /\ spare[k][c] \in Segments
      /\ local[k][c].count = 0 /\ spare[k][c].count = 0
      /\ local[k][c].blocks = <<>>
  <2>1. local[k][c].count = 0 /\ spare[k][c].count = 0
    BY DEF RefillInv, Refilling
  <2> QED BY <1>1, <2>1, OwnedCache, SoundEmpty DEF GoodPair
<1>3. PICK chunk : chunk = Head(central[c])
  OBVIOUS
<1>4. GoodBin(central[c]) /\ central[c] # <<>>
  BY <1>1 DEF CentralInv
<1>5. GoodChunk(chunk) /\ GoodBin(Tail(central[c]))
  BY <1>3, <1>4, PopBin
<1>6. chunk.blocks \in Seq(Blocks) /\ chunk.blocks # <<>> /\ CutAt(chunk) = chunk
  <2>1. chunk \in Segments /\ Sound(chunk) /\ chunk.count >= 1
    BY <1>5 DEF GoodChunk
  <2> HIDE DEF RefillChunk, HeapInv
  <2>2. chunk.blocks \in Seq(Blocks) /\ chunk.count \in Nat
    BY <2>1 DEF Segments
  <2>3. chunk.blocks # <<>>
    BY <2>1, <2>2, SoundEmpty
  <2> QED BY <2>1, <2>2, <2>3, CutSound
<1>7. chunk.blocks \o <<>> = chunk.blocks
  BY <1>6, ConcatEmptySeq
<1>8. PICK new : new = [blocks |-> CutAt(chunk).blocks \o local[k][c].blocks,
                        tail |-> IF local[k][c].blocks = <<>> THEN chunk.tail
                                                              ELSE local[k][c].tail,
                        count |-> local[k][c].count + chunk.count]
  OBVIOUS
<1>9. new = chunk
  BY <1>2, <1>5, <1>6, <1>7, <1>8 DEF GoodChunk, Segments
<1>10. local' = [local EXCEPT ![k][c] = chunk]
  BY <1>3, <1>8, <1>9
<1>11. /\ local' \in [Caches -> [Classes -> Segments]]
       /\ local'[k][c] = chunk
       /\ \A j \in Caches, d \in Classes : j # k \/ d # c => local'[j][d] = local[j][d]
  <2>1. chunk \in Segments /\ local \in [Caches -> [Classes -> Segments]]
    BY <1>5 DEF VariablesTyped, GoodChunk
  <2> HIDE DEF RefillChunk
  <2> QED BY <1>1, <1>10, <2>1
<1>12. GoodPair(chunk, spare[k][c])
  BY <1>2, <1>5 DEF GoodPair, GoodChunk, Segments
<1>13. central' \in [Classes -> Seq(Segments)] /\ CentralInv'
  BY <1>1, <1>5 DEF VariablesTyped, CentralInv, GoodBin
<1>14. central_count' \in [Classes -> Int]
  BY SMTT(30), <1>1, <1>3, <1>5 DEF VariablesTyped, GoodChunk, Segments
<1>15. /\ pc[t] = "locked" /\ pc'[t] = "pop"
       /\ \A u \in Threads : u # t => pc'[u] = pc[u]
       /\ UNCHANGED <<tls, caches, accepting_remote, spare, remote, cls, blk, to>>
  BY DEF VariablesTyped
<1>16. VariablesTyped'
  BY <1>1, <1>11, <1>13, <1>14 DEF VariablesTyped, Locations
<1> HIDE DEF RefillChunk
<1>17. OwnershipInv' /\ FrameInv'
  BY <1>1, <1>15 DEF OwnershipInv, FrameInv, Refilling
<1>18. CacheInv' /\ RoomInv' /\ RefillInv' /\ DetachInv' /\ AbandonedInv'
  BY <1>1, <1>11, <1>12, <1>15, <1>16, OwnerUpdate DEF Refilling
<1> QED BY <1>13, <1>16, <1>17, <1>18

-----------------------------------------------------------------------------
(***************************************************************************)
(* The actions on the central bins and on the remote lists.                 *)
(***************************************************************************)

\* The carved chunks are good.
LEMMA CarveStep ==
    ASSUME HeapInv, NEW t \in Threads, Carve(t)
    PROVE  HeapInv'
<1> USE HeapAssumption DEF HeapInv, Carve, Goto,
      shared, lists, bins, arena, headers, locks
<1>1. blk[t] \in Blocks /\ cls[t] \in Classes
  BY DEF VariablesTyped, FrameInv
<1>2. GoodBin(CarvedChunks(SpanOf(blk[t])))
  BY <1>1, SpanRange, CarvedBin
<1>3. /\ central' \in [Classes -> Seq(Segments)]
      /\ central_count' \in [Classes -> Int]
      /\ CentralInv'
  <2>1. memx_heap_push_central_chunks(cls[t], CarvedChunks(SpanOf(blk[t])), BlocksPerSpan)
    OBVIOUS
  <2> HIDE DEF Carve
  <2> QED BY <1>1, <1>2, <2>1, CentralPush
<1>4. state' \in [Blocks -> {0, 1}]
  BY DEF VariablesTyped
<1>5. VariablesTyped'
  BY <1>3, <1>4 DEF VariablesTyped, Locations
<1>6. OwnershipInv' /\ FrameInv'
  BY DEF VariablesTyped, OwnershipInv, FrameInv, Refilling
<1>7. CacheInv'
  BY DEF VariablesTyped, CacheInv, Detaching
<1>8. RoomInv' /\ RefillInv'
  BY DEF VariablesTyped, FrameInv, RoomInv, RefillInv, Refilling
<1>9. DetachInv' /\ AbandonedInv'
  <2>1. /\ UNCHANGED <<tls, local, spare, remote>>
        /\ \A u \in Threads : pc'[u] = "detach" <=> pc[u] = "detach"
        /\ \A u \in Threads :
              pc[u] = "detach" => to'[u] = to[u] /\ cls'[u] = cls[u]
    BY DEF VariablesTyped
  <2> QED BY <2>1, DetachFrame
<1> QED BY <1>3, <1>5, <1>6, <1>7, <1>8, <1>9

\* A block without an accepting cache becomes a chunk of its own.
LEMMA RouteCentralStep ==
    ASSUME HeapInv, NEW t \in Threads, RouteCentral(t)
    PROVE  HeapInv'
<1> USE HeapAssumption DEF HeapInv, RouteCentral, Done,
      shared, lists, bins, arena, headers, locks
<1>1. blk[t] \in Blocks /\ cls[t] \in Classes
  BY DEF VariablesTyped, FrameInv
<1>2. GoodBin(<<Single(blk[t])>>)
  BY <1>1, SingleSound, OneChunkBin DEF GoodChunk
<1>3. /\ central' \in [Classes -> Seq(Segments)]
      /\ central_count' \in [Classes -> Int]
      /\ CentralInv'
  <2>1. memx_heap_push_central_chunks(cls[t], <<Single(blk[t])>>, 1)
    OBVIOUS
  <2> HIDE DEF RouteCentral
  <2> QED BY <1>1, <1>2, <2>1, CentralPush
<1>4. /\ pc[t] = "central" /\ pc'[t] = "idle"
      /\ \A u \in Threads : u # t =>
            /\ pc'[u] = pc[u] /\ cls'[u] = cls[u] /\ blk'[u] = blk[u]
            /\ to'[u] = to[u]
  BY DoneTypes
<1>5. UNCHANGED <<tls, caches, accepting_remote, local, spare, remote>>
  OBVIOUS
<1>6. VariablesTyped'
  BY <1>3, DoneTypes DEF VariablesTyped
<1> HIDE DEF RouteCentral, Done
<1>7. \A k \in Caches : Detaching(k)' <=> Detaching(k)
  BY <1>4 DEF Detaching
<1>8. OwnershipInv' /\ FrameInv'
  BY <1>4, <1>5 DEF OwnershipInv, FrameInv, Refilling
<1>9. CacheInv'
  BY <1>5, <1>7 DEF CacheInv
<1>10. RoomInv' /\ RefillInv'
  BY <1>4, <1>5 DEF RoomInv, RefillInv, Refilling
<1>11. DetachInv' /\ AbandonedInv'
  BY <1>4, <1>5, <1>7 DEF DetachInv, AbandonedInv, Emptied
<1> QED BY <1>3, <1>6, <1>8, <1>9, <1>10, <1>11

\* A remote free reaches a cache that accepts, hence one its thread still has.
LEMMA RouteRemoteStep ==
    ASSUME HeapInv, NEW t \in Threads, RouteRemote(t)
    PROVE  HeapInv'
<1> USE HeapAssumption DEF HeapInv, RouteRemote, Goto, Done,
      shared, lists, bins, arena, headers, locks
<1> DEFINE k == to[t]
           c == cls[t]
<1>1. blk[t] \in Blocks /\ c \in Classes /\ k \in Caches
  BY DEF VariablesTyped, FrameInv
<1>2. /\ pc[t] = "remote" /\ pc'[t] \in {"idle", "central"}
      /\ pc'[t] = "central" => blk'[t] = blk[t]
      /\ \A u \in Threads : u # t =>
            /\ pc'[u] = pc[u] /\ cls'[u] = cls[u] /\ blk'[u] = blk[u]
            /\ to'[u] = to[u]
  <2>1. CASE accepting_remote[k]
    BY <2>1, DoneTypes
  <2>2. CASE ~accepting_remote[k]
    BY <2>2 DEF VariablesTyped
  <2> QED BY <2>1, <2>2
<1>3. /\ remote' \in [Caches -> [Classes -> Seq(Blocks)]]
      /\ \A j \in Caches, d \in Classes :
            remote'[j][d] = remote[j][d] \/ accepting_remote[j]
  <2>1. CASE accepting_remote[k]
    <3>1. PICK new : new = <<blk[t]>> \o remote[k][c]
      OBVIOUS
    <3>2. new \in Seq(Blocks)
      <4>1. <<blk[t]>> \in Seq(Blocks) /\ remote[k][c] \in Seq(Blocks)
        BY <1>1 DEF VariablesTyped
      <4> QED BY <3>1, <4>1, ConcatProperties
    <3>3. remote' = [remote EXCEPT ![k][c] = new]
      BY <2>1, <3>1
    <3> QED BY <1>1, <2>1, <3>2, <3>3 DEF VariablesTyped
  <2>2. CASE ~accepting_remote[k]
    BY <2>2 DEF VariablesTyped
  <2> QED BY <2>1, <2>2
<1>4. VariablesTyped'
  <2>1. CASE accepting_remote[k]
    BY <1>3, <2>1, DoneTypes DEF VariablesTyped
  <2>2. CASE ~accepting_remote[k]
    BY <1>3, <2>2 DEF VariablesTyped, Locations
  <2> QED BY <2>1, <2>2
<1>5. UNCHANGED <<tls, caches, accepting_remote, local, spare, central>>
  OBVIOUS
<1> HIDE DEF RouteRemote, Goto, Done
<1>6. \A j \in Caches : Detaching(j)' <=> Detaching(j)
  BY <1>2 DEF Detaching
<1>7. OwnershipInv' /\ FrameInv'
  BY <1>1, <1>2, <1>5 DEF OwnershipInv, FrameInv, Refilling
<1>8. CentralInv' /\ CacheInv'
  BY <1>5, <1>6 DEF CentralInv, CacheInv
<1>9. RoomInv' /\ RefillInv'
  BY <1>2, <1>5 DEF RoomInv, RefillInv, Refilling
<1>10. DetachInv'
  BY <1>2, <1>5 DEF DetachInv, Emptied
<1>11. AbandonedInv'
  <2> SUFFICES ASSUME NEW j \in Caches, \A u \in Threads : tls[u] # j,
                      NEW d \in Classes
               PROVE  /\ remote'[j][d] = <<>>
                      /\ ~Detaching(j)' => Emptied(j, d)'
    BY <1>5 DEF AbandonedInv
  <2>1. ~accepting_remote[j]
    BY DEF OwnershipInv
  <2> QED BY <1>3, <1>5, <1>6, <2>1 DEF AbandonedInv, Emptied
<1> QED BY <1>4, <1>7, <1>8, <1>9, <1>10, <1>11

-----------------------------------------------------------------------------
(***************************************************************************)
(* Detaching.                                                               *)
(***************************************************************************)

\* The remote blocks join the hot segment, whatever its tail.
LEMMA AbsorbType ==
    ASSUME NEW s \in Segments, NEW blocks \in Seq(Blocks)
    PROVE  Absorb(s, blocks) \in Segments
<1>1. PICK turned : turned = Reverse(blocks)
  OBVIOUS
<1>2. Len(blocks) \in Nat /\ \A i \in 1 .. Len(blocks) : blocks[i] \in Blocks
  BY LenProperties
<1>3. turned \in [1 .. Len(blocks) -> Blocks]
  BY <1>1, <1>2 DEF Reverse
<1>4. turned \in Seq(Blocks) /\ s.blocks \in Seq(Blocks) /\ s.count \in Nat
  BY <1>2, <1>3, IsASeq DEF Segments
<1>5. PICK all : all = turned \o s.blocks
  OBVIOUS
<1>6. all \in Seq(Blocks)
  BY <1>4, <1>5, ConcatProperties
<1>7. Absorb(s, blocks) = [blocks |-> all, tail |-> s.tail, count |-> s.count + Len(blocks)]
  BY <1>1, <1>5 DEF Absorb
<1> QED BY <1>2, <1>4, <1>6, <1>7 DEF Segments

\* The thread that had the cache is now the one that detaches it.
LEMMA DetachStep ==
    ASSUME HeapInv, NEW t \in Threads, Detach(t)
    PROVE  HeapInv'
<1> USE HeapAssumption DEF HeapInv, Detach, Goto,
      shared, lists, bins, arena, headers, locks
<1> DEFINE k == tls[t]
<1>1. k \in Caches /\ k # NoCache /\ k \in caches
  BY DEF VariablesTyped, OwnershipInv
<1>2. <<>> \in Seq(Blocks) /\ 0 \in Classes
  BY DEF Classes
<1>3. PICK new : new = [c \in Classes |-> Absorb(local[k][c], remote[k][c])]
  OBVIOUS
<1>4. new \in [Classes -> Segments]
  <2>1. \A c \in Classes : local[k][c] \in Segments /\ remote[k][c] \in Seq(Blocks)
    BY <1>1 DEF VariablesTyped
  <2> QED BY <1>3, <2>1, AbsorbType
<1>5. /\ local' = [local EXCEPT ![k] = new]
      /\ local' \in [Caches -> [Classes -> Segments]]
      /\ \A j \in Caches : j # k => local'[j] = local[j]
  BY <1>1, <1>3, <1>4 DEF VariablesTyped
<1>6. /\ remote' \in [Caches -> [Classes -> Seq(Blocks)]]
      /\ \A c \in Classes : remote'[k][c] = <<>>
      /\ \A j \in Caches : j # k => remote'[j] = remote[j]
  BY <1>1, <1>2 DEF VariablesTyped
<1>7. VariablesTyped'
  BY <1>1, <1>2, <1>5, <1>6 DEF VariablesTyped, Locations
<1>8. /\ \A u \in Threads : tls'[u] = IF u = t THEN NoCache ELSE tls[u]
      /\ \A j \in Caches : accepting_remote'[j] => j # k /\ accepting_remote[j]
      /\ pc[t] = "idle" /\ pc'[t] = "detach" /\ cls'[t] = 0 /\ to'[t] = k
      /\ \A u \in Threads : u # t => pc'[u] = pc[u] /\ cls'[u] = cls[u] /\ to'[u] = to[u]
      /\ UNCHANGED <<caches, spare, central, blk>>
  BY <1>1 DEF VariablesTyped
<1> HIDE DEF Detach, Goto
<1>9. \A u \in Threads : u # t => tls[u] # k
  BY <1>1 DEF OwnershipInv
<1>10. ~Detaching(k)
  BY <1>1, OwnedCache, <1>2
<1>11. OwnershipInv'
  <2>1. \A u, v \in Threads : tls'[u] # NoCache /\ tls'[u] = tls'[v] => u = v
    BY <1>8 DEF OwnershipInv
  <2>2. \A u \in Threads : tls'[u] # NoCache => tls'[u] \in caches
    BY <1>8 DEF OwnershipInv
  <2>3. \A u \in Threads : tls'[u] # k
    BY <1>1, <1>8, <1>9
  <2>4. ASSUME NEW u \in Threads, pc'[u] = "detach"
        PROVE  to'[u] \in caches /\ \A v \in Threads : tls'[v] # to'[u]
    <3>1. CASE u = t
      BY <1>1, <1>8, <2>3, <3>1
    <3>2. CASE u # t
      <4>1. pc[u] = "detach" /\ to'[u] = to[u]
        BY <1>8, <2>4, <3>2
      <4>2. to[u] \in Caches
        BY <4>1 DEF OwnershipInv, VariablesTyped
      <4> QED BY <1>8, <4>1, <4>2 DEF OwnershipInv
    <3> QED BY <3>1, <3>2
  <2>5. ASSUME NEW u \in Threads, NEW v \in Threads,
               pc'[u] = "detach", pc'[v] = "detach", to'[u] = to'[v]
        PROVE  u = v
    BY <1>8, <1>10, <2>5 DEF OwnershipInv, Detaching
  <2>6. ASSUME NEW j \in Caches, accepting_remote'[j]
        PROVE  \E u \in Threads : tls'[u] = j
    BY <1>8, <2>6 DEF OwnershipInv
  <2> QED BY <1>8, <2>1, <2>2, <2>4, <2>5, <2>6 DEF OwnershipInv
<1>12. FrameInv'
  BY <1>8 DEF FrameInv, Refilling
<1>13. \A j \in Caches : Detaching(j)' <=> Detaching(j) \/ j = k
  BY <1>8 DEF Detaching
<1>14. CentralInv' /\ CacheInv'
  BY <1>5, <1>8, <1>13 DEF CentralInv, CacheInv
<1>15. \A u \in Threads : u # t /\ tls[u] # NoCache => tls[u] \in Caches
  BY DEF VariablesTyped
<1>16. RoomInv'
  BY <1>5, <1>8, <1>9, <1>15 DEF RoomInv
<1>17. RefillInv'
  BY <1>5, <1>8, <1>9, <1>15 DEF RefillInv, FrameInv, Refilling
<1>18. DetachInv'
  <2> SUFFICES ASSUME NEW u \in Threads, pc'[u] = "detach",
                      NEW c \in Classes, c < cls'[u]
               PROVE  local'[to'[u]][c] = EmptySegment /\ spare'[to'[u]][c] = EmptySegment
    BY DEF DetachInv, Emptied
  <2>1. u # t
    BY <1>8 DEF Classes
  <2>2. to[u] \in Caches /\ to[u] # k
    BY <1>8, <1>10, <2>1 DEF OwnershipInv, VariablesTyped, Detaching
  <2> QED BY <1>5, <1>8, <2>1, <2>2 DEF DetachInv, Emptied
<1>19. AbandonedInv'
  <2> SUFFICES ASSUME NEW j \in Caches, \A u \in Threads : tls'[u] # j,
                      NEW d \in Classes
               PROVE  /\ remote'[j][d] = <<>>
                      /\ ~Detaching(j)' => Emptied(j, d)'
    BY DEF AbandonedInv
  <2>1. CASE j = k
    BY <1>6, <1>13, <2>1
  <2>2. CASE j # k
    <3>1. ASSUME NEW u \in Threads PROVE tls[u] # j
      <4>1. u # t => tls'[u] = tls[u]
        BY <1>8
      <4> QED BY <2>2, <4>1
    <3>2. local'[j] = local[j] /\ spare'[j] = spare[j] /\ remote'[j] = remote[j]
      BY <1>5, <1>6, <1>8, <2>2
    <3>3. Detaching(j)' <=> Detaching(j)
      BY <1>13, <2>2
    <3> QED BY <3>1, <3>2, <3>3 DEF AbandonedInv, Emptied
  <2> QED BY <2>1, <2>2
<1> QED BY <1>7, <1>11, <1>12, <1>14, <1>16, <1>17, <1>18, <1>19

\* One class of the detached cache goes to the central bin.
LEMMA DetachClassStep ==
    ASSUME HeapInv, NEW t \in Threads, DetachClass(t)
    PROVE  HeapInv'
<1> USE HeapAssumption DEF HeapInv, DetachClass, Goto, Done,
      shared, lists, bins, arena, headers, locks
<1>1. PICK k, c : k = to[t] /\ c = cls[t]
  OBVIOUS
<1>2. PICK blocks : blocks = local[k][c].blocks \o spare[k][c].blocks
  OBVIOUS
<1>3. k \in Caches /\ k \in caches /\ c \in Classes
  BY <1>1 DEF VariablesTyped, OwnershipInv
<1> HIDE DEF DetachClass, Goto, Done
<1>4. blocks \in Seq(Blocks) /\ Len(blocks) \in Int
  <2>1. local[k][c].blocks \in Seq(Blocks) /\ spare[k][c].blocks \in Seq(Blocks)
    <3>1. local[k][c] \in Segments /\ spare[k][c] \in Segments
      BY <1>3 DEF VariablesTyped
    <3> QED BY <3>1 DEF Segments
  <2>2. blocks \in Seq(Blocks)
    BY <1>2, <2>1, ConcatProperties
  <2> QED BY <2>2, LenProperties
<1>5. memx_heap_push_central_chunks(c, Singles(blocks), Len(blocks))
  BY <1>1, <1>2 DEF DetachClass
<1>6. EmptySegment \in Segments
  BY EmptySegmentSound
<1>7. /\ local' \in [Caches -> [Classes -> Segments]]
      /\ spare' \in [Caches -> [Classes -> Segments]]
      /\ local'[k][c] = EmptySegment /\ spare'[k][c] = EmptySegment
      /\ \A j \in Caches, d \in Classes : j # k \/ d # c =>
            local'[j][d] = local[j][d] /\ spare'[j][d] = spare[j][d]
  BY <1>1, <1>3, <1>6 DEF VariablesTyped, DetachClass
<1>8. /\ UNCHANGED <<tls, caches, exclusive_cache, accepting_remote, remote,
                     next_span, span_classes, state, owner, class_lock,
                     arena_lock, program>>
      /\ pc[t] = "detach"
  BY DEF DetachClass
<1>9. /\ pc' \in [Threads -> Locations] /\ cls' \in [Threads -> Classes]
      /\ blk' \in [Threads -> Blocks \cup {NoBlock}]
      /\ to' \in [Threads -> Caches \cup {NoCache}]
      /\ pending' \in [Threads -> Seq(Blocks)]
      /\ \A u \in Threads : u # t =>
            /\ pc'[u] = pc[u] /\ cls'[u] = cls[u] /\ blk'[u] = blk[u]
            /\ to'[u] = to[u]
      /\ \/ c + 1 < ClassCount /\ pc'[t] = "detach" /\ cls'[t] = c + 1 /\ to'[t] = k
         \/ c + 1 >= ClassCount /\ pc'[t] = "idle"
  <2>1. CASE c + 1 < ClassCount
    <3>1. c + 1 \in Classes
      BY <1>3, <2>1 DEF Classes
    <3>2. cls' = [cls EXCEPT ![t] = c + 1] /\ UNCHANGED <<pc, blk, to, pending>>
      BY <1>1, <2>1 DEF DetachClass
    <3>3. pc[t] = "detach" /\ to[t] = k
      BY <1>1, <1>8
    <3>4. cls' \in [Threads -> Classes]
      BY <3>1, <3>2 DEF VariablesTyped
    <3> QED BY <2>1, <3>2, <3>3, <3>4 DEF VariablesTyped
  <2>2. CASE ~(c + 1 < ClassCount)
    <3>1. c + 1 >= ClassCount
      BY <1>3, <2>2 DEF Classes
    <3> QED BY <1>1, <2>2, <3>1, DoneTypes DEF DetachClass
  <2> QED BY <2>1, <2>2
<1>10. /\ central' \in [Classes -> Seq(Segments)]
      /\ central_count' \in [Classes -> Int]
      /\ CentralInv'
  BY <1>3, <1>4, <1>5, SinglesBin, CentralPush
<1>11. VariablesTyped'
  BY <1>7, <1>8, <1>9, <1>10 DEF VariablesTyped
<1>12. OwnershipInv' /\ FrameInv'
  <2>1. \A u \in Threads : pc'[u] = "detach" => pc[u] = "detach" /\ to'[u] = to[u]
    BY <1>1, <1>8, <1>9
  <2>2. \A u \in Threads : pc'[u] # "detach" /\ pc'[u] # "idle" =>
            pc'[u] = pc[u] /\ blk'[u] = blk[u] /\ to'[u] = to[u]
    BY <1>9
  <2>3. OwnershipInv'
    BY <1>8, <2>1 DEF OwnershipInv
  <2>4. FrameInv'
    BY <1>8, <2>2 DEF FrameInv, Refilling
  <2> QED BY <2>3, <2>4
<1>13. \A u \in Threads : tls[u] # k
  BY <1>1, <1>8 DEF OwnershipInv
<1>14. \A j \in Caches : j # k => (Detaching(j)' <=> Detaching(j))
  BY <1>1, <1>9 DEF Detaching
<1>15. \A d \in Classes : d < c => Emptied(k, d)
  BY <1>1, <1>8 DEF DetachInv
<1>16. \A d \in Classes : d <= c => Emptied(k, d)'
  <2> SUFFICES ASSUME NEW d \in Classes, d <= c PROVE Emptied(k, d)'
    OBVIOUS
  <2>1. CASE d = c
    BY <1>7, <2>1 DEF Emptied
  <2>2. CASE d # c
    <3>1. d < c
      BY <1>3, <2>2 DEF Classes
    <3> QED BY <1>3, <1>7, <1>15, <2>2, <3>1 DEF Emptied
  <2> QED BY <2>1, <2>2
<1>17. ~Detaching(k)' => \A d \in Classes : Emptied(k, d)'
  <2>1. ~Detaching(k)' => c + 1 >= ClassCount
    BY <1>9 DEF Detaching
  <2>2. c + 1 >= ClassCount => \A d \in Classes : d <= c
    BY <1>3 DEF Classes
  <2> QED BY <1>16, <2>1, <2>2
<1>18. CacheInv'
  <2> SUFFICES ASSUME NEW j \in Caches, NEW d \in Classes, ~Detaching(j)'
               PROVE  GoodPair(local'[j][d], spare'[j][d])
    BY DEF CacheInv
  <2>1. CASE j = k
    BY <1>17, <2>1, EmptySegmentSound DEF Emptied, GoodPair, EmptySegment
  <2>2. CASE j # k
    BY <1>7, <1>14, <2>2 DEF CacheInv
  <2> QED BY <2>1, <2>2
<1>19. RoomInv' /\ RefillInv'
  <2>1. \A u \in Threads : tls[u] # NoCache => tls[u] \in Caches /\ tls[u] # k
    BY <1>13 DEF VariablesTyped
  <2>2. \A u \in Threads, d \in Classes : tls[u] # NoCache =>
            /\ local'[tls[u]][d] = local[tls[u]][d]
            /\ spare'[tls[u]][d] = spare[tls[u]][d]
    BY <1>7, <2>1
  <2>3. \A u \in Threads : tls[u] # NoCache /\ u # t =>
            pc'[u] = pc[u] /\ cls'[u] = cls[u]
    BY <1>9
  <2>4. RoomInv'
    <3> SUFFICES ASSUME NEW u \in Threads, NEW d \in Classes, tls[u] # NoCache,
                        ~(pc'[u] = "pop" /\ cls'[u] = d)
                 PROVE  /\ local'[tls[u]][d].count < CacheLimit
                        /\ local'[tls[u]][d].count < CountMax
      BY <1>8 DEF RoomInv
    <3>1. ~(pc[u] = "pop" /\ cls[u] = d)
      BY <1>8, <2>3
    <3>2. local[tls[u]][d].count < CacheLimit /\ local[tls[u]][d].count < CountMax
      BY <3>1 DEF RoomInv
    <3> QED BY <2>2, <3>2
  <2>5. \A u \in Threads : pc'[u] \in Refilling =>
            u # t /\ pc[u] \in Refilling /\ tls[u] # NoCache
    BY <1>9 DEF FrameInv, Refilling
  <2>6. \A u \in Threads : cls[u] \in Classes
    BY DEF VariablesTyped
  <2>7. RefillInv'
    BY <1>8, <2>2, <2>3, <2>5, <2>6 DEF RefillInv
  <2> QED BY <2>4, <2>7
<1>20. DetachInv'
  <2> SUFFICES ASSUME NEW u \in Threads, pc'[u] = "detach",
                      NEW d \in Classes, d < cls'[u]
               PROVE  local'[to'[u]][d] = EmptySegment /\ spare'[to'[u]][d] = EmptySegment
    BY DEF DetachInv, Emptied
  <2>1. CASE u = t
    <3>1. d <= c /\ to'[u] = k
      BY <1>3, <1>9, <2>1 DEF Classes
    <3> QED BY <1>16, <3>1 DEF Emptied
  <2>2. CASE u # t
    <3>1. pc[u] = "detach" /\ to'[u] = to[u] /\ cls'[u] = cls[u]
      BY <1>9, <2>2
    <3>2. to[u] \in Caches /\ to[u] # k
      <4>1. to[u] \in caches /\ to[u] # to[t]
        BY <1>8, <2>2, <3>1 DEF OwnershipInv
      <4> QED BY <1>1, <4>1 DEF VariablesTyped
    <3>3. Emptied(to[u], d)
      BY <3>1 DEF DetachInv
    <3> QED BY <1>7, <3>1, <3>2, <3>3 DEF Emptied
  <2> QED BY <2>1, <2>2
<1>21. AbandonedInv'
  <2> SUFFICES ASSUME NEW j \in Caches, \A u \in Threads : tls'[u] # j,
                      NEW d \in Classes
               PROVE  /\ remote'[j][d] = <<>>
                      /\ ~Detaching(j)' => Emptied(j, d)'
    BY DEF AbandonedInv, Emptied
  <2>1. CASE j = k
    BY <1>8, <1>13, <1>17, <2>1 DEF AbandonedInv
  <2>2. CASE j # k
    BY <1>7, <1>8, <1>14, <2>2 DEF AbandonedInv, Emptied
  <2> QED BY <2>1, <2>2
<1> QED BY <1>10, <1>11, <1>12, <1>18, <1>19, <1>20, <1>21

-----------------------------------------------------------------------------
(***************************************************************************)
(* The theorems.                                                            *)
(***************************************************************************)

\* A step of any thread keeps the invariant.
LEMMA HeapInvNext == HeapInv /\ [Next]_vars => HeapInv'
<1> SUFFICES ASSUME HeapInv, [Next]_vars PROVE HeapInv'
  OBVIOUS
<1>1. ASSUME UNCHANGED vars PROVE HeapInv'
  BY <1>1 DEF vars, shared, lists, bins, arena, headers, locks, frame, HeapInv,
     VariablesTyped, OwnershipInv, FrameInv, CentralInv, CacheInv, RoomInv, RefillInv,
     DetachInv, AbandonedInv, Emptied, Detaching
<1>2. ASSUME NEW t \in Threads, Call(t) PROVE HeapInv'
  BY <1>1, <1>2, MallocStep, MallocNewCacheStep, FreeUncheckedStep, FreeLookupStep,
     DetachStep DEF Call, MallocNoCache
<1>3. ASSUME NEW t \in Threads, Step(t) PROVE HeapInv'
  BY <1>3, AllocateSmallStep, AdoptSpareStep, DrainTakeStep, DrainPushStep,
     DrainEndStep, LockClassStep, RefillChunkStep, LockArenaStep, ClaimSpanStep,
     ClaimFailStep, CarveStep, RefillFailStep, FreeCasStep, RouteLocalStep,
     RouteAwayStep, RouteRemoteStep, RouteCentralStep, DetachClassStep DEF Step
<1> QED BY <1>1, <1>2, <1>3 DEF Next

\* The inductive invariant holds in every reachable state of the heap.
THEOREM HeapInvariant == Spec => []HeapInv
BY HeapInvInit, HeapInvNext, PTL DEF Spec

\* Every variable keeps its type, whatever the threads do, spans are claimed
\* within the arena, and no chunk or spare segment outgrows the 32-bit count of
\* a chunk header (memx_heap_flush_excess_slow, memx_heap_push_central_chunks).
THEOREM HeapTypes == Spec => []TypeOK
<1>1. HeapInv => TypeOK
  <2> SUFFICES ASSUME HeapInv PROVE TypeOK
    OBVIOUS
  <2>1. \A k \in Caches, c \in Classes : ~Detaching(k) => spare[k][c].count <= CountMax
    BY DEF HeapInv, CacheInv, GoodPair
  <2>2. ASSUME NEW c \in Classes, NEW i \in 1 .. Len(central[c])
        PROVE  central[c][i].count \in 1 .. CountMax
    <3>1. GoodChunk(central[c][i])
      BY DEF HeapInv, CentralInv, GoodBin
    <3>2. central[c][i].count \in Nat
      BY <3>1 DEF GoodChunk, Segments
    <3> QED BY <3>1, <3>2, HeapAssumption DEF GoodChunk
  <2>3. VariablesTyped
    BY DEF HeapInv
  <2> QED BY <2>1, <2>2, <2>3 DEF TypeOK
<1> QED BY <1>1, HeapInvariant, PTL

\* Tail and count of every list spliced by memx_heap_refill,
\* memx_heap_flush_excess_slow and the remote drain describe the list.
THEOREM HeapSegmentsSound == Spec => []SegmentsSound
<1>1. HeapInv => SegmentsSound
  BY DEF HeapInv, CacheInv, GoodPair, CentralInv, GoodBin, GoodChunk, SegmentsSound
<1> QED BY <1>1, HeapInvariant, PTL

\* config.cache_limit bounds both segments of every thread cache, and the
\* assertion of memx_heap_trim_cache holds, for every accepted cache_limit and
\* cache_batch.
THEOREM HeapCacheBounded == Spec => []CacheBounded
<1>1. HeapInv => CacheBounded
  BY DEF HeapInv, CacheInv, GoodPair, RoomInv, CacheBounded
<1> QED BY <1>1, HeapInvariant, PTL

\* However a remote free races a detach, a cache nobody has keeps no block.
THEOREM HeapNothingStranded == Spec => []NothingStranded
<1>1. HeapInv => NothingStranded
  BY DEF HeapInv, AbandonedInv, Emptied, EmptySegment, NothingStranded
<1> QED BY <1>1, HeapInvariant, PTL

-----------------------------------------------------------------------------
(***************************************************************************)
(* The blocks, on top of the invariant so far.  The argument gives every    *)
(* block one place by means of a function at from blocks to places.  A list *)
(* that holds exactly the blocks at its place, each once, cannot share a    *)
(* block with another list; every action is then a change of at that moves  *)
(* blocks between the places it touches.                                    *)
(***************************************************************************)

-----------------------------------------------------------------------------
(***************************************************************************)
(* Places.                                                                  *)
(***************************************************************************)
InLocal(k, c) == <<"local", k, c>>
InSpare(k, c) == <<"spare", k, c>>
InRemote(k, c) == <<"remote", k, c>>
InCentral(c) == <<"central", 0, c>>
InPending(t) == <<"pending", t, 0>>
CarriedBy(t) == <<"carried", t, 0>>
InProgram == <<"program", 0, 0>>
Nowhere == <<"nowhere", 0, 0>>

IsPlace(p) ==
    \/ \E k \in Caches, c \in Classes :
            p = InLocal(k, c) \/ p = InSpare(k, c) \/ p = InRemote(k, c)
    \/ \E c \in Classes : p = InCentral(c)
    \/ \E t \in Threads : p = InPending(t) \/ p = CarriedBy(t)
    \/ p = InProgram
    \/ p = Nowhere

\* The first component of a place tells its kind, the others which one it is.
LEMMA PlaceNames ==
    /\ \A k, c : InLocal(k, c)[1] = "local"
    /\ \A k, c : InSpare(k, c)[1] = "spare"
    /\ \A k, c : InRemote(k, c)[1] = "remote"
    /\ \A c : InCentral(c)[1] = "central"
    /\ \A t : InPending(t)[1] = "pending"
    /\ \A t : CarriedBy(t)[1] = "carried"
    /\ InProgram[1] = "program"
    /\ Nowhere[1] = "nowhere"
    /\ \A k, c, j, d : InLocal(k, c) = InLocal(j, d) <=> k = j /\ c = d
    /\ \A k, c, j, d : InSpare(k, c) = InSpare(j, d) <=> k = j /\ c = d
    /\ \A k, c, j, d : InRemote(k, c) = InRemote(j, d) <=> k = j /\ c = d
    /\ \A c, d : InCentral(c) = InCentral(d) <=> c = d
    /\ \A t, u : InPending(t) = InPending(u) <=> t = u
    /\ \A t, u : CarriedBy(t) = CarriedBy(u) <=> t = u
BY DEF InLocal, InSpare, InRemote, InCentral, InPending, CarriedBy, InProgram, Nowhere

-----------------------------------------------------------------------------
(***************************************************************************)
(* Lists that hold the blocks at a place.                                   *)
(***************************************************************************)
Once(blocks) == \A i, j \in DOMAIN blocks : blocks[i] = blocks[j] => i = j

Has(blocks, b) == \E i \in DOMAIN blocks : blocks[i] = b

\* The list holds exactly the blocks at place p, each of them once.
Holds(blocks, at, p) ==
    /\ Once(blocks)
    /\ \A b \in Blocks : at[b] = p <=> Has(blocks, b)

\* The same of the chunks of a central bin together.
BinOnce(bin) ==
    \A m, n \in DOMAIN bin :
        \A i \in DOMAIN bin[m].blocks, j \in DOMAIN bin[n].blocks :
            bin[m].blocks[i] = bin[n].blocks[j] => m = n /\ i = j

BinHas(bin, b) == \E n \in DOMAIN bin : Has(bin[n].blocks, b)

BinHolds(bin, at, p) ==
    /\ BinOnce(bin)
    /\ \A b \in Blocks : at[b] = p <=> BinHas(bin, b)

\* The blocks of a list as a set.
BlocksOf(blocks) == {b \in Blocks : Has(blocks, b)}

\* The blocks in moved go to place p.
Move(at, moved, p) == [b \in Blocks |-> IF b \in moved THEN p ELSE at[b]]

\* A list is not concerned by the moves of blocks to or from elsewhere.
LEMMA HoldsSame ==
    ASSUME NEW blocks, NEW at, NEW new, NEW p, Holds(blocks, at, p),
           \A b \in Blocks : new[b] = p <=> at[b] = p
    PROVE  Holds(blocks, new, p)
BY DEF Holds

\* Nor is a bin.
LEMMA BinHoldsSame ==
    ASSUME NEW bin, NEW at, NEW new, NEW p, BinHolds(bin, at, p),
           \A b \in Blocks : new[b] = p <=> at[b] = p
    PROVE  BinHolds(bin, new, p)
BY DEF BinHolds

\* An empty list is right for a place with no block.
LEMMA HoldsNothing ==
    ASSUME NEW at, NEW p, \A b \in Blocks : at[b] # p
    PROVE  Holds(<<>>, at, p)
BY DEF Holds, Once, Has

\* A list in front of another that holds other blocks.
LEMMA HoldsConcat ==
    ASSUME NEW first \in Seq(Blocks), NEW second \in Seq(Blocks),
           Once(first), Once(second),
           \A b \in Blocks : ~(Has(first, b) /\ Has(second, b)),
           NEW at, NEW p,
           \A b \in Blocks : at[b] = p <=> Has(first, b) \/ Has(second, b)
    PROVE  Holds(first \o second, at, p)
<1> DEFINE m == Len(first)
           n == Len(second)
<1>1. PICK all : all = first \o second
  OBVIOUS
<1>2. /\ m \in Nat /\ n \in Nat
      /\ DOMAIN first = 1 .. m /\ DOMAIN second = 1 .. n
      /\ all \in Seq(Blocks)
      /\ DOMAIN all = 1 .. m + n
      /\ \A i \in 1 .. m + n : all[i] = IF i <= m THEN first[i] ELSE second[i - m]
  BY <1>1, ConcatProperties, LenProperties
<1> HIDE DEF m, n
<1>3. \A i \in 1 .. m : i \in 1 .. m + n /\ all[i] = first[i]
  BY <1>2
<1>4. \A j \in 1 .. n : j + m \in 1 .. m + n /\ all[j + m] = second[j]
  BY <1>2
<1>5. \A i \in 1 .. m + n : i \in 1 .. m \/ i - m \in 1 .. n
  BY <1>2
<1>6. Once(all)
  <2> SUFFICES ASSUME NEW i \in 1 .. m + n, NEW j \in 1 .. m + n, all[i] = all[j]
               PROVE  i = j
    BY <1>2 DEF Once
  <2>1. CASE i <= m /\ j <= m
    <3>1. i \in 1 .. m /\ j \in 1 .. m /\ first[i] = first[j]
      BY <1>2, <2>1
    <3> QED BY <1>2, <3>1 DEF Once
  <2>2. CASE i > m /\ j > m
    <3>1. i - m \in 1 .. n /\ j - m \in 1 .. n /\ second[i - m] = second[j - m]
      BY <1>2, <2>2
    <3>2. i - m = j - m
      BY <1>2, <3>1 DEF Once
    <3> QED BY <1>2, <3>2
  <2>3. CASE i <= m /\ j > m
    <3>1. i \in 1 .. m /\ j - m \in 1 .. n /\ first[i] = second[j - m]
      BY <1>2, <2>3
    <3>2. first[i] \in Blocks /\ Has(first, first[i]) /\ Has(second, first[i])
      BY <1>2, <3>1, ElementOfSeq DEF Has, m
    <3> QED BY <3>2
  <2>4. CASE i > m /\ j <= m
    <3>1. j \in 1 .. m /\ i - m \in 1 .. n /\ first[j] = second[i - m]
      BY <1>2, <2>4
    <3>2. first[j] \in Blocks /\ Has(first, first[j]) /\ Has(second, first[j])
      BY <1>2, <3>1, ElementOfSeq DEF Has, m
    <3> QED BY <3>2
  <2> QED BY <1>2, <2>1, <2>2, <2>3, <2>4
<1>7. ASSUME NEW b \in Blocks
      PROVE  Has(all, b) <=> Has(first, b) \/ Has(second, b)
  <2>1. ASSUME NEW i \in 1 .. m + n, all[i] = b
        PROVE  Has(first, b) \/ Has(second, b)
    <3>1. CASE i <= m
      BY <1>2, <2>1, <3>1 DEF Has
    <3>2. CASE i > m
      <4>1. i - m \in 1 .. n /\ second[i - m] = b
        BY <1>2, <2>1, <3>2
      <4> QED BY <1>2, <4>1 DEF Has
    <3> QED BY <1>2, <3>1, <3>2
  <2>2. ASSUME NEW i \in 1 .. m, first[i] = b PROVE \E j \in 1 .. m + n : all[j] = b
    BY <1>3, <2>2
  <2>3. ASSUME NEW i \in 1 .. n, second[i] = b PROVE \E j \in 1 .. m + n : all[j] = b
    BY <1>4, <2>3
  <2> QED BY <1>2, <2>1, <2>2, <2>3 DEF Has
<1> QED BY <1>1, <1>6, <1>7 DEF Holds

\* A block put in front of a list.
LEMMA HoldsPush ==
    ASSUME NEW blocks \in Seq(Blocks), NEW b \in Blocks, NEW at, NEW p,
           Holds(blocks, at, p), at[b] # p
    PROVE  Holds(<<b>> \o blocks, Move(at, {b}, p), p)
<1>1. /\ <<b>> \in Seq(Blocks) /\ DOMAIN <<b>> = {1} /\ <<b>>[1] = b
      /\ Once(<<b>>)
  BY DEF Once
<1>2. \A d : Has(<<b>>, d) <=> d = b
  BY <1>1 DEF Has
<1>3. /\ \A d \in Blocks : ~(Has(<<b>>, d) /\ Has(blocks, d))
      /\ \A d \in Blocks : Move(at, {b}, p)[d] = p <=>
            Has(<<b>>, d) \/ Has(blocks, d)
  BY <1>2 DEF Holds, Move
<1>4. Once(blocks)
  BY DEF Holds
<1> QED BY <1>1, <1>3, <1>4, HoldsConcat

\* The first block of a list goes elsewhere.
LEMMA HoldsPop ==
    ASSUME NEW blocks \in Seq(Blocks), blocks # <<>>, NEW at, NEW p, NEW q, p # q,
           Holds(blocks, at, p)
    PROVE  /\ Head(blocks) \in Blocks
           /\ at[Head(blocks)] = p
           /\ Holds(Tail(blocks), Move(at, {Head(blocks)}, q), p)
<1> DEFINE n == Len(blocks)
<1>1. PICK rest : rest = Tail(blocks)
  OBVIOUS
<1>2. PICK first : first = Head(blocks)
  OBVIOUS
<1>3. /\ n \in Nat /\ n >= 1 /\ DOMAIN blocks = 1 .. n
      /\ first \in Blocks /\ first = blocks[1]
      /\ rest \in Seq(Blocks) /\ DOMAIN rest = 1 .. n - 1
      /\ \A i \in 1 .. n - 1 : rest[i] = blocks[i + 1]
  BY <1>1, <1>2, HeadTailProperties, EmptySeq, LenProperties
<1> HIDE DEF n
<1>4. at[first] = p
  <2>1. 1 \in DOMAIN blocks
    BY <1>3
  <2> QED BY <1>3, <2>1 DEF Holds, Has
<1>5. \A i \in 1 .. n - 1 : i + 1 \in 1 .. n
  BY <1>3
<1>6. \A i, j \in 1 .. n - 1 : i + 1 = j + 1 => i = j
  BY <1>3
<1>7. Once(rest)
  <2> SUFFICES ASSUME NEW i \in 1 .. n - 1, NEW j \in 1 .. n - 1, rest[i] = rest[j]
               PROVE  i = j
    BY <1>3 DEF Once
  <2>1. blocks[i + 1] = blocks[j + 1] /\ i + 1 \in 1 .. n /\ j + 1 \in 1 .. n
    BY <1>3, <1>5
  <2>2. \A x, y \in 1 .. n : blocks[x] = blocks[y] => x = y
    BY <1>3 DEF Once, Holds
  <2>3. i + 1 = j + 1
    BY <2>1, <2>2
  <2> QED BY <1>6, <2>3
<1>8. ASSUME NEW b \in Blocks
      PROVE  (\E i \in 1 .. n - 1 : rest[i] = b) <=>
                (b # first /\ \E i \in 1 .. n : blocks[i] = b)
  <2>1. ASSUME NEW i \in 1 .. n - 1, rest[i] = b PROVE b # first
    <3>1. i + 1 \in 1 .. n /\ 1 \in 1 .. n /\ i + 1 # 1 /\ blocks[i + 1] = b
      BY <1>3, <2>1
    <3> QED BY <1>3, <3>1 DEF Holds, Once
  <2>2. ASSUME NEW i \in 1 .. n, blocks[i] = b, b # first
        PROVE  \E j \in 1 .. n - 1 : rest[j] = b
    <3>1. i - 1 \in 1 .. n - 1 /\ (i - 1) + 1 = i
      BY <1>3, <2>2
    <3> QED BY <1>3, <2>2, <3>1
  <2> QED BY <1>3, <1>5, <2>1, <2>2
<1>9. Holds(rest, Move(at, {first}, q), p)
  BY <1>3, <1>7, <1>8 DEF Holds, Move, Has
<1> QED BY <1>1, <1>2, <1>3, <1>4, <1>9

\* The blocks of an emptied list.
LEMMA HoldsCleared ==
    ASSUME NEW blocks, NEW at, NEW p, NEW q, p # q, Holds(blocks, at, p)
    PROVE  Holds(<<>>, Move(at, BlocksOf(blocks), q), p)
<1>1. \A b \in Blocks : Move(at, BlocksOf(blocks), q)[b] # p
  BY DEF Holds, Move, BlocksOf
<1> QED BY <1>1, HoldsNothing

\* A list that becomes the list of a place without blocks.
LEMMA HoldsTaken ==
    ASSUME NEW blocks, NEW at, NEW p, NEW q, Holds(blocks, at, p),
           \A b \in Blocks : at[b] # q
    PROVE  Holds(blocks, Move(at, BlocksOf(blocks), q), q)
BY DEF Holds, Move, BlocksOf

\* A list put in front of another takes its blocks along.
LEMMA HoldsSplice ==
    ASSUME NEW first \in Seq(Blocks), NEW second \in Seq(Blocks), NEW at, NEW p,
           Once(first), Holds(second, at, p),
           \A b \in BlocksOf(first) : at[b] # p
    PROVE  Holds(first \o second, Move(at, BlocksOf(first), p), p)
<1>1. \A b \in Blocks : ~(Has(first, b) /\ Has(second, b))
  BY DEF Holds, BlocksOf
<1>2. \A b \in Blocks : Move(at, BlocksOf(first), p)[b] = p <=>
            Has(first, b) \/ Has(second, b)
  BY DEF Holds, BlocksOf, Move
<1>3. Once(second)
  BY DEF Holds
<1> QED BY <1>1, <1>2, <1>3, HoldsConcat

\* A list turned round holds the same blocks.
LEMMA ReverseOnce ==
    ASSUME NEW blocks \in Seq(Blocks), Once(blocks)
    PROVE  /\ Reverse(blocks) \in Seq(Blocks)
           /\ Once(Reverse(blocks))
           /\ \A b : Has(Reverse(blocks), b) <=> Has(blocks, b)
<1> DEFINE n == Len(blocks)
<1>1. PICK turned : turned = Reverse(blocks)
  OBVIOUS
<1>2. /\ n \in Nat /\ DOMAIN blocks = 1 .. n
      /\ blocks \in [1 .. n -> Blocks]
  BY LenProperties
<1>3. turned = [i \in 1 .. n |-> blocks[(n - i) + 1]]
  BY <1>1 DEF Reverse
<1> HIDE DEF n
<1>4. \A i \in 1 .. n : (n - i) + 1 \in 1 .. n /\ (n - ((n - i) + 1)) + 1 = i
  BY <1>2
<1>5. /\ turned \in [1 .. n -> Blocks]
      /\ \A i \in 1 .. n : turned[i] = blocks[(n - i) + 1]
  BY <1>2, <1>3, <1>4
<1>6. turned \in Seq(Blocks)
  BY <1>2, <1>5, IsASeq
<1>7. Once(turned)
  <2> SUFFICES ASSUME NEW i \in 1 .. n, NEW j \in 1 .. n, turned[i] = turned[j]
               PROVE  i = j
    BY <1>5 DEF Once
  <2>1. \A x, y \in 1 .. n : blocks[x] = blocks[y] => x = y
    BY <1>2 DEF Once
  <2>2. (n - i) + 1 = (n - j) + 1
    BY <1>4, <1>5, <2>1
  <2> QED BY <1>2, <2>2
<1>8. \A b : Has(turned, b) <=> Has(blocks, b)
  <2> TAKE b
  <2>1. ASSUME NEW i \in 1 .. n, turned[i] = b PROVE Has(blocks, b)
    BY <1>2, <1>4, <1>5, <2>1 DEF Has
  <2>2. ASSUME NEW i \in 1 .. n, blocks[i] = b PROVE Has(turned, b)
    <3>1. (n - i) + 1 \in 1 .. n /\ turned[(n - i) + 1] = b
      BY <1>4, <1>5, <2>2
    <3> QED BY <1>5, <3>1 DEF Has
  <2> QED BY <1>2, <1>5, <2>1, <2>2 DEF Has
<1> QED BY <1>1, <1>6, <1>7, <1>8

-----------------------------------------------------------------------------
(***************************************************************************)
(* Central bins.                                                            *)
(***************************************************************************)
\* Chunks put in front of others that hold other blocks.
LEMMA BinConcat ==
    ASSUME NEW first \in Seq(Segments), NEW second \in Seq(Segments),
           BinOnce(first), BinOnce(second),
           \A b \in Blocks : ~(BinHas(first, b) /\ BinHas(second, b)),
           NEW at, NEW p,
           \A b \in Blocks : at[b] = p <=> BinHas(first, b) \/ BinHas(second, b)
    PROVE  BinHolds(first \o second, at, p)
<1> DEFINE m == Len(first)
           n == Len(second)
<1>1. PICK all : all = first \o second
  OBVIOUS
<1>2. /\ m \in Nat /\ n \in Nat
      /\ DOMAIN first = 1 .. m /\ DOMAIN second = 1 .. n
      /\ all \in Seq(Segments)
      /\ DOMAIN all = 1 .. m + n
      /\ \A i \in 1 .. m + n : all[i] = IF i <= m THEN first[i] ELSE second[i - m]
  BY <1>1, ConcatProperties, LenProperties
<1>a. /\ \A i \in 1 .. m : first[i].blocks \in Seq(Blocks)
      /\ \A i \in 1 .. n : second[i].blocks \in Seq(Blocks)
  <2>1. \A i \in 1 .. m : first[i] \in Segments
    BY ElementOfSeq
  <2>2. \A i \in 1 .. n : second[i] \in Segments
    BY ElementOfSeq
  <2> QED BY <2>1, <2>2 DEF Segments
<1> HIDE DEF m, n
<1>3. \A i \in 1 .. m : i \in 1 .. m + n /\ all[i] = first[i]
  BY <1>2
<1>4. \A j \in 1 .. n : j + m \in 1 .. m + n /\ all[j + m] = second[j]
  BY <1>2
<1>b. ASSUME NEW x \in 1 .. m, NEW y \in 1 .. n,
             NEW i \in DOMAIN first[x].blocks, NEW j \in DOMAIN second[y].blocks
      PROVE  first[x].blocks[i] # second[y].blocks[j]
  <2> SUFFICES ASSUME first[x].blocks[i] = second[y].blocks[j] PROVE FALSE
    OBVIOUS
  <2>1. first[x].blocks[i] \in Blocks
    BY <1>a, ElementOfSeq, LenProperties
  <2>2. BinHas(first, first[x].blocks[i]) /\ BinHas(second, first[x].blocks[i])
    BY <1>2 DEF BinHas, Has
  <2> QED BY <2>1, <2>2
<1>6. BinOnce(all)
  <2> SUFFICES ASSUME NEW x \in 1 .. m + n, NEW y \in 1 .. m + n,
                      NEW i \in DOMAIN all[x].blocks, NEW j \in DOMAIN all[y].blocks,
                      all[x].blocks[i] = all[y].blocks[j]
               PROVE  x = y /\ i = j
    BY <1>2 DEF BinOnce
  <2>1. CASE x <= m /\ y <= m
    <3>1. x \in 1 .. m /\ y \in 1 .. m /\ all[x] = first[x] /\ all[y] = first[y]
      BY <1>2, <2>1
    <3> QED BY <1>2, <3>1 DEF BinOnce
  <2>2. CASE x > m /\ y > m
    <3>1. PICK v \in 1 .. n : v = x - m /\ all[x] = second[v]
      BY <1>2, <2>2
    <3>2. PICK w \in 1 .. n : w = y - m /\ all[y] = second[w]
      BY <1>2, <2>2
    <3>3. /\ i \in DOMAIN second[v].blocks /\ j \in DOMAIN second[w].blocks
          /\ second[v].blocks[i] = second[w].blocks[j]
      BY <3>1, <3>2
    <3>4. v = w /\ i = j
      BY <1>2, <3>3 DEF BinOnce
    <3> QED BY <1>2, <3>1, <3>2, <3>4
  <2>3. CASE x <= m /\ y > m
    <3>1. x \in 1 .. m /\ all[x] = first[x]
      BY <1>2, <2>3
    <3>2. PICK w \in 1 .. n : w = y - m /\ all[y] = second[w]
      BY <1>2, <2>3
    <3> QED BY <1>b, <3>1, <3>2
  <2>4. CASE x > m /\ y <= m
    <3>1. y \in 1 .. m /\ all[y] = first[y]
      BY <1>2, <2>4
    <3>2. PICK v \in 1 .. n : v = x - m /\ all[x] = second[v]
      BY <1>2, <2>4
    <3> QED BY <1>b, <3>1, <3>2
  <2> QED BY <1>2, <2>1, <2>2, <2>3, <2>4
<1>7. ASSUME NEW b \in Blocks
      PROVE  BinHas(all, b) <=> BinHas(first, b) \/ BinHas(second, b)
  <2>1. ASSUME NEW i \in 1 .. m + n, Has(all[i].blocks, b)
        PROVE  BinHas(first, b) \/ BinHas(second, b)
    <3>1. CASE i <= m
      BY <1>2, <2>1, <3>1 DEF BinHas
    <3>2. CASE i > m
      <4>1. i - m \in 1 .. n /\ all[i] = second[i - m]
        BY <1>2, <2>1, <3>2
      <4> QED BY <1>2, <2>1, <4>1 DEF BinHas
    <3> QED BY <1>2, <3>1, <3>2
  <2>2. ASSUME NEW i \in 1 .. m, Has(first[i].blocks, b) PROVE BinHas(all, b)
    BY <1>2, <1>3, <2>2 DEF BinHas
  <2>3. ASSUME NEW i \in 1 .. n, Has(second[i].blocks, b) PROVE BinHas(all, b)
    BY <1>2, <1>4, <2>3 DEF BinHas
  <2> QED BY <1>2, <2>1, <2>2, <2>3 DEF BinHas
<1> QED BY <1>1, <1>6, <1>7 DEF BinHolds

\* The order of the chunks does not matter.
LEMMA ReverseBinOnce ==
    ASSUME NEW chunks \in Seq(Segments), BinOnce(chunks)
    PROVE  /\ Reverse(chunks) \in Seq(Segments)
           /\ BinOnce(Reverse(chunks))
           /\ \A b : BinHas(Reverse(chunks), b) <=> BinHas(chunks, b)
<1> DEFINE n == Len(chunks)
<1>1. PICK turned : turned = Reverse(chunks)
  OBVIOUS
<1>2. /\ n \in Nat /\ DOMAIN chunks = 1 .. n
      /\ chunks \in [1 .. n -> Segments]
  BY LenProperties
<1>3. turned = [i \in 1 .. n |-> chunks[(n - i) + 1]]
  BY <1>1 DEF Reverse
<1> HIDE DEF n
<1>4. \A i \in 1 .. n : (n - i) + 1 \in 1 .. n /\ (n - ((n - i) + 1)) + 1 = i
  BY <1>2
<1>5. /\ turned \in [1 .. n -> Segments]
      /\ \A i \in 1 .. n : turned[i] = chunks[(n - i) + 1]
  BY <1>2, <1>3, <1>4
<1>6. turned \in Seq(Segments)
  BY <1>2, <1>5, IsASeq
<1>7. BinOnce(turned)
  <2> SUFFICES ASSUME NEW x \in 1 .. n, NEW y \in 1 .. n,
                      NEW i \in DOMAIN turned[x].blocks,
                      NEW j \in DOMAIN turned[y].blocks,
                      turned[x].blocks[i] = turned[y].blocks[j]
               PROVE  x = y /\ i = j
    BY <1>5 DEF BinOnce
  <2>1. PICK v \in 1 .. n : v = (n - x) + 1 /\ turned[x] = chunks[v]
    BY <1>4, <1>5
  <2>2. PICK w \in 1 .. n : w = (n - y) + 1 /\ turned[y] = chunks[w]
    BY <1>4, <1>5
  <2>3. v = w /\ i = j
    BY <1>2, <2>1, <2>2 DEF BinOnce
  <2> QED BY <1>2, <2>1, <2>2, <2>3
<1>8. \A b : BinHas(turned, b) <=> BinHas(chunks, b)
  <2> TAKE b
  <2>1. ASSUME NEW i \in 1 .. n, Has(turned[i].blocks, b) PROVE BinHas(chunks, b)
    BY <1>2, <1>4, <1>5, <2>1 DEF BinHas
  <2>2. ASSUME NEW i \in 1 .. n, Has(chunks[i].blocks, b) PROVE BinHas(turned, b)
    <3>1. (n - i) + 1 \in 1 .. n /\ turned[(n - i) + 1] = chunks[i]
      BY <1>4, <1>5
    <3> QED BY <1>5, <2>2, <3>1 DEF BinHas
  <2> QED BY <1>2, <1>5, <2>1, <2>2 DEF BinHas
<1> QED BY <1>1, <1>6, <1>7, <1>8

\* memx_heap_push_central_chunk_locked for each of chunks: the bin gains their
\* blocks.
LEMMA BinPushed ==
    ASSUME NEW chunks \in Seq(Segments), NEW bin \in Seq(Segments),
           BinOnce(chunks), NEW at, NEW p, BinHolds(bin, at, p),
           NEW moved, \A b \in Blocks : b \in moved <=> BinHas(chunks, b),
           \A b \in Blocks : b \in moved => at[b] # p
    PROVE  BinHolds(Reverse(chunks) \o bin, Move(at, moved, p), p)
<1>1. PICK turned : turned = Reverse(chunks)
  OBVIOUS
<1>2. /\ turned \in Seq(Segments) /\ BinOnce(turned)
      /\ \A b : BinHas(turned, b) <=> BinHas(chunks, b)
  BY <1>1, ReverseBinOnce
<1>3. BinOnce(bin) /\ \A b \in Blocks : at[b] = p <=> BinHas(bin, b)
  BY DEF BinHolds
<1>4. \A b \in Blocks : ~(BinHas(turned, b) /\ BinHas(bin, b))
  BY <1>2, <1>3
<1>5. \A b \in Blocks : Move(at, moved, p)[b] = p <=>
            BinHas(turned, b) \/ BinHas(bin, b)
  BY <1>2, <1>3 DEF Move
<1> QED BY <1>1, <1>2, <1>3, <1>4, <1>5, BinConcat

\* A single chunk.
LEMMA OneChunkOnce ==
    ASSUME NEW chunk \in Segments, Once(chunk.blocks)
    PROVE  /\ <<chunk>> \in Seq(Segments)
           /\ BinOnce(<<chunk>>)
           /\ \A b : BinHas(<<chunk>>, b) <=> Has(chunk.blocks, b)
<1>1. /\ <<chunk>> \in Seq(Segments)
      /\ DOMAIN <<chunk>> = {1} /\ <<chunk>>[1] = chunk
  OBVIOUS
<1> QED BY <1>1 DEF BinOnce, BinHas, Once

\* The chunks of one block each that a detach pushes.
LEMMA SinglesOnce ==
    ASSUME NEW blocks \in Seq(Blocks), Once(blocks)
    PROVE  /\ Singles(blocks) \in Seq(Segments)
           /\ BinOnce(Singles(blocks))
           /\ \A b : BinHas(Singles(blocks), b) <=> Has(blocks, b)
<1>1. PICK all : all = Singles(blocks)
  OBVIOUS
<1>2. all \in Seq(Segments)
  BY <1>1, SinglesBin DEF GoodBin
<1>3. /\ DOMAIN all = DOMAIN blocks
      /\ \A i \in DOMAIN blocks : all[i].blocks = <<blocks[i]>>
  BY <1>1 DEF Singles, Single
<1>4. \A x : DOMAIN <<x>> = {1} /\ <<x>>[1] = x
  OBVIOUS
<1>5. BinOnce(all)
  BY <1>3, <1>4 DEF BinOnce, Once
<1>6. \A b : BinHas(all, b) <=> Has(blocks, b)
  BY <1>3, <1>4 DEF BinHas, Has
<1> QED BY <1>1, <1>2, <1>5, <1>6

\* The top chunk of a bin leaves it with its blocks.
LEMMA BinPop ==
    ASSUME NEW bin \in Seq(Segments), bin # <<>>, NEW at, NEW p, NEW q, p # q,
           BinHolds(bin, at, p)
    PROVE  LET chunk == Head(bin) IN
           /\ chunk \in Segments
           /\ Once(chunk.blocks)
           /\ \A b \in BlocksOf(chunk.blocks) : at[b] = p
           /\ BinHolds(Tail(bin), Move(at, BlocksOf(chunk.blocks), q), p)
<1> DEFINE n == Len(bin)
<1>1. PICK rest : rest = Tail(bin)
  OBVIOUS
<1>2. PICK first : first = Head(bin)
  OBVIOUS
<1>3. /\ n \in Nat /\ n >= 1 /\ DOMAIN bin = 1 .. n
      /\ first \in Segments /\ first = bin[1]
      /\ rest \in Seq(Segments) /\ DOMAIN rest = 1 .. n - 1
      /\ \A i \in 1 .. n - 1 : rest[i] = bin[i + 1]
  BY <1>1, <1>2, HeadTailProperties, EmptySeq, LenProperties
<1> HIDE DEF n
<1>a. 1 \in 1 .. n
  BY <1>3
<1>4. Once(first.blocks)
  BY <1>3, <1>a DEF BinHolds, BinOnce, Once
<1>5. \A b \in BlocksOf(first.blocks) : BinHas(bin, b) /\ at[b] = p
  BY <1>3, <1>a DEF BinHolds, BinHas, BlocksOf
<1>6. \A i \in 1 .. n - 1 : i + 1 \in 1 .. n /\ i + 1 # 1
  BY <1>3
<1>7. BinOnce(rest)
  <2> SUFFICES ASSUME NEW x \in 1 .. n - 1, NEW y \in 1 .. n - 1,
                      NEW i \in DOMAIN rest[x].blocks, NEW j \in DOMAIN rest[y].blocks,
                      rest[x].blocks[i] = rest[y].blocks[j]
               PROVE  x = y /\ i = j
    BY <1>3 DEF BinOnce
  <2>1. PICK v \in 1 .. n : v = x + 1 /\ rest[x] = bin[v]
    BY <1>3, <1>6
  <2>2. PICK w \in 1 .. n : w = y + 1 /\ rest[y] = bin[w]
    BY <1>3, <1>6
  <2>3. /\ i \in DOMAIN bin[v].blocks /\ j \in DOMAIN bin[w].blocks
        /\ bin[v].blocks[i] = bin[w].blocks[j]
    BY <2>1, <2>2
  <2>4. v = w /\ i = j
    BY <1>3, <2>3 DEF BinHolds, BinOnce
  <2> QED BY <1>3, <2>1, <2>2, <2>4
<1>8. ASSUME NEW b \in Blocks
      PROVE  BinHas(rest, b) <=> BinHas(bin, b) /\ ~Has(first.blocks, b)
  <2>1. ASSUME NEW x \in 1 .. n - 1, Has(rest[x].blocks, b)
        PROVE  BinHas(bin, b) /\ ~Has(first.blocks, b)
    <3>1. PICK v \in 1 .. n : v # 1 /\ rest[x] = bin[v]
      BY <1>3, <1>6
    <3>2. BinHas(bin, b)
      BY <1>3, <2>1, <3>1 DEF BinHas
    <3>3. PICK i \in DOMAIN bin[v].blocks : bin[v].blocks[i] = b
      BY <2>1, <3>1 DEF Has
    <3>4. ASSUME NEW j \in DOMAIN bin[1].blocks, bin[1].blocks[j] = b PROVE FALSE
      <4>1. bin[v].blocks[i] = bin[1].blocks[j]
        BY <3>3, <3>4
      <4>2. v = 1
        BY <1>3, <1>a, <4>1 DEF BinHolds, BinOnce
      <4> QED BY <3>1, <4>2
    <3> QED BY <1>3, <3>2, <3>4 DEF Has
  <2>2. ASSUME NEW x \in 1 .. n, Has(bin[x].blocks, b), ~Has(first.blocks, b)
        PROVE  BinHas(rest, b)
    <3>1. x - 1 \in 1 .. n - 1 /\ (x - 1) + 1 = x
      BY <1>3, <2>2
    <3> QED BY <1>3, <2>2, <3>1 DEF BinHas
  <2> QED BY <1>3, <2>1, <2>2 DEF BinHas
<1>9. BinHolds(rest, Move(at, BlocksOf(first.blocks), q), p)
  BY <1>7, <1>8 DEF BinHolds, Move, BlocksOf
<1> QED BY <1>1, <1>2, <1>3, <1>4, <1>5, <1>9

-----------------------------------------------------------------------------
(***************************************************************************)
(* A carved span.                                                           *)
(***************************************************************************)
\* The span of a block given by span and index.
LEMMA SpanOfBlock ==
    ASSUME NEW span \in Nat, NEW x \in Nat, x < BlocksPerSpan
    PROVE  SpanOf(BlockOf(span, x)) = span
<1> DEFINE n == BlocksPerSpan
           a == span * n + x
<1>1. n \in Nat \ {0} /\ a \in Nat /\ span * n \in Nat
  BY HeapAssumption
<1>2. a < (span + 1) * n /\ (span + 1) * n = span * n + n
  BY <1>1
<1>3. a \div n < span + 1
  BY <1>1, <1>2, DivisionLess
<1>4. a \div n \in Nat /\ a < (a \div n) * n + n
  BY <1>1, DivisionBounds
<1>5. ASSUME a \div n < span PROVE FALSE
  <2>1. a \div n + 1 \in Nat /\ a \div n + 1 <= span
    BY <1>4, <1>5
  <2>2. (a \div n + 1) * n <= span * n
    BY <1>1, <2>1, ProductMonotone
  <2>3. (a \div n + 1) * n = (a \div n) * n + n /\ (a \div n) * n \in Nat
    BY <1>1, <1>4
  <2> QED BY <1>1, <1>4, <2>2, <2>3
<1> QED BY <1>3, <1>4, <1>5 DEF SpanOf, BlockOf

\* Every block is the one given by its span and an index.
LEMMA BlockOfSpan ==
    ASSUME NEW b \in Blocks
    PROVE  \E x \in Nat : x < BlocksPerSpan /\ b = BlockOf(SpanOf(b), x)
<1>1. b \in Nat /\ BlocksPerSpan \in Nat \ {0}
  BY HeapAssumption DEF Blocks
<1>2. /\ SpanOf(b) \in Nat /\ SpanOf(b) * BlocksPerSpan \in Nat
      /\ SpanOf(b) * BlocksPerSpan <= b
      /\ b < SpanOf(b) * BlocksPerSpan + BlocksPerSpan
  BY <1>1, DivisionBounds DEF SpanOf
<1>3. /\ b - SpanOf(b) * BlocksPerSpan \in Nat
      /\ b - SpanOf(b) * BlocksPerSpan < BlocksPerSpan
      /\ b = SpanOf(b) * BlocksPerSpan + (b - SpanOf(b) * BlocksPerSpan)
  BY <1>1, <1>2
<1> QED BY <1>3 DEF BlockOf

\* The chunks memx_heap_create_span_locked carves hold every block of the span
\* once, the shorter last chunk included.
LEMMA CarvedOnce ==
    ASSUME NEW span \in Spans
    PROVE  /\ CarvedChunks(span) \in Seq(Segments)
           /\ BinOnce(CarvedChunks(span))
           /\ \A b \in Blocks : BinHas(CarvedChunks(span), b) <=> SpanOf(b) = span
<1> DEFINE L == ChunkLimit
           B == BlocksPerSpan
           N == (B + L - 1) \div L
           lo(j) == (j - 1) * L
           hi(j) == IF j * L < B THEN j * L ELSE B
<1>1. L \in Nat /\ L >= 1 /\ B \in Nat /\ B >= 1 /\ B + L - 1 \in Nat /\ span \in Nat
  BY HeapAssumption, ChunkLimitBounds DEF Spans
<1>2. N \in Nat /\ N * L \in Nat /\ N * L <= B + L - 1 /\ B + L - 1 < N * L + L
  BY <1>1, DivisionBounds
<1>3. PICK all : all = CarvedChunks(span)
  OBVIOUS
<1>4. all \in Seq(Segments)
  BY <1>3, CarvedBin DEF GoodBin
<1>5. /\ DOMAIN all = 1 .. N
      /\ \A j \in 1 .. N : all[j].blocks =
            [i \in 1 .. hi(j) - lo(j) |-> BlockOf(span, hi(j) - i)]
  BY <1>3 DEF CarvedChunks, CarvedChunk
<1>6. ASSUME NEW j \in 1 .. N
      PROVE  /\ lo(j) \in Nat /\ hi(j) \in Nat
             /\ lo(j) < hi(j) /\ hi(j) <= B /\ hi(j) <= j * L /\ j * L = lo(j) + L
  <2>1. j - 1 \in Nat /\ j \in Nat /\ j <= N
    BY <1>2
  <2>2. lo(j) \in Nat /\ j * L = lo(j) + L
    BY <1>1, <2>1
  <2>3. j * L <= N * L
    BY <1>1, <1>2, <2>1, ProductMonotone
  <2> QED BY <1>1, <1>2, <2>2, <2>3
<1> HIDE DEF N, lo, hi
<1>7. ASSUME NEW j \in 1 .. N, NEW i \in DOMAIN all[j].blocks
      PROVE  /\ i \in Nat /\ hi(j) - i \in Nat
             /\ lo(j) <= hi(j) - i /\ hi(j) - i < hi(j)
             /\ all[j].blocks[i] = span * B + (hi(j) - i)
  <2>1. i \in 1 .. hi(j) - lo(j) /\ all[j].blocks[i] = BlockOf(span, hi(j) - i)
    BY <1>5
  <2> QED BY <1>6, <2>1 DEF BlockOf
<1>8. ASSUME NEW j \in 1 .. N, NEW k \in 1 .. N, j < k PROVE hi(j) <= lo(k)
  <2>1. j \in Nat /\ k - 1 \in Nat /\ j <= k - 1
    BY <1>2, <1>8
  <2>2. j * L <= (k - 1) * L
    BY <1>1, <2>1, ProductMonotone
  <2>3. hi(j) <= j * L /\ j * L = lo(j) + L /\ hi(j) \in Nat /\ lo(j) \in Nat
    BY <1>6
  <2>4. lo(k) = (k - 1) * L /\ lo(k) \in Nat
    BY <1>6 DEF lo
  <2> QED BY <1>1, <2>2, <2>3, <2>4
<1>9. BinOnce(all)
  <2> SUFFICES ASSUME NEW j \in 1 .. N, NEW k \in 1 .. N,
                      NEW x \in DOMAIN all[j].blocks, NEW y \in DOMAIN all[k].blocks,
                      all[j].blocks[x] = all[k].blocks[y]
               PROVE  j = k /\ x = y
    BY <1>5 DEF BinOnce
  <2>1. span * B \in Nat
    BY <1>1
  <2>2. /\ x \in Nat /\ hi(j) - x \in Nat /\ lo(j) <= hi(j) - x /\ hi(j) - x < hi(j)
        /\ y \in Nat /\ hi(k) - y \in Nat /\ lo(k) <= hi(k) - y /\ hi(k) - y < hi(k)
        /\ span * B + (hi(j) - x) = span * B + (hi(k) - y)
    BY <1>7
  <2>3. hi(j) - x = hi(k) - y
    BY <2>1, <2>2
  <2>4. /\ lo(j) \in Nat /\ hi(j) \in Nat /\ lo(k) \in Nat /\ hi(k) \in Nat
    BY <1>6
  <2>5. j = k
    <3>1. ~(j < k)
      BY <1>8, <2>2, <2>3, <2>4
    <3>2. ~(k < j)
      BY <1>8, <2>2, <2>3, <2>4
    <3> QED BY <1>2, <3>1, <3>2
  <2>6. x = y
    BY <2>2, <2>3, <2>4, <2>5
  <2> QED BY <2>5, <2>6
<1>10. ASSUME NEW b \in Blocks, BinHas(all, b) PROVE SpanOf(b) = span
  <2>1. PICK j \in 1 .. N : Has(all[j].blocks, b)
    BY <1>5, <1>10 DEF BinHas
  <2>2. PICK i \in DOMAIN all[j].blocks : all[j].blocks[i] = b
    BY <2>1 DEF Has
  <2>3. PICK x \in Nat : x < B /\ b = BlockOf(span, x)
    <3>1. hi(j) - i \in Nat /\ hi(j) - i < hi(j) /\ hi(j) <= B /\ hi(j) \in Nat
      BY <1>6, <1>7
    <3>2. b = BlockOf(span, hi(j) - i)
      BY <1>7, <2>2 DEF BlockOf
    <3> QED BY <1>1, <3>1, <3>2
  <2> QED BY <1>1, <2>3, SpanOfBlock
<1>11. ASSUME NEW b \in Blocks, SpanOf(b) = span PROVE BinHas(all, b)
  <2>1. PICK x \in Nat : x < B /\ b = BlockOf(span, x)
    BY <1>11, BlockOfSpan
  <2>2. x \div L \in Nat /\ (x \div L) * L <= x /\ x < (x \div L) * L + L
        /\ (x \div L) * L \in Nat
    BY <1>1, DivisionBounds
  <2>3. x < N * L
    BY <1>1, <1>2, <2>1
  <2>4. x \div L < N
    BY <1>1, <1>2, <2>3, DivisionLess
  <2>5. PICK j \in 1 .. N : j = x \div L + 1
    BY <1>2, <2>2, <2>4
  <2>6. lo(j) = (x \div L) * L /\ j * L = lo(j) + L
    BY <1>6, <2>2, <2>5 DEF lo
  <2>7. lo(j) <= x /\ x < hi(j)
    BY <1>1, <2>1, <2>2, <2>6 DEF hi
  <2>8. PICK i \in 1 .. hi(j) - lo(j) : i = hi(j) - x /\ hi(j) - i = x
    BY <1>6, <2>1, <2>7
  <2>9. i \in DOMAIN all[j].blocks /\ all[j].blocks[i] = b
    BY <1>5, <2>1, <2>8
  <2> QED BY <1>5, <2>9 DEF BinHas, Has
<1> QED BY <1>3, <1>4, <1>9, <1>10, <1>11

-----------------------------------------------------------------------------
(***************************************************************************)
(* The inductive invariant.                                                 *)
(***************************************************************************)
ClassOf(b) == span_classes[SpanOf(b)]

Carries(t) == pc[t] \in {"route", "remote", "central"}

\* The function at tells the place of every block.
BlocksPlaced(at) ==
    /\ \A b \in Blocks : IsPlace(at[b])
    /\ \A k \in Caches, c \in Classes :
            Holds(local[k][c].blocks, at, InLocal(k, c))
    /\ \A k \in Caches, c \in Classes :
            Holds(spare[k][c].blocks, at, InSpare(k, c))
    /\ \A k \in Caches, c \in Classes :
            Holds(remote[k][c], at, InRemote(k, c))
    /\ \A c \in Classes : BinHolds(central[c], at, InCentral(c))
    /\ \A t \in Threads : Holds(pending[t], at, InPending(t))
    /\ \A t \in Threads, b \in Blocks :
            at[b] = CarriedBy(t) <=> Carries(t) /\ blk[t] = b
    /\ \A b \in Blocks : at[b] = InProgram <=> b \in program
    /\ \A b \in Blocks : at[b] = Nowhere <=> b \notin Carved

\* A list holds blocks of its class only: block b may be at place p.
Fits(b, p) ==
    /\ \A k \in Caches, c \in Classes :
            p = InLocal(k, c) \/ p = InSpare(k, c) \/ p = InRemote(k, c) =>
                ClassOf(b) = c
    /\ \A c \in Classes : p = InCentral(c) => ClassOf(b) = c
    /\ \A t \in Threads :
            p = InPending(t) \/ p = CarriedBy(t) => ClassOf(b) = cls[t]

ClassesMatch(at) == \A b \in Blocks : Fits(b, at[b])

Placed(at) == BlocksPlaced(at) /\ ClassesMatch(at)

\* What a thread relies on while it drains, checks a free or carves a span.
ThreadBlocksInv ==
    /\ \A t \in Threads : pc[t] # "drain" => pending[t] = <<>>
    /\ \A t \in Threads : pc[t] \in {"cas", "carve"} =>
            SpanOf(blk[t]) < next_span /\ ClassOf(blk[t]) = cls[t]
    /\ \A t, u \in Threads :
            pc[t] = "carve" /\ pc[u] = "carve" /\ SpanOf(blk[t]) = SpanOf(blk[u])
                => t = u

\* A block in use was allocated through a cache of the heap; the exclusive
\* cache is the only one.
OwnerInv ==
    /\ \A b \in program : owner[b] \in caches
    /\ \A t \in Threads : Carries(t) => owner[blk[t]] \in caches
    /\ exclusive_cache # NoCache => caches = {exclusive_cache}

BlockInv ==
    /\ \E at : Placed(at)
    /\ StateTracksProgram
    /\ ThreadBlocksInv
    /\ OwnerInv

\* Nothing is carved in a new heap.
LEMMA BlockInvInit == Init => BlockInv
<1> SUFFICES ASSUME Init PROVE BlockInv
  OBVIOUS
<1> USE HeapAssumption
<1> DEFINE at == [b \in Blocks |-> Nowhere]
<1>1. \A b \in Blocks : IsPlace(at[b])
  BY DEF IsPlace
<1>2. \A b \in Blocks, k \in Caches, c \in Classes, t \in Threads :
        /\ at[b] # InLocal(k, c) /\ at[b] # InSpare(k, c) /\ at[b] # InRemote(k, c)
        /\ at[b] # InCentral(c) /\ at[b] # InPending(t) /\ at[b] # CarriedBy(t)
        /\ at[b] # InProgram
  BY PlaceNames
<1>a. \A b \in Blocks : SpanOf(b) \in Nat
  BY SpanRange DEF Spans
<1>b. \A b \in Blocks : b \notin Carved
  BY <1>a DEF Init, Carved
<1>c. \A b \in Blocks : at[b] = Nowhere
  OBVIOUS
<1> HIDE DEF at
<1>3. \A k \in Caches, c \in Classes :
        /\ Holds(local[k][c].blocks, at, InLocal(k, c))
        /\ Holds(spare[k][c].blocks, at, InSpare(k, c))
        /\ Holds(remote[k][c], at, InRemote(k, c))
  <2> TAKE k \in Caches, c \in Classes
  <2>1. local[k][c].blocks = <<>> /\ spare[k][c].blocks = <<>> /\ remote[k][c] = <<>>
    BY DEF Init, EmptySegment
  <2>2. \A b \in Blocks :
            at[b] # InLocal(k, c) /\ at[b] # InSpare(k, c) /\ at[b] # InRemote(k, c)
    <3> TAKE b \in Blocks
    <3> QED BY <1>c, PlaceNames
  <2> QED BY <2>1, <2>2, HoldsNothing
<1>4. \A c \in Classes : BinHolds(central[c], at, InCentral(c))
  BY <1>c, PlaceNames DEF Init, BinHolds, BinOnce, BinHas
<1>5. \A t \in Threads : Holds(pending[t], at, InPending(t))
  BY <1>c, PlaceNames DEF Init, Holds, Once, Has
<1>6. /\ \A t \in Threads, b \in Blocks :
            at[b] = CarriedBy(t) <=> Carries(t) /\ blk[t] = b
      /\ \A b \in Blocks : at[b] = InProgram <=> b \in program
  BY <1>c, PlaceNames DEF Init, Carries
<1>7. BlocksPlaced(at)
  BY <1>1, <1>3, <1>4, <1>5, <1>6, <1>b, <1>c DEF BlocksPlaced
<1>8. ClassesMatch(at)
  BY <1>c, PlaceNames DEF ClassesMatch, Fits
<1>9. StateTracksProgram /\ ThreadBlocksInv /\ OwnerInv
  BY DEF Init, StateTracksProgram, ThreadBlocksInv, OwnerInv, Carries
<1> QED BY <1>7, <1>8, <1>9 DEF BlockInv, Placed

-----------------------------------------------------------------------------
(***************************************************************************)
(* Facts the steps share.                                                   *)
(***************************************************************************)
\* Spans are carved by the threads at carve only.
LEMMA CarvedSame ==
    ASSUME next_span' = next_span,
           \A u \in Threads : pc'[u] = "carve" <=> pc[u] = "carve",
           \A u \in Threads : pc[u] = "carve" => blk'[u] = blk[u]
    PROVE  Carved' = Carved
BY DEF Carved

\* A step that moves no block, keeps what threads hold and carves nothing.
LEMMA PlacesKept ==
    ASSUME NEW at, Placed(at),
           UNCHANGED <<local, spare, remote, central, pending, program>>,
           \A t \in Threads : Carries(t)' <=> Carries(t),
           \A t \in Threads : Carries(t) => blk'[t] = blk[t],
           \A t \in Threads : Carries(t) \/ pending[t] # <<>> => cls'[t] = cls[t],
           Carved' = Carved,
           \A b \in Carved : ClassOf(b)' = ClassOf(b)
    PROVE  Placed(at)'
<1>1. BlocksPlaced(at)'
  BY DEF Placed, BlocksPlaced
<1>2. \A b \in Blocks : b \in Carved \/ at[b] = Nowhere
  BY DEF Placed, BlocksPlaced
<1>3. ASSUME NEW b \in Blocks, NEW t \in Threads,
             at[b] = InPending(t) \/ at[b] = CarriedBy(t)
      PROVE  ClassOf(b)' = cls'[t]
  <2>1. b \in Carved
    BY <1>2, <1>3, PlaceNames
  <2>2. Carries(t) \/ pending[t] # <<>>
    BY <1>3, EmptySeq DEF Placed, BlocksPlaced, Holds, Has
  <2> QED BY <1>3, <2>1, <2>2 DEF Placed, ClassesMatch, Fits
<1>4. ASSUME NEW b \in Blocks, NEW k \in Caches, NEW c \in Classes,
             \/ at[b] = InLocal(k, c)
             \/ at[b] = InSpare(k, c)
             \/ at[b] = InRemote(k, c)
      PROVE  ClassOf(b)' = c
  <2>1. b \in Carved
    BY <1>2, <1>4, PlaceNames
  <2> QED BY <1>4, <2>1 DEF Placed, ClassesMatch, Fits
<1>5. ASSUME NEW b \in Blocks, NEW c \in Classes, at[b] = InCentral(c)
      PROVE  ClassOf(b)' = c
  <2>1. b \in Carved
    BY <1>2, <1>5, PlaceNames
  <2> QED BY <1>5, <2>1 DEF Placed, ClassesMatch, Fits
<1>6. ClassesMatch(at)'
  BY <1>3, <1>4, <1>5 DEF ClassesMatch, Fits
<1> QED BY <1>1, <1>6 DEF Placed

\* A step that moves blocks between the touched places only.
LEMMA PlacesMoved ==
    ASSUME NEW at, Placed(at), NEW new, NEW touched,
           \A b \in Blocks : new[b] = at[b] \/ (at[b] \in touched /\ new[b] \in touched),
           \A p \in touched : IsPlace(p),
           \A k \in Caches, c \in Classes :
                \/ InLocal(k, c) \notin touched /\ local'[k][c].blocks = local[k][c].blocks
                \/ Holds(local'[k][c].blocks, new, InLocal(k, c)),
           \A k \in Caches, c \in Classes :
                \/ InSpare(k, c) \notin touched /\ spare'[k][c].blocks = spare[k][c].blocks
                \/ Holds(spare'[k][c].blocks, new, InSpare(k, c)),
           \A k \in Caches, c \in Classes :
                \/ InRemote(k, c) \notin touched /\ remote'[k][c] = remote[k][c]
                \/ Holds(remote'[k][c], new, InRemote(k, c)),
           \A c \in Classes :
                \/ InCentral(c) \notin touched /\ central'[c] = central[c]
                \/ BinHolds(central'[c], new, InCentral(c)),
           \A t \in Threads :
                \/ InPending(t) \notin touched /\ pending'[t] = pending[t]
                \/ Holds(pending'[t], new, InPending(t)),
           \A t \in Threads :
                \/ /\ CarriedBy(t) \notin touched
                   /\ Carries(t)' <=> Carries(t)
                   /\ Carries(t) => blk'[t] = blk[t]
                \/ \A b \in Blocks : new[b] = CarriedBy(t) <=> Carries(t)' /\ blk'[t] = b,
           \/ InProgram \notin touched /\ program' = program
           \/ \A b \in Blocks : new[b] = InProgram <=> b \in program',
           \/ Nowhere \notin touched /\ Carved' = Carved
           \/ \A b \in Blocks : new[b] = Nowhere <=> b \notin Carved'
    PROVE  BlocksPlaced(new)'
<1>1. \A p : p \notin touched => \A b \in Blocks : new[b] = p <=> at[b] = p
  OBVIOUS
<1>2. \A b \in Blocks : IsPlace(new[b])
  BY DEF Placed, BlocksPlaced
<1>3. \A k \in Caches, c \in Classes : Holds(local'[k][c].blocks, new, InLocal(k, c))
  BY <1>1, HoldsSame DEF Placed, BlocksPlaced
<1>4. \A k \in Caches, c \in Classes : Holds(spare'[k][c].blocks, new, InSpare(k, c))
  BY <1>1, HoldsSame DEF Placed, BlocksPlaced
<1>5. \A k \in Caches, c \in Classes : Holds(remote'[k][c], new, InRemote(k, c))
  BY <1>1, HoldsSame DEF Placed, BlocksPlaced
<1>6. \A c \in Classes : BinHolds(central'[c], new, InCentral(c))
  BY <1>1, BinHoldsSame DEF Placed, BlocksPlaced
<1>7. \A t \in Threads : Holds(pending'[t], new, InPending(t))
  BY <1>1, HoldsSame DEF Placed, BlocksPlaced
<1>8. \A t \in Threads, b \in Blocks :
            new[b] = CarriedBy(t) <=> Carries(t)' /\ blk'[t] = b
  BY <1>1 DEF Placed, BlocksPlaced
<1>9. \A b \in Blocks : new[b] = InProgram <=> b \in program'
  BY <1>1 DEF Placed, BlocksPlaced
<1>10. \A b \in Blocks : new[b] = Nowhere <=> b \notin Carved'
  BY <1>1 DEF Placed, BlocksPlaced
<1> QED BY <1>2, <1>3, <1>4, <1>5, <1>6, <1>7, <1>8, <1>9, <1>10 DEF BlocksPlaced

\* Blocks moved to places of their class keep every list to its class.
LEMMA ClassesMoved ==
    ASSUME NEW at, Placed(at), NEW new, UNCHANGED span_classes,
           \A b \in Blocks : new[b] = at[b] \/ Fits(b, new[b])',
           \A t \in Threads : \/ cls'[t] = cls[t]
                              \/ \A b \in Blocks :
                                    new[b] # InPending(t) /\ new[b] # CarriedBy(t)
    PROVE  ClassesMatch(new)'
BY DEF Placed, ClassesMatch, Fits, ClassOf

-----------------------------------------------------------------------------
(***************************************************************************)
(* Every action keeps the invariant.  First the ones that move no block.    *)
(***************************************************************************)

\* A call of malloc starts.
LEMMA MallocBlocks ==
    ASSUME HeapInv, BlockInv, NEW t \in Threads, NEW c \in Classes, Malloc(t, c)
    PROVE  BlockInv'
<1> USE DEF HeapInv, VariablesTyped, Malloc, Goto, shared, lists, bins, arena, headers, locks
<1>1. PICK at : Placed(at)
  BY DEF BlockInv
<1>2. Carved' = Carved
  BY CarvedSame
<1>3. pending' = pending
  BY DEF BlockInv, ThreadBlocksInv
<1>4. Placed(at)'
  <2>1. /\ UNCHANGED <<local, spare, remote, central, program>>
        /\ \A u \in Threads : Carries(u)' <=> Carries(u)
        /\ \A u \in Threads : Carries(u) => blk'[u] = blk[u]
        /\ \A u \in Threads : Carries(u) \/ pending[u] # <<>> => cls'[u] = cls[u]
        /\ \A b \in Carved : ClassOf(b)' = ClassOf(b)
    BY DEF BlockInv, ThreadBlocksInv, Carries, ClassOf
  <2> QED BY <1>1, <1>2, <1>3, <2>1, PlacesKept
<1>5. StateTracksProgram'
  BY DEF BlockInv, StateTracksProgram
<1>6. ThreadBlocksInv'
  BY <1>3 DEF BlockInv, ThreadBlocksInv, ClassOf
<1>7. OwnerInv'
  BY DEF BlockInv, OwnerInv, Carries
<1> QED BY <1>4, <1>5, <1>6, <1>7 DEF BlockInv

\* A new cache owns nothing, and ends the exclusive one.
LEMMA MallocNewCacheBlocks ==
    ASSUME HeapInv, BlockInv, NEW t \in Threads, NEW c \in Classes, NEW k \in Caches, MallocNewCache(t, c, k)
    PROVE  BlockInv'
<1> USE DEF HeapInv, VariablesTyped, MallocNewCache, Goto, shared, lists, bins, arena, headers, locks
<1>1. PICK at : Placed(at)
  BY DEF BlockInv
<1>2. Carved' = Carved
  BY CarvedSame
<1>3. pending' = pending
  BY DEF BlockInv, ThreadBlocksInv
<1>4. Placed(at)'
  <2>1. /\ UNCHANGED <<local, spare, remote, central, program>>
        /\ \A u \in Threads : Carries(u)' <=> Carries(u)
        /\ \A u \in Threads : Carries(u) => blk'[u] = blk[u]
        /\ \A u \in Threads : Carries(u) \/ pending[u] # <<>> => cls'[u] = cls[u]
        /\ \A b \in Carved : ClassOf(b)' = ClassOf(b)
    BY DEF BlockInv, ThreadBlocksInv, Carries, ClassOf
  <2> QED BY <1>1, <1>2, <1>3, <2>1, PlacesKept
<1>5. StateTracksProgram'
  BY DEF BlockInv, StateTracksProgram
<1>6. ThreadBlocksInv'
  BY <1>3 DEF BlockInv, ThreadBlocksInv, ClassOf
<1>7. OwnerInv'
  BY DEF BlockInv, OwnerInv, Carries
<1> QED BY <1>4, <1>5, <1>6, <1>7 DEF BlockInv

\* A drain ends when nothing is pending.
LEMMA DrainEndBlocks ==
    ASSUME HeapInv, BlockInv, NEW t \in Threads, DrainEnd(t)
    PROVE  BlockInv'
<1> USE DEF HeapInv, VariablesTyped, DrainEnd, Goto, shared, lists, bins, arena, headers, locks
<1>1. PICK at : Placed(at)
  BY DEF BlockInv
<1>2. Carved' = Carved
  BY CarvedSame
<1>3. pending' = pending
  BY DEF BlockInv, ThreadBlocksInv
<1>4. Placed(at)'
  <2>1. /\ UNCHANGED <<local, spare, remote, central, program>>
        /\ \A u \in Threads : Carries(u)' <=> Carries(u)
        /\ \A u \in Threads : Carries(u) => blk'[u] = blk[u]
        /\ \A u \in Threads : Carries(u) \/ pending[u] # <<>> => cls'[u] = cls[u]
        /\ \A b \in Carved : ClassOf(b)' = ClassOf(b)
    BY DEF BlockInv, ThreadBlocksInv, Carries, ClassOf
  <2> QED BY <1>1, <1>2, <1>3, <2>1, PlacesKept
<1>5. StateTracksProgram'
  BY DEF BlockInv, StateTracksProgram
<1>6. ThreadBlocksInv'
  BY <1>3 DEF BlockInv, ThreadBlocksInv, ClassOf
<1>7. OwnerInv'
  BY DEF BlockInv, OwnerInv, Carries
<1> QED BY <1>4, <1>5, <1>6, <1>7 DEF BlockInv

\* The class lock is taken.
LEMMA LockClassBlocks ==
    ASSUME HeapInv, BlockInv, NEW t \in Threads, LockClass(t)
    PROVE  BlockInv'
<1> USE DEF HeapInv, VariablesTyped, LockClass, Goto, shared, lists, bins, arena, headers, locks
<1>1. PICK at : Placed(at)
  BY DEF BlockInv
<1>2. Carved' = Carved
  BY CarvedSame
<1>3. pending' = pending
  BY DEF BlockInv, ThreadBlocksInv
<1>4. Placed(at)'
  <2>1. /\ UNCHANGED <<local, spare, remote, central, program>>
        /\ \A u \in Threads : Carries(u)' <=> Carries(u)
        /\ \A u \in Threads : Carries(u) => blk'[u] = blk[u]
        /\ \A u \in Threads : Carries(u) \/ pending[u] # <<>> => cls'[u] = cls[u]
        /\ \A b \in Carved : ClassOf(b)' = ClassOf(b)
    BY DEF BlockInv, ThreadBlocksInv, Carries, ClassOf
  <2> QED BY <1>1, <1>2, <1>3, <2>1, PlacesKept
<1>5. StateTracksProgram'
  BY DEF BlockInv, StateTracksProgram
<1>6. ThreadBlocksInv'
  BY <1>3 DEF BlockInv, ThreadBlocksInv, ClassOf
<1>7. OwnerInv'
  BY DEF BlockInv, OwnerInv, Carries
<1> QED BY <1>4, <1>5, <1>6, <1>7 DEF BlockInv

\* So is the arena lock.
LEMMA LockArenaBlocks ==
    ASSUME HeapInv, BlockInv, NEW t \in Threads, LockArena(t)
    PROVE  BlockInv'
<1> USE DEF HeapInv, VariablesTyped, LockArena, Goto, shared, lists, bins, arena, headers, locks
<1>1. PICK at : Placed(at)
  BY DEF BlockInv
<1>2. Carved' = Carved
  BY CarvedSame
<1>3. pending' = pending
  BY DEF BlockInv, ThreadBlocksInv
<1>4. Placed(at)'
  <2>1. /\ UNCHANGED <<local, spare, remote, central, program>>
        /\ \A u \in Threads : Carries(u)' <=> Carries(u)
        /\ \A u \in Threads : Carries(u) => blk'[u] = blk[u]
        /\ \A u \in Threads : Carries(u) \/ pending[u] # <<>> => cls'[u] = cls[u]
        /\ \A b \in Carved : ClassOf(b)' = ClassOf(b)
    BY DEF BlockInv, ThreadBlocksInv, Carries, ClassOf
  <2> QED BY <1>1, <1>2, <1>3, <2>1, PlacesKept
<1>5. StateTracksProgram'
  BY DEF BlockInv, StateTracksProgram
<1>6. ThreadBlocksInv'
  BY <1>3 DEF BlockInv, ThreadBlocksInv, ClassOf
<1>7. OwnerInv'
  BY DEF BlockInv, OwnerInv, Carries
<1> QED BY <1>4, <1>5, <1>6, <1>7 DEF BlockInv

\* A claim fails.
LEMMA ClaimFailBlocks ==
    ASSUME HeapInv, BlockInv, NEW t \in Threads, ClaimFail(t)
    PROVE  BlockInv'
<1> USE DEF HeapInv, VariablesTyped, ClaimFail, Goto, shared, lists, bins, arena, headers, locks
<1>1. PICK at : Placed(at)
  BY DEF BlockInv
<1>2. Carved' = Carved
  BY CarvedSame
<1>3. pending' = pending
  BY DEF BlockInv, ThreadBlocksInv
<1>4. Placed(at)'
  <2>1. /\ UNCHANGED <<local, spare, remote, central, program>>
        /\ \A u \in Threads : Carries(u)' <=> Carries(u)
        /\ \A u \in Threads : Carries(u) => blk'[u] = blk[u]
        /\ \A u \in Threads : Carries(u) \/ pending[u] # <<>> => cls'[u] = cls[u]
        /\ \A b \in Carved : ClassOf(b)' = ClassOf(b)
    BY DEF BlockInv, ThreadBlocksInv, Carries, ClassOf
  <2> QED BY <1>1, <1>2, <1>3, <2>1, PlacesKept
<1>5. StateTracksProgram'
  BY DEF BlockInv, StateTracksProgram
<1>6. ThreadBlocksInv'
  BY <1>3 DEF BlockInv, ThreadBlocksInv, ClassOf
<1>7. OwnerInv'
  BY DEF BlockInv, OwnerInv, Carries
<1> QED BY <1>4, <1>5, <1>6, <1>7 DEF BlockInv

\* A refill fails.
LEMMA RefillFailBlocks ==
    ASSUME HeapInv, BlockInv, NEW t \in Threads, RefillFail(t)
    PROVE  BlockInv'
<1> USE DEF HeapInv, VariablesTyped, RefillFail, Done, Goto, shared, lists, bins, arena, headers, locks
<1>1. PICK at : Placed(at)
  BY DEF BlockInv
<1>2. Carved' = Carved
  BY CarvedSame
<1>3. pending' = pending
  BY DEF BlockInv, ThreadBlocksInv
<1>4. Placed(at)'
  <2>1. /\ UNCHANGED <<local, spare, remote, central, program>>
        /\ \A u \in Threads : Carries(u)' <=> Carries(u)
        /\ \A u \in Threads : Carries(u) => blk'[u] = blk[u]
        /\ \A u \in Threads : Carries(u) \/ pending[u] # <<>> => cls'[u] = cls[u]
        /\ \A b \in Carved : ClassOf(b)' = ClassOf(b)
    BY DEF BlockInv, ThreadBlocksInv, Carries, ClassOf
  <2> QED BY <1>1, <1>2, <1>3, <2>1, PlacesKept
<1>5. StateTracksProgram'
  BY DEF BlockInv, StateTracksProgram
<1>6. ThreadBlocksInv'
  BY <1>3 DEF BlockInv, ThreadBlocksInv, ClassOf
<1>7. OwnerInv'
  BY DEF BlockInv, OwnerInv, Carries
<1> QED BY <1>4, <1>5, <1>6, <1>7 DEF BlockInv

\* A checked free has found the span of its block.
LEMMA FreeLookupBlocks ==
    ASSUME HeapInv, BlockInv, NEW t \in Threads, NEW b \in Blocks, FreeLookup(t, b)
    PROVE  BlockInv'
<1> USE DEF HeapInv, VariablesTyped, FreeLookup, Goto, shared, lists, bins, arena, headers, locks
<1>1. PICK at : Placed(at)
  BY DEF BlockInv
<1>2. Carved' = Carved
  BY CarvedSame
<1>3. pending' = pending
  BY DEF BlockInv, ThreadBlocksInv
<1>4. Placed(at)'
  <2>1. /\ UNCHANGED <<local, spare, remote, central, program>>
        /\ \A u \in Threads : Carries(u)' <=> Carries(u)
        /\ \A u \in Threads : Carries(u) => blk'[u] = blk[u]
        /\ \A u \in Threads : Carries(u) \/ pending[u] # <<>> => cls'[u] = cls[u]
        /\ \A d \in Carved : ClassOf(d)' = ClassOf(d)
    BY DEF BlockInv, ThreadBlocksInv, Carries, ClassOf
  <2> QED BY <1>1, <1>2, <1>3, <2>1, PlacesKept
<1>5. StateTracksProgram'
  BY DEF BlockInv, StateTracksProgram
<1>6. ThreadBlocksInv'
  BY <1>3 DEF BlockInv, ThreadBlocksInv, ClassOf
<1>7. OwnerInv'
  BY DEF BlockInv, OwnerInv, Carries
<1> QED BY <1>4, <1>5, <1>6, <1>7 DEF BlockInv

\* A thread carries its block to another cache or to the bin.
LEMMA RouteAwayBlocks ==
    ASSUME HeapInv, BlockInv, NEW t \in Threads, RouteAway(t)
    PROVE  BlockInv'
<1> USE DEF HeapInv, VariablesTyped, RouteAway, Goto, shared, lists, bins, arena, headers, locks
<1>1. PICK at : Placed(at)
  BY DEF BlockInv
<1>2. Carved' = Carved
  BY CarvedSame
<1>3. pending' = pending
  BY DEF BlockInv, ThreadBlocksInv
<1>4. Placed(at)'
  <2>1. /\ UNCHANGED <<local, spare, remote, central, program>>
        /\ \A u \in Threads : Carries(u)' <=> Carries(u)
        /\ \A u \in Threads : Carries(u) => blk'[u] = blk[u]
        /\ \A u \in Threads : Carries(u) \/ pending[u] # <<>> => cls'[u] = cls[u]
        /\ \A b \in Carved : ClassOf(b)' = ClassOf(b)
    BY DEF BlockInv, ThreadBlocksInv, Carries, ClassOf
  <2> QED BY <1>1, <1>2, <1>3, <2>1, PlacesKept
<1>5. StateTracksProgram'
  BY DEF BlockInv, StateTracksProgram
<1>6. ThreadBlocksInv'
  BY <1>3 DEF BlockInv, ThreadBlocksInv, ClassOf
<1>7. OwnerInv'
  BY DEF BlockInv, OwnerInv, Carries
<1> QED BY <1>4, <1>5, <1>6, <1>7 DEF BlockInv

-----------------------------------------------------------------------------
(***************************************************************************)
(* The actions that move blocks.                                            *)
(***************************************************************************)
\* A thread that neither drains nor routes holds no block.
LEMMA EmptyHands ==
    ASSUME NEW at, Placed(at), ThreadBlocksInv, NEW t \in Threads,
           pc[t] # "drain", ~Carries(t), NEW b \in Blocks
    PROVE  at[b] # InPending(t) /\ at[b] # CarriedBy(t)
<1>1. Holds(<<>>, at, InPending(t))
  BY DEF ThreadBlocksInv, Placed, BlocksPlaced
<1>2. at[b] # InPending(t)
  BY <1>1 DEF Holds, Has
<1> QED BY <1>2 DEF Placed, BlocksPlaced

\* A block goes from the hot segment to the program.
LEMMA AllocateSmallBlocks ==
    ASSUME HeapInv, BlockInv, NEW t \in Threads, AllocateSmall(t)
    PROVE  BlockInv'
<1>1. PICK at : Placed(at)
  BY DEF BlockInv
<1>2. PICK k \in Caches, c \in Classes :
        /\ k = tls[t] /\ c = cls[t] /\ k \in caches
        /\ local[k][c] \in Segments /\ local[k][c].blocks \in Seq(Blocks)
  BY DEF HeapInv, VariablesTyped, FrameInv, OwnershipInv, Segments, AllocateSmall
<1>3. PICK hot : hot = local[k][c].blocks
  OBVIOUS
<1>4. PICK b : b = Head(hot)
  OBVIOUS
<1>5. /\ pc[t] = "pop" /\ hot # <<>> /\ hot \in Seq(Blocks)
      /\ local' = [local EXCEPT ![k][c] = Pop(@)]
      /\ owner' = [owner EXCEPT ![b] = k] /\ state' = [state EXCEPT ![b] = 1]
      /\ program' = program \cup {b}
      /\ Done(t)
      /\ UNCHANGED <<tls, caches, exclusive_cache, spare, remote, central,
                     next_span, span_classes>>
  BY <1>2, <1>3, <1>4 DEF AllocateSmall, shared, bins, arena
<1>6. PICK new : new = Move(at, {b}, InProgram)
  OBVIOUS
<1>7. PICK touched : touched = {InLocal(k, c), InProgram}
  OBVIOUS
<1>8. /\ b \in Blocks /\ at[b] = InLocal(k, c)
      /\ Holds(Tail(hot), new, InLocal(k, c))
  <2>1. Holds(hot, at, InLocal(k, c)) /\ InLocal(k, c) # InProgram
    BY <1>1, <1>3, PlaceNames DEF Placed, BlocksPlaced
  <2> QED BY <1>4, <1>5, <1>6, <2>1, HoldsPop
<1>9. /\ \A j, d : InLocal(j, d) \in touched <=> j = k /\ d = c
      /\ \A j, d : InSpare(j, d) \notin touched /\ InRemote(j, d) \notin touched
      /\ \A d : InCentral(d) \notin touched
      /\ \A u : InPending(u) \notin touched /\ CarriedBy(u) \notin touched
      /\ Nowhere \notin touched
  BY <1>7, PlaceNames
<1>10. /\ \A d \in Blocks : new[d] = at[d] \/ (at[d] \in touched /\ new[d] \in touched)
       /\ \A p \in touched : IsPlace(p)
  BY <1>6, <1>7, <1>8 DEF Move, IsPlace
<1>11. \A j \in Caches, d \in Classes :
        \/ InLocal(j, d) \notin touched /\ local'[j][d].blocks = local[j][d].blocks
        \/ Holds(local'[j][d].blocks, new, InLocal(j, d))
  <2>1. local'[k][c].blocks = Tail(hot)
    BY <1>3, <1>5 DEF Pop, HeapInv, VariablesTyped
  <2>2. \A j \in Caches, d \in Classes : j # k \/ d # c => local'[j][d] = local[j][d]
    BY <1>5 DEF HeapInv, VariablesTyped
  <2> TAKE j \in Caches, d \in Classes
  <2>3. CASE j = k /\ d = c
    BY <1>8, <2>1, <2>3
  <2>4. CASE ~(j = k /\ d = c)
    BY <1>9, <2>2, <2>4
  <2> QED BY <2>3, <2>4
<1>12. pending' = pending
  BY <1>5 DEF BlockInv, ThreadBlocksInv, HeapInv, VariablesTyped, Done
<1>13. Carved' = Carved
  BY <1>5, CarvedSame DEF HeapInv, VariablesTyped, Done
<1>14. \A d \in Blocks : new[d] = InProgram <=> d \in program'
  BY <1>1, <1>5, <1>6, <1>8 DEF Placed, BlocksPlaced, Move
<1>15. \A u \in Threads :
        (Carries(u)' <=> Carries(u)) /\ (Carries(u) => blk'[u] = blk[u])
  BY <1>5 DEF Carries, HeapInv, VariablesTyped, Done
<1>16. BlocksPlaced(new)'
  BY <1>1, <1>5, <1>9, <1>10, <1>11, <1>12, <1>13, <1>14, <1>15, PlacesMoved
<1>17. ClassesMatch(new)'
  <2>1. \A d \in Blocks : new[d] = at[d] \/ new[d] = InProgram
    BY <1>6 DEF Move
  <2>2. \A d : Fits(d, InProgram)'
    BY PlaceNames DEF Fits
  <2>3. \A d \in Blocks : new[d] # InPending(t) /\ new[d] # CarriedBy(t)
    BY <1>1, <1>5, <2>1, EmptyHands, PlaceNames DEF BlockInv, Carries
  <2>4. \A u \in Threads : u # t => cls'[u] = cls[u]
    BY <1>5 DEF Done, HeapInv, VariablesTyped
  <2> QED BY <1>1, <1>5, <2>1, <2>2, <2>3, <2>4, ClassesMoved
<1>18. StateTracksProgram'
  BY <1>5, <1>8 DEF BlockInv, StateTracksProgram, HeapInv, VariablesTyped
<1>19. ThreadBlocksInv'
  BY <1>5, <1>12 DEF BlockInv, ThreadBlocksInv, ClassOf, HeapInv, VariablesTyped, Done
<1>20. OwnerInv'
  BY <1>2, <1>5, <1>8 DEF BlockInv, OwnerInv, Carries, HeapInv, VariablesTyped, FrameInv, Done
<1> QED BY <1>16, <1>17, <1>18, <1>19, <1>20 DEF BlockInv, Placed

\* The spare segment becomes the hot one.
LEMMA AdoptSpareBlocks ==
    ASSUME HeapInv, BlockInv, NEW t \in Threads, AdoptSpare(t)
    PROVE  BlockInv'
<1>1. PICK at : Placed(at)
  BY DEF BlockInv
<1>2. PICK k \in Caches, c \in Classes : k = tls[t] /\ c = cls[t]
  BY DEF HeapInv, VariablesTyped, FrameInv, AdoptSpare
<1>3. PICK cold : cold = spare[k][c].blocks
  OBVIOUS
<1>4. /\ local[k][c].blocks = <<>>
      /\ local' = [local EXCEPT ![k][c] = spare[k][c]]
      /\ spare' = [spare EXCEPT ![k][c] = EmptySegment]
      /\ UNCHANGED <<tls, caches, exclusive_cache, remote, central, next_span,
                     span_classes, state, owner, pc, cls, blk, pending, program>>
  BY <1>2 DEF AdoptSpare, shared, bins, arena, headers, frame
<1>5. PICK new : new = Move(at, BlocksOf(cold), InLocal(k, c))
  OBVIOUS
<1>6. PICK touched : touched = {InLocal(k, c), InSpare(k, c)}
  OBVIOUS
<1>7. /\ \A d \in BlocksOf(cold) : at[d] = InSpare(k, c)
      /\ Holds(<<>>, new, InSpare(k, c))
      /\ Holds(cold, new, InLocal(k, c))
  <2>1. /\ Holds(cold, at, InSpare(k, c)) /\ Holds(<<>>, at, InLocal(k, c))
        /\ InLocal(k, c) # InSpare(k, c)
    BY <1>1, <1>3, <1>4, PlaceNames DEF Placed, BlocksPlaced
  <2>2. \A d \in Blocks : at[d] # InLocal(k, c)
    BY <2>1 DEF Holds, Has
  <2>3. \A d \in BlocksOf(cold) : at[d] = InSpare(k, c)
    BY <2>1 DEF Holds, BlocksOf
  <2> QED BY <1>5, <2>1, <2>2, <2>3, HoldsCleared, HoldsTaken
<1>8. /\ \A j, d : InLocal(j, d) \in touched <=> j = k /\ d = c
      /\ \A j, d : InSpare(j, d) \in touched <=> j = k /\ d = c
      /\ \A j, d : InRemote(j, d) \notin touched
      /\ \A d : InCentral(d) \notin touched
      /\ \A u : InPending(u) \notin touched /\ CarriedBy(u) \notin touched
      /\ Nowhere \notin touched /\ InProgram \notin touched
  BY <1>6, PlaceNames
<1>9. /\ \A d \in Blocks : new[d] = at[d] \/ (at[d] \in touched /\ new[d] \in touched)
      /\ \A p \in touched : IsPlace(p)
  BY <1>5, <1>6, <1>7 DEF Move, IsPlace
<1>10. /\ local'[k][c].blocks = cold /\ spare'[k][c].blocks = <<>>
       /\ \A j \in Caches, d \in Classes : j # k \/ d # c =>
                local'[j][d] = local[j][d] /\ spare'[j][d] = spare[j][d]
  BY <1>3, <1>4 DEF HeapInv, VariablesTyped, EmptySegment
<1>11. \A j \in Caches, d \in Classes :
        \/ InLocal(j, d) \notin touched /\ local'[j][d].blocks = local[j][d].blocks
        \/ Holds(local'[j][d].blocks, new, InLocal(j, d))
  <2> TAKE j \in Caches, d \in Classes
  <2>1. CASE j = k /\ d = c
    BY <1>7, <1>10, <2>1
  <2>2. CASE ~(j = k /\ d = c)
    BY <1>8, <1>10, <2>2
  <2> QED BY <2>1, <2>2
<1>12. \A j \in Caches, d \in Classes :
        \/ InSpare(j, d) \notin touched /\ spare'[j][d].blocks = spare[j][d].blocks
        \/ Holds(spare'[j][d].blocks, new, InSpare(j, d))
  <2> TAKE j \in Caches, d \in Classes
  <2>1. CASE j = k /\ d = c
    BY <1>7, <1>10, <2>1
  <2>2. CASE ~(j = k /\ d = c)
    BY <1>8, <1>10, <2>2
  <2> QED BY <2>1, <2>2
<1>13. Carved' = Carved
  BY <1>4, CarvedSame
<1>14. BlocksPlaced(new)'
  <2>1. \A u \in Threads : Carries(u)' <=> Carries(u)
    BY <1>4 DEF Carries
  <2> QED BY <1>1, <1>4, <1>8, <1>9, <1>11, <1>12, <1>13, <2>1, PlacesMoved
<1>15. ClassesMatch(new)'
  <2>1. \A d \in Blocks : new[d] = at[d] \/ (at[d] = InSpare(k, c) /\ new[d] = InLocal(k, c))
    BY <1>5, <1>7 DEF Move
  <2>2. \A d \in Blocks : at[d] = InSpare(k, c) => Fits(d, InLocal(k, c))'
    BY <1>1, <1>4, PlaceNames DEF Fits, Placed, ClassesMatch, ClassOf
  <2> QED BY <1>1, <1>4, <2>1, <2>2, ClassesMoved
<1>16. StateTracksProgram' /\ ThreadBlocksInv' /\ OwnerInv'
  BY <1>4 DEF BlockInv, StateTracksProgram, ThreadBlocksInv, ClassOf, OwnerInv, Carries
<1> QED BY <1>14, <1>15, <1>16 DEF BlockInv, Placed

\* The remote list becomes the list the thread drains.
LEMMA DrainTakeBlocks ==
    ASSUME HeapInv, BlockInv, NEW t \in Threads, DrainTake(t)
    PROVE  BlockInv'
<1>1. PICK at : Placed(at)
  BY DEF BlockInv
<1>2. PICK k \in Caches, c \in Classes : k = tls[t] /\ c = cls[t]
  BY DEF HeapInv, VariablesTyped, FrameInv, DrainTake
<1>3. PICK list : list = remote[k][c]
  OBVIOUS
<1>4. /\ pc[t] = "pop" /\ pc' = [pc EXCEPT ![t] = "drain"]
      /\ pending' = [pending EXCEPT ![t] = list]
      /\ remote' = [remote EXCEPT ![k][c] = <<>>]
      /\ UNCHANGED <<tls, caches, exclusive_cache, local, spare, central, next_span,
                     span_classes, state, owner, cls, blk, program>>
  BY <1>2, <1>3 DEF DrainTake, Goto, shared, bins, arena, headers
<1>5. PICK new : new = Move(at, BlocksOf(list), InPending(t))
  OBVIOUS
<1>6. PICK touched : touched = {InRemote(k, c), InPending(t)}
  OBVIOUS
<1>7. /\ \A d \in BlocksOf(list) : at[d] = InRemote(k, c)
      /\ Holds(<<>>, new, InRemote(k, c))
      /\ Holds(list, new, InPending(t))
  <2>1. Holds(list, at, InRemote(k, c)) /\ InRemote(k, c) # InPending(t)
    BY <1>1, <1>3, PlaceNames DEF Placed, BlocksPlaced
  <2>2. \A d \in Blocks : at[d] # InPending(t)
    BY <1>1, <1>4, EmptyHands DEF BlockInv, Carries
  <2>3. \A d \in BlocksOf(list) : at[d] = InRemote(k, c)
    BY <2>1 DEF Holds, BlocksOf
  <2> QED BY <1>5, <2>1, <2>2, <2>3, HoldsCleared, HoldsTaken
<1>8. /\ \A j, d : InLocal(j, d) \notin touched /\ InSpare(j, d) \notin touched
      /\ \A j, d : InRemote(j, d) \in touched <=> j = k /\ d = c
      /\ \A d : InCentral(d) \notin touched
      /\ \A u : InPending(u) \in touched <=> u = t
      /\ \A u : CarriedBy(u) \notin touched
      /\ Nowhere \notin touched /\ InProgram \notin touched
  BY <1>6, PlaceNames
<1>9. /\ \A d \in Blocks : new[d] = at[d] \/ (at[d] \in touched /\ new[d] \in touched)
      /\ \A p \in touched : IsPlace(p)
  BY <1>5, <1>6, <1>7 DEF Move, IsPlace
<1>10. /\ remote'[k][c] = <<>> /\ pending'[t] = list
       /\ \A j \in Caches, d \in Classes : j # k \/ d # c => remote'[j][d] = remote[j][d]
       /\ \A u \in Threads : u # t => pending'[u] = pending[u] /\ pc'[u] = pc[u]
       /\ pc'[t] = "drain"
  BY <1>4 DEF HeapInv, VariablesTyped
<1>11. \A j \in Caches, d \in Classes :
        \/ InRemote(j, d) \notin touched /\ remote'[j][d] = remote[j][d]
        \/ Holds(remote'[j][d], new, InRemote(j, d))
  <2> TAKE j \in Caches, d \in Classes
  <2>1. CASE j = k /\ d = c
    BY <1>7, <1>10, <2>1
  <2>2. CASE ~(j = k /\ d = c)
    BY <1>8, <1>10, <2>2
  <2> QED BY <2>1, <2>2
<1>12. \A u \in Threads :
        \/ InPending(u) \notin touched /\ pending'[u] = pending[u]
        \/ Holds(pending'[u], new, InPending(u))
  BY <1>7, <1>8, <1>10
<1>13. Carved' = Carved
  BY <1>4, <1>10, CarvedSame
<1>14. BlocksPlaced(new)'
  <2>1. \A u \in Threads : Carries(u)' <=> Carries(u)
    BY <1>4, <1>10 DEF Carries
  <2> QED BY <1>1, <1>4, <1>8, <1>9, <1>11, <1>12, <1>13, <2>1, PlacesMoved
<1>15. ClassesMatch(new)'
  <2>1. \A d \in Blocks : new[d] = at[d] \/ (at[d] = InRemote(k, c) /\ new[d] = InPending(t))
    BY <1>5, <1>7 DEF Move
  <2>2. \A d \in Blocks : at[d] = InRemote(k, c) => Fits(d, InPending(t))'
    BY <1>1, <1>2, <1>4, PlaceNames DEF Fits, Placed, ClassesMatch, ClassOf
  <2> QED BY <1>1, <1>4, <2>1, <2>2, ClassesMoved
<1>16. StateTracksProgram' /\ OwnerInv'
  BY <1>4, <1>10 DEF BlockInv, StateTracksProgram, OwnerInv, Carries
<1>17. ThreadBlocksInv'
  BY <1>4, <1>10 DEF BlockInv, ThreadBlocksInv, ClassOf
<1> QED BY <1>14, <1>15, <1>16, <1>17 DEF BlockInv, Placed

\* Pushing block b on the hot segment and trimming: b leaves its place, the
\* other blocks stay or move between the segments and the bin of the class.
LEMMA PushAndTrimPlaces ==
    ASSUME HeapInv, NEW at, Placed(at),
           NEW k \in Caches, NEW c \in Classes, NEW b \in Blocks,
           GoodPair(local[k][c], spare[k][c]),
           at[b] # InLocal(k, c), at[b] # InSpare(k, c), at[b] # InCentral(c),
           PushAndTrim(k, c, b)
    PROVE  \E new :
             /\ Holds(local'[k][c].blocks, new, InLocal(k, c))
             /\ Holds(spare'[k][c].blocks, new, InSpare(k, c))
             /\ BinHolds(central'[c], new, InCentral(c))
             /\ \A d \in Classes : d # c => central'[d] = central[d]
             /\ \A j \in Caches, d \in Classes : j # k \/ d # c =>
                    local'[j][d] = local[j][d] /\ spare'[j][d] = spare[j][d]
             /\ new[b] \in {InLocal(k, c), InSpare(k, c)}
             /\ \A d \in Blocks : d # b =>
                    \/ new[d] = at[d]
                    \/ /\ at[d] \in {InLocal(k, c), InSpare(k, c)}
                       /\ new[d] \in {InSpare(k, c), InCentral(c)}
<1>1. PICK hot : hot = local[k][c].blocks
  OBVIOUS
<1>2. PICK cold : cold = spare[k][c]
  OBVIOUS
<1>3. PICK pushed : pushed = Push(local[k][c], b)
  OBVIOUS
<1>4. /\ local[k][c] \in Segments /\ hot \in Seq(Blocks)
      /\ cold \in Segments /\ cold.blocks \in Seq(Blocks) /\ Sound(cold)
      /\ cold.count <= CountMax /\ cold.count \in Nat
      /\ central[c] \in Seq(Segments)
  BY <1>1, <1>2 DEF HeapInv, VariablesTyped, Segments, GoodPair
<1>5. /\ Holds(hot, at, InLocal(k, c))
      /\ Holds(cold.blocks, at, InSpare(k, c))
      /\ BinHolds(central[c], at, InCentral(c))
  BY <1>1, <1>2 DEF Placed, BlocksPlaced
<1>6. /\ InLocal(k, c) # InSpare(k, c)
      /\ InLocal(k, c) # InCentral(c)
      /\ InSpare(k, c) # InCentral(c)
  BY PlaceNames
<1>7. pushed.blocks = <<b>> \o hot
  BY <1>1, <1>3 DEF Push
<1>8. CASE memx_heap_trim_needed(pushed, cold)
  <2>1. /\ spare' = [spare EXCEPT ![k][c] = pushed]
        /\ local' = [local EXCEPT ![k][c] = EmptySegment]
    BY <1>2, <1>3, <1>8 DEF PushAndTrim
  <2>2. /\ spare'[k][c].blocks = <<b>> \o hot /\ local'[k][c].blocks = <<>>
        /\ \A j \in Caches, d \in Classes : j # k \/ d # c =>
                local'[j][d] = local[j][d] /\ spare'[j][d] = spare[j][d]
    BY <1>7, <2>1 DEF HeapInv, VariablesTyped, EmptySegment
  <2>3. PICK first : first = Move(at, BlocksOf(cold.blocks), InCentral(c))
    OBVIOUS
  <2>4. PICK second : second = Move(first, BlocksOf(hot), InSpare(k, c))
    OBVIOUS
  <2>5. PICK new : new = Move(second, {b}, InSpare(k, c))
    OBVIOUS
  <2>6. \A d \in Blocks :
            /\ d \in BlocksOf(cold.blocks) <=> at[d] = InSpare(k, c)
            /\ d \in BlocksOf(hot) <=> at[d] = InLocal(k, c)
    BY <1>5 DEF Holds, BlocksOf
  <2>7. /\ \A d \in Blocks : first[d] =
                IF at[d] = InSpare(k, c) THEN InCentral(c) ELSE at[d]
        /\ \A d \in Blocks : second[d] =
                IF at[d] = InLocal(k, c) THEN InSpare(k, c) ELSE first[d]
        /\ \A d \in Blocks : new[d] = IF d = b THEN InSpare(k, c) ELSE second[d]
    BY <2>3, <2>4, <2>5, <2>6 DEF Move
  <2>8. BinHolds(central'[c], first, InCentral(c))
        /\ \A d \in Classes : d # c => central'[d] = central[d]
    <3>1. CASE FlushesSpare(cold)
      <4>1. memx_heap_push_central_chunks(c, <<CutAt(cold)>>, cold.count)
        BY <1>2, <1>3, <1>8, <3>1 DEF PushAndTrim
      <4>2. CutAt(cold) = cold
        BY <1>4, <3>1, CutSound DEF FlushesSpare
      <4>3. Once(cold.blocks)
        BY <1>5 DEF Holds
      <4>4. /\ <<cold>> \in Seq(Segments) /\ BinOnce(<<cold>>)
            /\ \A d \in Blocks : d \in BlocksOf(cold.blocks) <=> BinHas(<<cold>>, d)
        BY <1>4, <4>3, OneChunkOnce DEF BlocksOf
      <4>5. \A d \in Blocks : d \in BlocksOf(cold.blocks) => at[d] # InCentral(c)
        BY <1>6, <2>6
      <4>6. PICK bin : bin = Reverse(<<cold>>) \o central[c]
        OBVIOUS
      <4>7. BinHolds(bin, first, InCentral(c))
        BY <1>4, <1>5, <2>3, <4>4, <4>5, <4>6, BinPushed
      <4>8. central' = [central EXCEPT ![c] = bin]
        BY <4>1, <4>2, <4>6 DEF memx_heap_push_central_chunks
      <4> QED BY <4>7, <4>8 DEF HeapInv, VariablesTyped
    <3>2. CASE ~FlushesSpare(cold)
      <4>1. central' = central
        BY <1>2, <1>3, <1>8, <3>2 DEF PushAndTrim, bins
      <4>2. cold.blocks = <<>>
        <5> SUFFICES ASSUME cold.blocks # <<>> PROVE FALSE
          OBVIOUS
        <5>1. cold.count # 0
          BY <1>4, SoundEmpty
        <5>2. cold.tail # NoBlock
          BY <1>4, HeapAssumption, EmptySeq, LenProperties, ElementOfSeq
             DEF Sound, Last, Blocks
        <5> QED BY <1>4, <3>2, <5>1, <5>2 DEF FlushesSpare
      <4>3. \A d \in Blocks : at[d] # InSpare(k, c)
        BY <1>5, <4>2 DEF Holds, Has
      <4>4. \A d \in Blocks : first[d] = at[d]
        BY <2>7, <4>3
      <4> QED BY <1>5, <4>1, <4>4, BinHoldsSame
    <3> QED BY <3>1, <3>2
  <2>9. \A d \in Blocks : new[d] = InCentral(c) <=> first[d] = InCentral(c)
    BY <1>6, <2>7
  <2>10. BinHolds(central'[c], new, InCentral(c))
    BY <2>8, <2>9, BinHoldsSame
  <2>11. \A d \in Blocks : new[d] # InLocal(k, c)
    BY <1>6, <2>7
  <2>12. Holds(<<>>, new, InLocal(k, c))
    BY <2>11, HoldsNothing
  <2>13. Holds(hot, first, InLocal(k, c))
    <3>1. \A d \in Blocks : first[d] = InLocal(k, c) <=> at[d] = InLocal(k, c)
      BY <1>6, <2>7
    <3> QED BY <1>5, <3>1, HoldsSame
  <2>14. \A d \in Blocks : first[d] # InSpare(k, c)
    BY <1>6, <2>7
  <2>15. Holds(hot, second, InSpare(k, c))
    BY <2>4, <2>13, <2>14, HoldsTaken
  <2>16. second[b] # InSpare(k, c)
    BY <1>6, <2>7
  <2>17. Holds(<<b>> \o hot, new, InSpare(k, c))
    BY <1>4, <2>5, <2>15, <2>16, HoldsPush
  <2>18. /\ new[b] = InSpare(k, c)
         /\ \A d \in Blocks : d # b =>
                \/ new[d] = at[d]
                \/ /\ at[d] \in {InLocal(k, c), InSpare(k, c)}
                   /\ new[d] \in {InSpare(k, c), InCentral(c)}
    BY <2>7
  <2> QED BY <2>2, <2>8, <2>10, <2>12, <2>17, <2>18
<1>9. CASE ~memx_heap_trim_needed(pushed, cold)
  <2>1. /\ local' = [local EXCEPT ![k][c] = pushed]
        /\ UNCHANGED <<spare, central>>
    BY <1>2, <1>3, <1>9 DEF PushAndTrim, bins
  <2>2. PICK new : new = Move(at, {b}, InLocal(k, c))
    OBVIOUS
  <2>3. /\ local'[k][c].blocks = <<b>> \o hot
        /\ \A j \in Caches, d \in Classes : j # k \/ d # c => local'[j][d] = local[j][d]
    BY <1>7, <2>1 DEF HeapInv, VariablesTyped
  <2>4. Holds(<<b>> \o hot, new, InLocal(k, c))
    BY <1>4, <1>5, <2>2, HoldsPush
  <2>5. \A d \in Blocks : new[d] = IF d = b THEN InLocal(k, c) ELSE at[d]
    BY <2>2 DEF Move
  <2>6. Holds(cold.blocks, new, InSpare(k, c))
    <3>1. \A d \in Blocks : new[d] = InSpare(k, c) <=> at[d] = InSpare(k, c)
      BY <1>6, <2>5
    <3> QED BY <1>5, <3>1, HoldsSame
  <2>7. BinHolds(central[c], new, InCentral(c))
    <3>1. \A d \in Blocks : new[d] = InCentral(c) <=> at[d] = InCentral(c)
      BY <1>6, <2>5
    <3> QED BY <1>5, <3>1, BinHoldsSame
  <2> QED BY <1>2, <2>1, <2>3, <2>4, <2>5, <2>6, <2>7
<1> QED BY <1>8, <1>9

\* With b taken from place from, the lists it does not concern stay right.
LEMMA PushAndTrimPlaced ==
    ASSUME HeapInv, BlockInv, NEW at, Placed(at), NEW t \in Threads,
           tls[t] # NoCache, NEW b \in Blocks, NEW from,
           at[b] = from, from = InPending(t) \/ from = CarriedBy(t),
           PushAndTrim(tls[t], cls[t], b),
           UNCHANGED <<remote, program, next_span, span_classes>>,
           \A u \in Threads : u # t =>
                /\ pc'[u] = pc[u] /\ cls'[u] = cls[u] /\ blk'[u] = blk[u]
                /\ pending'[u] = pending[u],
           pc[t] # "carve", pc'[t] # "carve", ~Carries(t)',
           from = InPending(t) => ~Carries(t) /\ cls'[t] = cls[t],
           \A new :
                (\A d \in Blocks : new[d] = InPending(t) <=> d # b /\ at[d] = InPending(t))
                => Holds(pending'[t], new, InPending(t)),
           from = CarriedBy(t) => pending'[t] = <<>> /\ blk[t] = b /\ Carries(t)
                                  /\ pending[t] = <<>>
    PROVE  \E new : Placed(new)'
<1> DEFINE k == tls[t]
           c == cls[t]
<1>1. k \in Caches /\ c \in Classes /\ GoodPair(local[k][c], spare[k][c])
  BY OwnedCache DEF HeapInv, VariablesTyped
<1>2. at[b] # InLocal(k, c) /\ at[b] # InSpare(k, c) /\ at[b] # InCentral(c)
  BY PlaceNames
<1> HIDE DEF k, c
<1>3. PushAndTrim(k, c, b)
  BY DEF k, c
<1>4. PICK new :
             /\ Holds(local'[k][c].blocks, new, InLocal(k, c))
             /\ Holds(spare'[k][c].blocks, new, InSpare(k, c))
             /\ BinHolds(central'[c], new, InCentral(c))
             /\ \A d \in Classes : d # c => central'[d] = central[d]
             /\ \A j \in Caches, d \in Classes : j # k \/ d # c =>
                    local'[j][d] = local[j][d] /\ spare'[j][d] = spare[j][d]
             /\ new[b] \in {InLocal(k, c), InSpare(k, c)}
             /\ \A d \in Blocks : d # b =>
                    \/ new[d] = at[d]
                    \/ /\ at[d] \in {InLocal(k, c), InSpare(k, c)}
                       /\ new[d] \in {InSpare(k, c), InCentral(c)}
  BY <1>1, <1>2, <1>3, PushAndTrimPlaces
<1>5. PICK touched : touched = {InLocal(k, c), InSpare(k, c), InCentral(c), from}
  OBVIOUS
<1>6. /\ \A j, d : InLocal(j, d) \in touched <=> j = k /\ d = c
      /\ \A j, d : InSpare(j, d) \in touched <=> j = k /\ d = c
      /\ \A j, d : InRemote(j, d) \notin touched
      /\ \A d : InCentral(d) \in touched <=> d = c
      /\ Nowhere \notin touched /\ InProgram \notin touched
      /\ \A u : u # t => InPending(u) \notin touched /\ CarriedBy(u) \notin touched
  BY <1>5, PlaceNames
<1>7. /\ \A d \in Blocks : new[d] = at[d] \/ (at[d] \in touched /\ new[d] \in touched)
      /\ \A p \in touched : IsPlace(p)
  BY <1>1, <1>4, <1>5 DEF IsPlace
<1>8. \A d \in Blocks :
        /\ new[d] = InPending(t) <=> d # b /\ at[d] = InPending(t)
        /\ new[d] = CarriedBy(t) <=> d # b /\ at[d] = CarriedBy(t)
  BY <1>4, PlaceNames
<1>9. \A j \in Caches, d \in Classes :
        \/ InLocal(j, d) \notin touched /\ local'[j][d].blocks = local[j][d].blocks
        \/ Holds(local'[j][d].blocks, new, InLocal(j, d))
  <2> TAKE j \in Caches, d \in Classes
  <2>1. CASE j = k /\ d = c
    BY <1>4, <2>1
  <2>2. CASE ~(j = k /\ d = c)
    BY <1>4, <1>6, <2>2
  <2> QED BY <2>1, <2>2
<1>10. \A j \in Caches, d \in Classes :
        \/ InSpare(j, d) \notin touched /\ spare'[j][d].blocks = spare[j][d].blocks
        \/ Holds(spare'[j][d].blocks, new, InSpare(j, d))
  <2> TAKE j \in Caches, d \in Classes
  <2>1. CASE j = k /\ d = c
    BY <1>4, <2>1
  <2>2. CASE ~(j = k /\ d = c)
    BY <1>4, <1>6, <2>2
  <2> QED BY <2>1, <2>2
<1>11. \A d \in Classes :
        \/ InCentral(d) \notin touched /\ central'[d] = central[d]
        \/ BinHolds(central'[d], new, InCentral(d))
  BY <1>4, <1>6
<1>12. \A u \in Threads :
        \/ InPending(u) \notin touched /\ pending'[u] = pending[u]
        \/ Holds(pending'[u], new, InPending(u))
  <2>1. Holds(pending'[t], new, InPending(t))
    BY <1>8
  <2> QED BY <1>6, <2>1
<1>13. \A u \in Threads :
        \/ /\ CarriedBy(u) \notin touched
           /\ Carries(u)' <=> Carries(u)
           /\ Carries(u) => blk'[u] = blk[u]
        \/ \A d \in Blocks : new[d] = CarriedBy(u) <=> Carries(u)' /\ blk'[u] = d
  <2>1. \A d \in Blocks : new[d] # CarriedBy(t)
    BY <1>8 DEF Placed, BlocksPlaced
  <2>2. \A u \in Threads : u # t => (Carries(u)' <=> Carries(u))
    BY DEF Carries
  <2> QED BY <1>6, <2>1, <2>2
<1>14. Carved' = Carved
  BY CarvedSame
<1>15. BlocksPlaced(new)'
  BY <1>6, <1>7, <1>9, <1>10, <1>11, <1>12, <1>13, <1>14, PlacesMoved
<1>16. ClassesMatch(new)'
  <2>1. ClassOf(b) = c
    BY DEF Placed, ClassesMatch, Fits, c
  <2>2. \A d \in Blocks : at[d] \in {InLocal(k, c), InSpare(k, c)} => ClassOf(d) = c
    BY <1>1 DEF Placed, ClassesMatch, Fits
  <2>3. ASSUME NEW d \in Blocks, new[d] # at[d] PROVE Fits(d, new[d])'
    <3>1. /\ ClassOf(d) = c
          /\ new[d] \in {InLocal(k, c), InSpare(k, c), InCentral(c)}
      BY <1>4, <2>1, <2>2, <2>3
    <3>2. ClassOf(d)' = c
      BY <3>1 DEF ClassOf
    <3> QED BY <3>1, <3>2, PlaceNames DEF Fits
  <2>4. \A u \in Threads : \/ cls'[u] = cls[u]
                           \/ \A d \in Blocks :
                                new[d] # InPending(u) /\ new[d] # CarriedBy(u)
    <3>1. CASE from = InPending(t)
      BY <3>1
    <3>2. CASE from = CarriedBy(t)
      <4>1. Holds(<<>>, at, InPending(t))
        BY <3>2 DEF Placed, BlocksPlaced
      <4>2. \A d \in Blocks : new[d] # InPending(t) /\ new[d] # CarriedBy(t)
        BY <1>8, <3>2, <4>1 DEF Placed, BlocksPlaced, Holds, Has
      <4> QED BY <4>2
    <3> QED BY <3>1, <3>2
  <2> QED BY <2>3, <2>4, ClassesMoved
<1> QED BY <1>15, <1>16 DEF Placed

\* A drained block goes to the hot segment.
LEMMA DrainPushBlocks ==
    ASSUME HeapInv, BlockInv, NEW t \in Threads, DrainPush(t)
    PROVE  BlockInv'
<1>1. PICK at : Placed(at)
  BY DEF BlockInv
<1>2. PICK list : list = pending[t]
  OBVIOUS
<1>3. PICK b : b = Head(list)
  OBVIOUS
<1>4. /\ pc[t] = "drain" /\ list # <<>> /\ list \in Seq(Blocks) /\ tls[t] # NoCache
      /\ PushAndTrim(tls[t], cls[t], b)
      /\ pending' = [pending EXCEPT ![t] = Tail(list)]
      /\ UNCHANGED <<tls, caches, exclusive_cache, remote, next_span, span_classes,
                     state, owner, pc, cls, blk, program>>
  BY <1>2, <1>3 DEF DrainPush, shared, arena, headers, HeapInv, VariablesTyped, FrameInv
<1>5. /\ pending'[t] = Tail(list)
      /\ \A u \in Threads : u # t => pending'[u] = pending[u]
  BY <1>4 DEF HeapInv, VariablesTyped
<1>6. PICK other : other = Move(at, {b}, InProgram)
  OBVIOUS
<1>7. /\ b \in Blocks /\ at[b] = InPending(t)
      /\ Holds(Tail(list), other, InPending(t))
  <2>1. Holds(list, at, InPending(t)) /\ InPending(t) # InProgram
    BY <1>1, <1>2, PlaceNames DEF Placed, BlocksPlaced
  <2> QED BY <1>3, <1>4, <1>6, <2>1, HoldsPop
<1>8. ASSUME NEW new,
             \A d \in Blocks : new[d] = InPending(t) <=> d # b /\ at[d] = InPending(t)
      PROVE  Holds(pending'[t], new, InPending(t))
  <2>1. \A d \in Blocks : other[d] = InPending(t) <=> d # b /\ at[d] = InPending(t)
    BY <1>6, PlaceNames DEF Move
  <2>2. \A d \in Blocks : new[d] = InPending(t) <=> other[d] = InPending(t)
    BY <1>8, <2>1
  <2> QED BY <1>5, <1>7, <2>2, HoldsSame
<1>9. ~Carries(t) /\ ~Carries(t)' /\ InPending(t) # CarriedBy(t)
  BY <1>4, PlaceNames DEF Carries
<1>10. \E new : Placed(new)'
  <2>1. PICK from : from = InPending(t)
    OBVIOUS
  <2> QED BY <1>1, <1>4, <1>5, <1>7, <1>8, <1>9, <2>1, PushAndTrimPlaced
<1>11. StateTracksProgram' /\ OwnerInv'
  BY <1>4 DEF BlockInv, StateTracksProgram, OwnerInv, Carries
<1>12. ThreadBlocksInv'
  BY <1>4, <1>5 DEF BlockInv, ThreadBlocksInv, ClassOf
<1> QED BY <1>10, <1>11, <1>12 DEF BlockInv

\* A freed block goes to the hot segment of its own cache.
LEMMA RouteLocalBlocks ==
    ASSUME HeapInv, BlockInv, NEW t \in Threads, RouteLocal(t)
    PROVE  BlockInv'
<1>1. PICK at : Placed(at)
  BY DEF BlockInv
<1>2. PICK b \in Blocks : b = blk[t]
  BY DEF RouteLocal, HeapInv, FrameInv
<1>3. /\ pc[t] = "route" /\ tls[t] # NoCache
      /\ PushAndTrim(tls[t], cls[t], b)
      /\ Done(t)
      /\ UNCHANGED <<tls, caches, exclusive_cache, remote, next_span, span_classes,
                     state, owner, program>>
  BY <1>2 DEF RouteLocal, shared, arena, headers
<1>4. /\ pc'[t] = "idle" /\ pending'[t] = <<>>
      /\ \A u \in Threads : u # t =>
            /\ pc'[u] = pc[u] /\ cls'[u] = cls[u] /\ blk'[u] = blk[u]
            /\ pending'[u] = pending[u]
  BY <1>3 DEF HeapInv, VariablesTyped, Done
<1>5. Carries(t) /\ ~Carries(t)' /\ InPending(t) # CarriedBy(t) /\ pending[t] = <<>>
  BY <1>3, <1>4, PlaceNames DEF Carries, BlockInv, ThreadBlocksInv
<1>6. at[b] = CarriedBy(t) /\ Holds(<<>>, at, InPending(t))
  BY <1>1, <1>2, <1>5 DEF Placed, BlocksPlaced
<1>7. ASSUME NEW new,
             \A d \in Blocks : new[d] = InPending(t) <=> d # b /\ at[d] = InPending(t)
      PROVE  Holds(pending'[t], new, InPending(t))
  <2>1. \A d \in Blocks : new[d] # InPending(t)
    BY <1>6, <1>7 DEF Holds, Has
  <2> QED BY <1>4, <2>1, HoldsNothing
<1>8. \E new : Placed(new)'
  <2>1. PICK from : from = CarriedBy(t)
    OBVIOUS
  <2> QED BY <1>1, <1>2, <1>3, <1>4, <1>5, <1>6, <1>7, <2>1, PushAndTrimPlaced
<1>9. StateTracksProgram' /\ OwnerInv'
  BY <1>3, <1>4 DEF BlockInv, StateTracksProgram, OwnerInv, Carries
<1>10. ThreadBlocksInv'
  BY <1>3, <1>4 DEF BlockInv, ThreadBlocksInv, ClassOf
<1> QED BY <1>8, <1>9, <1>10 DEF BlockInv

\* The top chunk of the bin goes to the hot segment.
LEMMA RefillChunkBlocks ==
    ASSUME HeapInv, BlockInv, NEW t \in Threads, RefillChunk(t)
    PROVE  BlockInv'
<1>1. PICK at : Placed(at)
  BY DEF BlockInv
<1>2. PICK k \in Caches, c \in Classes : k = tls[t] /\ c = cls[t]
  BY DEF HeapInv, VariablesTyped, FrameInv, RefillChunk, Refilling
<1>3. PICK bin : bin = central[c]
  OBVIOUS
<1>4. PICK chunk : chunk = Head(bin)
  OBVIOUS
<1>5. PICK hot : hot = local[k][c].blocks
  OBVIOUS
<1>6. bin # <<>> /\ GoodBin(bin) /\ bin \in Seq(Segments) /\ hot \in Seq(Blocks)
  <2>1. bin # <<>>
    BY <1>2, <1>3 DEF RefillChunk
  <2>2. GoodBin(bin)
    BY <1>3 DEF HeapInv, CentralInv
  <2>3. local[k][c] \in Segments
    BY DEF HeapInv, VariablesTyped
  <2> QED BY <1>5, <2>1, <2>2, <2>3 DEF GoodBin, Segments
<1>7. /\ chunk \in Segments /\ chunk.blocks \in Seq(Blocks) /\ CutAt(chunk) = chunk
  <2>1. GoodChunk(chunk)
    BY <1>4, <1>6, PopBin
  <2>2. chunk \in Segments /\ Sound(chunk) /\ chunk.count # 0
    BY <2>1 DEF GoodChunk
  <2> QED BY <2>2, CutSound, SoundEmpty DEF Segments
<1>8. /\ pc[t] = "locked" /\ pc' = [pc EXCEPT ![t] = "pop"]
      /\ central' = [central EXCEPT ![c] = Tail(bin)]
      /\ local' = [local EXCEPT ![k][c] =
                [blocks |-> chunk.blocks \o hot,
                 tail |-> IF hot = <<>> THEN chunk.tail ELSE local[k][c].tail,
                 count |-> local[k][c].count + chunk.count]]
      /\ UNCHANGED <<tls, caches, exclusive_cache, spare, remote, next_span,
                     span_classes, state, owner, cls, blk, pending, program>>
  BY <1>2, <1>3, <1>4, <1>5, <1>7 DEF RefillChunk, Goto, shared, arena, headers
<1>9. PICK new : new = Move(at, BlocksOf(chunk.blocks), InLocal(k, c))
  OBVIOUS
<1>10. PICK touched : touched = {InLocal(k, c), InCentral(c)}
  OBVIOUS
<1>11. /\ \A d \in BlocksOf(chunk.blocks) : at[d] = InCentral(c)
       /\ BinHolds(Tail(bin), new, InCentral(c))
       /\ Holds(chunk.blocks \o hot, new, InLocal(k, c))
  <2>1. /\ BinHolds(bin, at, InCentral(c)) /\ Holds(hot, at, InLocal(k, c))
        /\ InLocal(k, c) # InCentral(c)
    BY <1>1, <1>3, <1>5, PlaceNames DEF Placed, BlocksPlaced
  <2>2. /\ Once(chunk.blocks)
        /\ \A d \in BlocksOf(chunk.blocks) : at[d] = InCentral(c)
        /\ BinHolds(Tail(bin), new, InCentral(c))
    BY <1>4, <1>6, <1>9, <2>1, BinPop
  <2>3. \A d \in BlocksOf(chunk.blocks) : at[d] # InLocal(k, c)
    BY <2>1, <2>2
  <2> QED BY <1>6, <1>7, <1>9, <2>1, <2>2, <2>3, HoldsSplice
<1>12. /\ \A j, d : InLocal(j, d) \in touched <=> j = k /\ d = c
       /\ \A j, d : InSpare(j, d) \notin touched /\ InRemote(j, d) \notin touched
       /\ \A d : InCentral(d) \in touched <=> d = c
       /\ \A u : InPending(u) \notin touched /\ CarriedBy(u) \notin touched
       /\ Nowhere \notin touched /\ InProgram \notin touched
  BY <1>10, PlaceNames
<1>13. /\ \A d \in Blocks : new[d] = at[d] \/ (at[d] \in touched /\ new[d] \in touched)
       /\ \A p \in touched : IsPlace(p)
  BY <1>9, <1>10, <1>11 DEF Move, IsPlace
<1>14. /\ local'[k][c].blocks = chunk.blocks \o hot /\ central'[c] = Tail(bin)
       /\ \A j \in Caches, d \in Classes : j # k \/ d # c => local'[j][d] = local[j][d]
       /\ \A d \in Classes : d # c => central'[d] = central[d]
       /\ \A u \in Threads : u # t => pc'[u] = pc[u]
       /\ pc'[t] = "pop"
  BY <1>8 DEF HeapInv, VariablesTyped
<1>15. \A j \in Caches, d \in Classes :
        \/ InLocal(j, d) \notin touched /\ local'[j][d].blocks = local[j][d].blocks
        \/ Holds(local'[j][d].blocks, new, InLocal(j, d))
  <2> TAKE j \in Caches, d \in Classes
  <2>1. CASE j = k /\ d = c
    BY <1>11, <1>14, <2>1
  <2>2. CASE ~(j = k /\ d = c)
    BY <1>12, <1>14, <2>2
  <2> QED BY <2>1, <2>2
<1>16. \A d \in Classes :
        \/ InCentral(d) \notin touched /\ central'[d] = central[d]
        \/ BinHolds(central'[d], new, InCentral(d))
  BY <1>11, <1>12, <1>14
<1>17. Carved' = Carved
  BY <1>8, <1>14, CarvedSame
<1>18. BlocksPlaced(new)'
  <2>1. \A u \in Threads : Carries(u)' <=> Carries(u)
    BY <1>8, <1>14 DEF Carries
  <2> QED BY <1>1, <1>8, <1>12, <1>13, <1>15, <1>16, <1>17, <2>1, PlacesMoved
<1>19. ClassesMatch(new)'
  <2>1. \A d \in Blocks : new[d] = at[d] \/ (at[d] = InCentral(c) /\ new[d] = InLocal(k, c))
    BY <1>9, <1>11 DEF Move
  <2>2. \A d \in Blocks : at[d] = InCentral(c) => Fits(d, InLocal(k, c))'
    BY <1>1, <1>8, PlaceNames DEF Fits, Placed, ClassesMatch, ClassOf
  <2> QED BY <1>1, <1>8, <2>1, <2>2, ClassesMoved
<1>20. StateTracksProgram' /\ OwnerInv'
  BY <1>8, <1>14 DEF BlockInv, StateTracksProgram, OwnerInv, Carries
<1>21. ThreadBlocksInv'
  BY <1>8, <1>14 DEF BlockInv, ThreadBlocksInv, ClassOf
<1> QED BY <1>18, <1>19, <1>20, <1>21 DEF BlockInv, Placed

\* A claimed span is not carved yet, so its class may change.
LEMMA ClaimSpanBlocks ==
    ASSUME HeapInv, BlockInv, NEW t \in Threads, ClaimSpan(t)
    PROVE  BlockInv'
<1>1. PICK at : Placed(at)
  BY DEF BlockInv
<1>2. /\ pc[t] = "claim" /\ pc' = [pc EXCEPT ![t] = "carve"]
      /\ next_span < SpanCapacity /\ next_span' = next_span + 1
      /\ span_classes' = [span_classes EXCEPT ![next_span] = cls[t]]
      /\ blk' = [blk EXCEPT ![t] = BlockOf(next_span, 0)]
      /\ UNCHANGED <<tls, caches, exclusive_cache, local, spare, remote, central,
                     state, owner, cls, pending, program>>
  BY DEF ClaimSpan, Goto, shared, lists, bins, headers
<1>3. next_span \in Nat /\ next_span \in Spans /\ next_span' \in Nat
  BY <1>2, HeapAssumption DEF HeapInv, VariablesTyped, Spans
<1>4. SpanOf(BlockOf(next_span, 0)) = next_span
  BY <1>3, HeapAssumption, SpanOfBlock
<1>5. /\ pc'[t] = "carve" /\ blk'[t] = BlockOf(next_span, 0)
      /\ \A u \in Threads : u # t => pc'[u] = pc[u] /\ blk'[u] = blk[u]
  BY <1>2 DEF HeapInv, VariablesTyped
<1>6. \A b \in Blocks : SpanOf(b) \in Nat /\ SpanOf(b) \in Spans
  BY SpanRange DEF Spans
<1>7. Carved' = Carved
  <2>1. ASSUME NEW b \in Blocks PROVE b \in Carved' <=> b \in Carved
    <3>1. CASE SpanOf(b) = next_span
      BY <1>3, <1>4, <1>5, <1>6, <3>1 DEF Carved
    <3>2. CASE SpanOf(b) # next_span
      <4>1. SpanOf(b) < next_span' <=> SpanOf(b) < next_span
        BY <1>2, <1>3, <1>6, <3>2
      <4>2. SpanOf(blk'[t]) # SpanOf(b)
        BY <1>4, <1>5, <3>2
      <4>3. (\E u \in Threads : pc'[u] = "carve" /\ SpanOf(blk'[u]) = SpanOf(b))
            <=> \E u \in Threads : pc[u] = "carve" /\ SpanOf(blk[u]) = SpanOf(b)
        BY <1>2, <1>5, <4>2
      <4> QED BY <4>1, <4>3 DEF Carved
    <3> QED BY <3>1, <3>2
  <2> QED BY <2>1 DEF Carved
<1>8. \A b \in Blocks : SpanOf(b) < next_span => ClassOf(b)' = ClassOf(b)
  BY <1>2, <1>3, <1>6 DEF ClassOf, HeapInv, VariablesTyped
<1>9. Placed(at)'
  <2>1. \A b \in Carved : ClassOf(b)' = ClassOf(b)
    BY <1>8 DEF Carved
  <2>2. /\ \A u \in Threads : Carries(u)' <=> Carries(u)
        /\ \A u \in Threads : Carries(u) => blk'[u] = blk[u]
    BY <1>2, <1>5 DEF Carries
  <2> QED BY <1>1, <1>2, <1>7, <2>1, <2>2, PlacesKept
<1>10. StateTracksProgram' /\ OwnerInv'
  BY <1>2, <1>5 DEF BlockInv, StateTracksProgram, OwnerInv, Carries
<1>11. ThreadBlocksInv'
  <2>1. \A u \in Threads : pc'[u] # "drain" => pending'[u] = <<>>
    BY <1>2, <1>5 DEF BlockInv, ThreadBlocksInv
  <2>2. ASSUME NEW u \in Threads, u # t, pc[u] \in {"cas", "carve"}
        PROVE  /\ blk[u] \in Blocks
               /\ SpanOf(blk[u]) < next_span
               /\ ClassOf(blk[u]) = cls[u]
    BY <2>2 DEF BlockInv, ThreadBlocksInv, HeapInv, FrameInv
  <2>3. ASSUME NEW u \in Threads, pc'[u] \in {"cas", "carve"}
        PROVE  SpanOf(blk'[u]) < next_span' /\ ClassOf(blk[u])' = cls'[u]
    <3>1. CASE u = t
      BY <1>2, <1>3, <1>4, <1>5, <3>1 DEF ClassOf, HeapInv, VariablesTyped
    <3>2. CASE u # t
      <4>1. /\ blk[u] \in Blocks /\ blk'[u] = blk[u]
            /\ SpanOf(blk[u]) < next_span /\ ClassOf(blk[u]) = cls[u]
        BY <1>5, <2>2, <2>3, <3>2
      <4>2. SpanOf(blk[u]) < next_span'
        BY <1>2, <1>3, <1>6, <4>1
      <4>3. ClassOf(blk[u])' = ClassOf(blk[u])
        BY <1>8, <4>1 DEF ClassOf
      <4> QED BY <1>2, <4>1, <4>2, <4>3
    <3> QED BY <3>1, <3>2
  <2>4. ASSUME NEW u \in Threads, u # t, pc[u] = "carve"
        PROVE  SpanOf(blk'[u]) # SpanOf(blk'[t])
    BY <1>3, <1>4, <1>5, <1>6, <2>2, <2>4
  <2>5. ASSUME NEW u \in Threads, NEW v \in Threads, pc'[u] = "carve", pc'[v] = "carve",
               SpanOf(blk'[u]) = SpanOf(blk'[v])
        PROVE  u = v
    <3>1. CASE u # t /\ v # t
      BY <1>5, <2>5, <3>1 DEF BlockInv, ThreadBlocksInv
    <3>2. CASE u = t \/ v = t
      BY <1>5, <2>4, <2>5, <3>2
    <3> QED BY <3>1, <3>2
  <2> QED BY <2>1, <2>3, <2>5 DEF ThreadBlocksInv
<1> QED BY <1>9, <1>10, <1>11 DEF BlockInv

\* The blocks of the carved span go to the bin.
LEMMA CarveBlocks ==
    ASSUME HeapInv, BlockInv, NEW t \in Threads, Carve(t)
    PROVE  BlockInv'
<1>1. PICK at : Placed(at)
  BY DEF BlockInv
<1>2. PICK c \in Classes, span \in Spans :
        /\ c = cls[t] /\ span = SpanOf(blk[t]) /\ blk[t] \in Blocks
        /\ span < next_span /\ span_classes[span] = c
  <2>1. pc[t] = "carve" /\ blk[t] \in Blocks /\ cls[t] \in Classes
    BY DEF Carve, HeapInv, VariablesTyped, FrameInv
  <2>2. SpanOf(blk[t]) \in Spans
    BY <2>1, SpanRange
  <2> QED BY <2>1, <2>2 DEF BlockInv, ThreadBlocksInv, ClassOf
<1>3. PICK chunks : chunks = CarvedChunks(span)
  OBVIOUS
<1>4. PICK bin : bin = Reverse(chunks) \o central[c]
  OBVIOUS
<1>5. /\ pc[t] = "carve" /\ pc' = [pc EXCEPT ![t] = "locked"]
      /\ state' = [b \in Blocks |-> IF SpanOf(b) = span THEN 0 ELSE state[b]]
      /\ central' = [central EXCEPT ![c] = bin]
      /\ blk' = [blk EXCEPT ![t] = NoBlock]
      /\ UNCHANGED <<tls, caches, exclusive_cache, local, spare, remote, next_span,
                     span_classes, owner, cls, pending, program>>
  BY <1>2, <1>3, <1>4 DEF Carve, Goto, memx_heap_push_central_chunks,
     shared, lists, arena
<1>6. PICK moved : moved = {b \in Blocks : SpanOf(b) = span}
  OBVIOUS
<1>7. PICK new : new = Move(at, moved, InCentral(c))
  OBVIOUS
<1>8. PICK touched : touched = {Nowhere, InCentral(c)}
  OBVIOUS
<1>9. /\ pc'[t] = "locked" /\ central'[c] = bin
      /\ \A d \in Classes : d # c => central'[d] = central[d]
      /\ \A u \in Threads : u # t => pc'[u] = pc[u] /\ blk'[u] = blk[u]
  BY <1>5 DEF HeapInv, VariablesTyped
<1>10. \A b \in Blocks : b \in moved => b \notin Carved /\ at[b] = Nowhere
  BY <1>1, <1>2, <1>5, <1>6 DEF Carved, Placed, BlocksPlaced
<1>11. BinHolds(bin, new, InCentral(c))
  <2>1. /\ chunks \in Seq(Segments) /\ BinOnce(chunks)
        /\ \A b \in Blocks : b \in moved <=> BinHas(chunks, b)
    BY <1>3, <1>6, CarvedOnce
  <2>2. central[c] \in Seq(Segments) /\ BinHolds(central[c], at, InCentral(c))
    BY <1>1 DEF HeapInv, VariablesTyped, Placed, BlocksPlaced
  <2>3. \A b \in Blocks : b \in moved => at[b] # InCentral(c)
    BY <1>10, PlaceNames
  <2> QED BY <1>4, <1>7, <2>1, <2>2, <2>3, BinPushed
<1>12. /\ \A j, d : /\ InLocal(j, d) \notin touched /\ InSpare(j, d) \notin touched
                    /\ InRemote(j, d) \notin touched
       /\ \A d : InCentral(d) \in touched <=> d = c
       /\ \A u : InPending(u) \notin touched /\ CarriedBy(u) \notin touched
       /\ InProgram \notin touched
  BY <1>8, PlaceNames
<1>13. /\ \A d \in Blocks : new[d] = at[d] \/ (at[d] \in touched /\ new[d] \in touched)
       /\ \A p \in touched : IsPlace(p)
  BY <1>7, <1>8, <1>10 DEF Move, IsPlace
<1>14. \A d \in Classes :
        \/ InCentral(d) \notin touched /\ central'[d] = central[d]
        \/ BinHolds(central'[d], new, InCentral(d))
  BY <1>9, <1>11, <1>12
<1>15. \A b \in Blocks : b \in Carved' <=> b \in Carved \/ b \in moved
  <2>1. ASSUME NEW b \in Blocks, b \in moved PROVE b \in Carved'
    <3>1. SpanOf(b) = span
      BY <1>6, <2>1
    <3>2. ASSUME NEW u \in Threads, pc'[u] = "carve", SpanOf(blk'[u]) = span PROVE FALSE
      <4>1. u # t /\ pc[u] = "carve" /\ SpanOf(blk[u]) = SpanOf(blk[t])
        BY <1>2, <1>9, <3>2
      <4> QED BY <1>5, <4>1 DEF BlockInv, ThreadBlocksInv
    <3> QED BY <1>2, <1>5, <3>1, <3>2 DEF Carved
  <2>2. ASSUME NEW b \in Blocks, b \notin moved PROVE b \in Carved' <=> b \in Carved
    <3>1. SpanOf(b) # SpanOf(blk[t])
      BY <1>2, <1>6, <2>2
    <3>2. \A u \in Threads : pc'[u] = "carve" /\ SpanOf(blk'[u]) = SpanOf(b)
                             <=> pc[u] = "carve" /\ SpanOf(blk[u]) = SpanOf(b)
      BY <1>5, <1>9, <3>1
    <3> QED BY <1>5, <3>2 DEF Carved
  <2> QED BY <2>1, <2>2, <1>10
<1>16. \A b \in Blocks : new[b] = Nowhere <=> b \notin Carved'
  BY <1>1, <1>7, <1>15, PlaceNames DEF Placed, BlocksPlaced, Move
<1>17. BlocksPlaced(new)'
  <2>1. \A u \in Threads :
            (Carries(u)' <=> Carries(u)) /\ (Carries(u) => blk'[u] = blk[u])
    BY <1>5, <1>9 DEF Carries
  <2> QED BY <1>1, <1>5, <1>12, <1>13, <1>14, <1>16, <2>1, PlacesMoved
<1>18. ClassesMatch(new)'
  <2>1. \A d \in Blocks : new[d] = at[d] \/ (SpanOf(d) = span /\ new[d] = InCentral(c))
    BY <1>6, <1>7 DEF Move
  <2>2. \A d \in Blocks : SpanOf(d) = span => Fits(d, InCentral(c))'
    BY <1>2, <1>5, PlaceNames DEF Fits, ClassOf
  <2> QED BY <1>1, <1>5, <2>1, <2>2, ClassesMoved
<1>19. StateTracksProgram'
  <2>1. \A b \in moved : b \notin program
    BY <1>1, <1>6, <1>10, PlaceNames DEF Placed, BlocksPlaced
  <2> QED BY <1>5, <1>6, <2>1 DEF BlockInv, StateTracksProgram
<1>20. OwnerInv'
  BY <1>5, <1>9 DEF BlockInv, OwnerInv, Carries
<1>21. ThreadBlocksInv'
  BY <1>5, <1>9 DEF BlockInv, ThreadBlocksInv, ClassOf
<1> QED BY <1>17, <1>18, <1>19, <1>20, <1>21 DEF BlockInv, Placed

\* The program hands a block to a thread that frees it.
LEMMA TakenFromProgram ==
    ASSUME HeapInv, BlockInv, NEW at, Placed(at), NEW t \in Threads, NEW b \in Blocks,
           b \in program, program' = program \ {b},
           pc[t] \notin {"drain", "carve"}, ~Carries(t),
           pc'[t] = "route", blk'[t] = b, cls'[t] = ClassOf(b),
           \A u \in Threads : u # t =>
                pc'[u] = pc[u] /\ blk'[u] = blk[u] /\ cls'[u] = cls[u],
           UNCHANGED <<local, spare, remote, central, pending, next_span, span_classes>>
    PROVE  \E new : Placed(new)'
<1>1. PICK new : new = Move(at, {b}, CarriedBy(t))
  OBVIOUS
<1>2. PICK touched : touched = {InProgram, CarriedBy(t)}
  OBVIOUS
<1>3. /\ \A j, d : /\ InLocal(j, d) \notin touched /\ InSpare(j, d) \notin touched
                   /\ InRemote(j, d) \notin touched
      /\ \A d : InCentral(d) \notin touched
      /\ \A u : InPending(u) \notin touched
      /\ \A u : CarriedBy(u) \in touched <=> u = t
      /\ Nowhere \notin touched
  BY <1>2, PlaceNames
<1>4. at[b] = InProgram
  BY DEF Placed, BlocksPlaced
<1>5. /\ \A d \in Blocks : new[d] = at[d] \/ (at[d] \in touched /\ new[d] \in touched)
      /\ \A p \in touched : IsPlace(p)
  BY <1>1, <1>2, <1>4 DEF Move, IsPlace
<1>6. \A u \in Threads :
        \/ /\ CarriedBy(u) \notin touched
           /\ Carries(u)' <=> Carries(u)
           /\ Carries(u) => blk'[u] = blk[u]
        \/ \A d \in Blocks : new[d] = CarriedBy(u) <=> Carries(u)' /\ blk'[u] = d
  <2>1. \A d \in Blocks : at[d] # CarriedBy(t)
    BY DEF Placed, BlocksPlaced
  <2>2. \A d \in Blocks : new[d] = CarriedBy(t) <=> d = b
    BY <1>1, <2>1 DEF Move
  <2>3. Carries(t)' /\ \A u \in Threads : u # t => (Carries(u)' <=> Carries(u))
    BY DEF Carries
  <2> QED BY <1>3, <2>2, <2>3
<1>7. \A d \in Blocks : new[d] = InProgram <=> d \in program'
  BY <1>1, PlaceNames DEF Move, Placed, BlocksPlaced
<1>8. Carved' = Carved
  BY CarvedSame
<1>9. BlocksPlaced(new)'
  BY <1>3, <1>5, <1>6, <1>7, <1>8, PlacesMoved
<1>10. ClassesMatch(new)'
  <2>1. Fits(b, CarriedBy(t))'
    BY PlaceNames DEF Fits, ClassOf
  <2>2. ASSUME NEW d \in Blocks PROVE Fits(d, new[d])'
    <3>1. CASE d = b
      BY <1>1, <2>1, <3>1 DEF Move
    <3>2. CASE d # b
      <4>1. /\ new[d] = at[d] /\ Fits(d, at[d])
            /\ at[d] # InPending(t) /\ at[d] # CarriedBy(t)
        BY <1>1, <3>2, EmptyHands DEF Move, BlockInv, Placed, ClassesMatch
      <4> QED BY <4>1, PlaceNames DEF Fits, ClassOf
    <3> QED BY <3>1, <3>2
  <2> QED BY <2>2 DEF ClassesMatch
<1> QED BY <1>9, <1>10 DEF Placed

\* The unchecked free.
LEMMA FreeUncheckedBlocks ==
    ASSUME HeapInv, BlockInv, NEW t \in Threads, NEW b \in Blocks, FreeUnchecked(t, b)
    PROVE  BlockInv'
<1>1. PICK at : Placed(at)
  BY DEF BlockInv
<1>2. /\ pc[t] = "idle" /\ b \in program /\ program' = program \ {b}
      /\ state' = [state EXCEPT ![b] = 0]
      /\ pc'[t] = "route" /\ blk'[t] = b /\ cls'[t] = ClassOf(b)
      /\ \A u \in Threads : u # t =>
            pc'[u] = pc[u] /\ blk'[u] = blk[u] /\ cls'[u] = cls[u]
      /\ UNCHANGED <<caches, exclusive_cache, local, spare, remote, central, pending,
                     next_span, span_classes, owner>>
  BY DEF FreeUnchecked, Goto, HeapInv, VariablesTyped, ClassOf, shared, lists, bins, arena
<1>3. \E new : Placed(new)'
  BY <1>1, <1>2, TakenFromProgram DEF Carries
<1>4. StateTracksProgram'
  BY <1>2 DEF BlockInv, StateTracksProgram, HeapInv, VariablesTyped
<1>5. ThreadBlocksInv'
  BY <1>2 DEF BlockInv, ThreadBlocksInv, ClassOf
<1>6. OwnerInv'
  BY <1>2 DEF BlockInv, OwnerInv, Carries
<1> QED BY <1>3, <1>4, <1>5, <1>6 DEF BlockInv

\* The compare-and-swap of the checked free succeeds only for a block the
\* program holds.
LEMMA FreeCasBlocks ==
    ASSUME HeapInv, BlockInv, NEW t \in Threads, FreeCas(t)
    PROVE  BlockInv'
<1>1. PICK at : Placed(at)
  BY DEF BlockInv
<1>2. PICK b \in Blocks : b = blk[t]
  BY DEF FreeCas, HeapInv, FrameInv
<1>3. /\ pc[t] = "cas" /\ ClassOf(b) = cls[t]
      /\ UNCHANGED <<tls, caches, exclusive_cache, local, spare, remote, central,
                     next_span, span_classes, owner>>
  BY <1>2 DEF FreeCas, BlockInv, ThreadBlocksInv, shared, lists, bins, arena
<1>4. CASE state[b] = 1
  <2>1. /\ state' = [state EXCEPT ![b] = 0] /\ program' = program \ {b}
        /\ pc' = [pc EXCEPT ![t] = "route"]
        /\ UNCHANGED <<cls, blk, pending>>
    BY <1>2, <1>4 DEF FreeCas, Goto
  <2>2. /\ pc'[t] = "route" /\ blk'[t] = b /\ cls'[t] = ClassOf(b)
        /\ \A u \in Threads : u # t => pc'[u] = pc[u]
    BY <1>2, <1>3, <2>1 DEF HeapInv, VariablesTyped
  <2>3. b \in program
    BY <1>4 DEF BlockInv, StateTracksProgram
  <2>4. \E new : Placed(new)'
    BY <1>1, <1>3, <2>1, <2>2, <2>3, TakenFromProgram DEF Carries
  <2>5. StateTracksProgram'
    BY <2>1 DEF BlockInv, StateTracksProgram, HeapInv, VariablesTyped
  <2>6. ThreadBlocksInv'
    BY <1>3, <2>1, <2>2 DEF BlockInv, ThreadBlocksInv, ClassOf
  <2>7. OwnerInv'
    BY <1>2, <1>3, <2>1, <2>2, <2>3 DEF BlockInv, OwnerInv, Carries
  <2> QED BY <2>4, <2>5, <2>6, <2>7 DEF BlockInv
<1>5. CASE state[b] # 1
  <2>1. Done(t) /\ UNCHANGED <<state, program>>
    BY <1>2, <1>5 DEF FreeCas
  <2>2. /\ pc'[t] = "idle" /\ pending' = pending
        /\ \A u \in Threads : u # t =>
                pc'[u] = pc[u] /\ blk'[u] = blk[u] /\ cls'[u] = cls[u]
    BY <1>3, <2>1 DEF Done, HeapInv, VariablesTyped, BlockInv, ThreadBlocksInv
  <2>3. Carved' = Carved
    BY <1>3, <2>2, CarvedSame
  <2>4. Placed(at)'
    <3>1. /\ \A u \in Threads : Carries(u)' <=> Carries(u)
          /\ \A u \in Threads : Carries(u) => blk'[u] = blk[u]
          /\ \A u \in Threads : Carries(u) \/ pending[u] # <<>> => cls'[u] = cls[u]
          /\ \A d \in Carved : ClassOf(d)' = ClassOf(d)
      BY <1>3, <2>2 DEF Carries, ClassOf, BlockInv, ThreadBlocksInv
    <3> QED BY <1>1, <1>3, <2>1, <2>2, <2>3, <3>1, PlacesKept
  <2>5. StateTracksProgram' /\ OwnerInv'
    BY <1>3, <2>1, <2>2 DEF BlockInv, StateTracksProgram, OwnerInv, Carries
  <2>6. ThreadBlocksInv'
    BY <1>3, <2>2 DEF BlockInv, ThreadBlocksInv, ClassOf
  <2> QED BY <2>4, <2>5, <2>6 DEF BlockInv
<1> QED BY <1>4, <1>5

\* Thread t puts the block b it carries on a remote list or in a bin, the place
\* p, and returns; the blocks are then placed as new tells.
Delivers(t, b, p, at, new) ==
    /\ b = blk[t] /\ Carries(t) /\ pc'[t] = "idle" /\ pending' = pending
    /\ \A u \in Threads : u # t =>
            pc'[u] = pc[u] /\ blk'[u] = blk[u] /\ cls'[u] = cls[u]
    /\ UNCHANGED <<local, spare, program, next_span, span_classes>>
    /\ new = Move(at, {b}, p)
    /\ \/ \E k \in Caches, c \in Classes : p = InRemote(k, c)
       \/ \E c \in Classes : p = InCentral(c)
    /\ \A k \in Caches, c \in Classes :
            \/ p # InRemote(k, c) /\ remote'[k][c] = remote[k][c]
            \/ Holds(remote'[k][c], new, InRemote(k, c))
    /\ \A c \in Classes :
            \/ p # InCentral(c) /\ central'[c] = central[c]
            \/ BinHolds(central'[c], new, InCentral(c))
    /\ Fits(b, p)'

\* A delivered block is at its new place.
LEMMA Delivered ==
    ASSUME BlockInv, NEW at, Placed(at), NEW t \in Threads, NEW b \in Blocks,
           NEW p, NEW new, Delivers(t, b, p, at, new)
    PROVE  Placed(new)'
<1>1. PICK touched : touched = {CarriedBy(t), p}
  OBVIOUS
<1>2. at[b] = CarriedBy(t) /\ new = Move(at, {b}, p) /\ IsPlace(p)
  BY DEF Delivers, Placed, BlocksPlaced, IsPlace
<1>3. p[1] = "remote" \/ p[1] = "central"
  BY PlaceNames DEF Delivers
<1>4. /\ \A k, c : InLocal(k, c) \notin touched /\ InSpare(k, c) \notin touched
      /\ \A k, c : InRemote(k, c) \in touched <=> p = InRemote(k, c)
      /\ \A c : InCentral(c) \in touched <=> p = InCentral(c)
      /\ \A u : InPending(u) \notin touched
      /\ \A u : CarriedBy(u) \in touched <=> u = t
      /\ InProgram \notin touched /\ Nowhere \notin touched
  BY <1>1, <1>3, PlaceNames
<1>5. /\ \A d \in Blocks : new[d] = at[d] \/ (at[d] \in touched /\ new[d] \in touched)
      /\ \A q \in touched : IsPlace(q)
  BY <1>1, <1>2 DEF Move, IsPlace
<1>6. \A d \in Blocks : new[d] # CarriedBy(t)
  <2>1. \A d \in Blocks : at[d] = CarriedBy(t) => d = b
    BY DEF Delivers, Placed, BlocksPlaced
  <2> QED BY <1>2, <1>3, <2>1, PlaceNames DEF Move
<1>7. \A u \in Threads :
        \/ /\ CarriedBy(u) \notin touched
           /\ Carries(u)' <=> Carries(u)
           /\ Carries(u) => blk'[u] = blk[u]
        \/ \A d \in Blocks : new[d] = CarriedBy(u) <=> Carries(u)' /\ blk'[u] = d
  <2>1. ~Carries(t)' /\ \A u \in Threads : u # t => (Carries(u)' <=> Carries(u))
    BY DEF Delivers, Carries
  <2>2. \A u \in Threads : u # t => blk'[u] = blk[u]
    BY DEF Delivers
  <2> QED BY <1>4, <1>6, <2>1, <2>2
<1>8. Carved' = Carved
  <2>1. /\ next_span' = next_span /\ pc[t] # "carve" /\ pc'[t] # "carve"
        /\ \A u \in Threads : u # t => pc'[u] = pc[u] /\ blk'[u] = blk[u]
    BY DEF Delivers, Carries
  <2> QED BY <2>1, CarvedSame
<1>9. /\ \A k \in Caches, c \in Classes :
            \/ InRemote(k, c) \notin touched /\ remote'[k][c] = remote[k][c]
            \/ Holds(remote'[k][c], new, InRemote(k, c))
      /\ \A c \in Classes :
            \/ InCentral(c) \notin touched /\ central'[c] = central[c]
            \/ BinHolds(central'[c], new, InCentral(c))
      /\ UNCHANGED <<local, spare, program, pending, span_classes>>
      /\ \A u \in Threads : u # t => cls'[u] = cls[u]
  BY <1>4 DEF Delivers
<1>10. BlocksPlaced(new)'
  BY <1>4, <1>5, <1>7, <1>8, <1>9, PlacesMoved
<1>11. ClassesMatch(new)'
  <2>1. \A d \in Blocks : new[d] = at[d] \/ Fits(d, new[d])'
    <3>1. Fits(b, p)'
      BY DEF Delivers
    <3> QED BY <1>2, <3>1 DEF Move
  <2>2. pending[t] = <<>>
    BY DEF BlockInv, ThreadBlocksInv, Carries, Delivers
  <2>3. Holds(<<>>, at, InPending(t))
    BY <2>2 DEF Placed, BlocksPlaced
  <2>4. \A d \in Blocks : at[d] # InPending(t)
    BY <2>3 DEF Holds, Has
  <2>5. \A d \in Blocks : new[d] # InPending(t)
    BY <1>2, <1>3, <2>4, PlaceNames DEF Move
  <2> QED BY <1>6, <1>9, <2>1, <2>5, ClassesMoved
<1> QED BY <1>10, <1>11 DEF Placed

\* A block freed by another thread goes to the remote list of its cache, or
\* stays with the thread when the cache no longer accepts it.
LEMMA RouteRemoteBlocks ==
    ASSUME HeapInv, BlockInv, NEW t \in Threads, RouteRemote(t)
    PROVE  BlockInv'
<1>1. PICK at : Placed(at)
  BY DEF BlockInv
<1>2. PICK b \in Blocks, k \in Caches, c \in Classes :
        b = blk[t] /\ k = to[t] /\ c = cls[t]
  BY DEF RouteRemote, HeapInv, VariablesTyped, FrameInv
<1>3. /\ pc[t] = "remote"
      /\ UNCHANGED <<tls, caches, exclusive_cache, local, spare, central,
                     next_span, span_classes, state, owner, program>>
  BY DEF RouteRemote, shared, bins, arena, headers
<1>4. CASE accepting_remote[k]
  <2>1. remote' = [remote EXCEPT ![k][c] = <<b>> \o @] /\ Done(t)
    BY <1>2, <1>4 DEF RouteRemote
  <2>2. /\ pc'[t] = "idle" /\ pending' = pending
        /\ \A u \in Threads : u # t =>
                pc'[u] = pc[u] /\ blk'[u] = blk[u] /\ cls'[u] = cls[u]
    BY <1>3, <2>1 DEF Done, HeapInv, VariablesTyped, BlockInv, ThreadBlocksInv
  <2>3. PICK list : list = remote[k][c]
    OBVIOUS
  <2>4. list \in Seq(Blocks) /\ Holds(list, at, InRemote(k, c)) /\ at[b] = CarriedBy(t)
    BY <1>1, <1>2, <1>3, <2>3 DEF HeapInv, VariablesTyped, Placed, BlocksPlaced, Carries
  <2>5. PICK new : new = Move(at, {b}, InRemote(k, c))
    OBVIOUS
  <2>6. Holds(<<b>> \o list, new, InRemote(k, c))
    BY <2>4, <2>5, HoldsPush, PlaceNames
  <2>7. /\ remote'[k][c] = <<b>> \o list
        /\ \A j \in Caches, d \in Classes : j # k \/ d # c => remote'[j][d] = remote[j][d]
    BY <2>1, <2>3 DEF HeapInv, VariablesTyped
  <2>8. \A j \in Caches, d \in Classes :
            \/ InRemote(k, c) # InRemote(j, d) /\ remote'[j][d] = remote[j][d]
            \/ Holds(remote'[j][d], new, InRemote(j, d))
    <3> TAKE j \in Caches, d \in Classes
    <3>1. CASE j = k /\ d = c
      BY <2>6, <2>7, <3>1
    <3>2. CASE ~(j = k /\ d = c)
      BY <2>7, <3>2, PlaceNames
    <3> QED BY <3>1, <3>2
  <2>9. Fits(b, InRemote(k, c))'
    <3>1. ClassOf(b) = c
      BY <1>1, <1>2, <2>4 DEF Placed, ClassesMatch, Fits
    <3> QED BY <1>3, <3>1, PlaceNames DEF Fits, ClassOf
  <2>10. Placed(new)'
    <3>1. PICK p : p = InRemote(k, c)
      OBVIOUS
    <3>2. \A d : p # InCentral(d)
      BY <3>1, PlaceNames
    <3>3. Carries(t)
      BY <1>3 DEF Carries
    <3>4. \A d \in Classes : p # InCentral(d) /\ central'[d] = central[d]
      BY <1>3, <3>2
    <3>5. Delivers(t, b, p, at, new)
      BY <1>2, <1>3, <2>2, <2>5, <2>8, <2>9, <3>1, <3>3, <3>4 DEF Delivers
    <3> QED BY <1>1, <3>5, Delivered
  <2>11. StateTracksProgram' /\ OwnerInv'
    BY <1>3, <2>2 DEF BlockInv, StateTracksProgram, OwnerInv, Carries
  <2>12. ThreadBlocksInv'
    BY <1>3, <2>2 DEF BlockInv, ThreadBlocksInv, ClassOf
  <2> QED BY <2>10, <2>11, <2>12 DEF BlockInv
<1>5. CASE ~accepting_remote[k]
  <2>1. /\ pc' = [pc EXCEPT ![t] = "central"] /\ UNCHANGED <<remote, cls, blk, pending>>
    BY <1>2, <1>5 DEF RouteRemote, Goto
  <2>2. /\ pc'[t] = "central" /\ \A u \in Threads : u # t => pc'[u] = pc[u]
    BY <2>1 DEF HeapInv, VariablesTyped
  <2>3. Carved' = Carved
    BY <1>3, <2>1, <2>2, CarvedSame
  <2>4. Placed(at)'
    <3>1. /\ \A u \in Threads : Carries(u)' <=> Carries(u)
          /\ \A d \in Carved : ClassOf(d)' = ClassOf(d)
      BY <1>3, <2>2 DEF Carries, ClassOf
    <3> QED BY <1>1, <1>3, <2>1, <2>3, <3>1, PlacesKept
  <2>5. StateTracksProgram' /\ OwnerInv'
    BY <1>3, <2>1, <2>2 DEF BlockInv, StateTracksProgram, OwnerInv, Carries
  <2>6. ThreadBlocksInv'
    BY <1>3, <2>1, <2>2 DEF BlockInv, ThreadBlocksInv, ClassOf
  <2> QED BY <2>4, <2>5, <2>6 DEF BlockInv
<1> QED BY <1>4, <1>5

\* A block nobody accepts goes to the bin.
LEMMA RouteCentralBlocks ==
    ASSUME HeapInv, BlockInv, NEW t \in Threads, RouteCentral(t)
    PROVE  BlockInv'
<1>1. PICK at : Placed(at)
  BY DEF BlockInv
<1>2. PICK b \in Blocks, c \in Classes : b = blk[t] /\ c = cls[t]
  BY DEF RouteCentral, HeapInv, VariablesTyped, FrameInv
<1>3. PICK bin : bin = Reverse(<<Single(b)>>) \o central[c]
  OBVIOUS
<1>4. /\ pc[t] = "central" /\ Done(t)
      /\ central' = [central EXCEPT ![c] = bin]
      /\ UNCHANGED <<tls, caches, exclusive_cache, local, spare, remote,
                     next_span, span_classes, state, owner, program>>
  BY <1>2, <1>3 DEF RouteCentral, memx_heap_push_central_chunks,
     shared, lists, arena, headers
<1>5. /\ pc'[t] = "idle" /\ pending' = pending
      /\ \A u \in Threads : u # t =>
            pc'[u] = pc[u] /\ blk'[u] = blk[u] /\ cls'[u] = cls[u]
  BY <1>4 DEF Done, HeapInv, VariablesTyped, BlockInv, ThreadBlocksInv
<1>6. PICK new : new = Move(at, {b}, InCentral(c))
  OBVIOUS
<1>7. /\ central[c] \in Seq(Segments) /\ BinHolds(central[c], at, InCentral(c))
      /\ at[b] = CarriedBy(t) /\ Carries(t)
  BY <1>1, <1>2, <1>4 DEF HeapInv, VariablesTyped, Placed, BlocksPlaced, Carries
<1>8. BinHolds(bin, new, InCentral(c))
  <2>1. PICK chunk : chunk = Single(b)
    OBVIOUS
  <2>2. chunk \in Segments /\ chunk.blocks = <<b>>
    BY <2>1, SingleSound DEF Single
  <2>3. /\ Once(chunk.blocks) /\ \A d : Has(chunk.blocks, d) <=> d = b
    BY <2>2 DEF Once, Has
  <2>4. /\ <<chunk>> \in Seq(Segments) /\ BinOnce(<<chunk>>)
        /\ \A d \in Blocks : d \in {b} <=> BinHas(<<chunk>>, d)
    BY <2>2, <2>3, OneChunkOnce
  <2>5. \A d \in Blocks : d \in {b} => at[d] # InCentral(c)
    BY <1>7, PlaceNames
  <2> QED BY <1>3, <1>6, <1>7, <2>1, <2>4, <2>5, BinPushed
<1>9. \A d \in Classes :
        \/ InCentral(c) # InCentral(d) /\ central'[d] = central[d]
        \/ BinHolds(central'[d], new, InCentral(d))
  <2>1. central'[c] = bin /\ \A d \in Classes : d # c => central'[d] = central[d]
    BY <1>4 DEF HeapInv, VariablesTyped
  <2> QED BY <1>8, <2>1, PlaceNames
<1>10. Fits(b, InCentral(c))'
  <2>1. ClassOf(b) = c
    BY <1>1, <1>2, <1>7 DEF Placed, ClassesMatch, Fits
  <2> QED BY <1>4, <2>1, PlaceNames DEF Fits, ClassOf
<1>11. Placed(new)'
  <2>1. PICK p : p = InCentral(c)
    OBVIOUS
  <2>2. \A j, d : p # InRemote(j, d)
    BY <2>1, PlaceNames
  <2>3. \A j \in Caches, d \in Classes :
            p # InRemote(j, d) /\ remote'[j][d] = remote[j][d]
    BY <1>4, <2>2
  <2>4. Delivers(t, b, p, at, new)
    BY <1>2, <1>4, <1>5, <1>6, <1>7, <1>9, <1>10, <2>1, <2>3 DEF Delivers
  <2> QED BY <1>1, <2>4, Delivered
<1>12. StateTracksProgram' /\ OwnerInv'
  BY <1>4, <1>5 DEF BlockInv, StateTracksProgram, OwnerInv, Carries
<1>13. ThreadBlocksInv'
  BY <1>4, <1>5 DEF BlockInv, ThreadBlocksInv, ClassOf
<1> QED BY <1>11, <1>12, <1>13 DEF BlockInv

\* memx_heap_detach_cache puts the remote blocks of every class in front of the
\* hot segment of the class.
LEMMA DetachBlocks ==
    ASSUME HeapInv, BlockInv, NEW t \in Threads, Detach(t)
    PROVE  BlockInv'
<1>1. PICK at : Placed(at)
  BY DEF BlockInv
<1>2. PICK k \in Caches : k = tls[t]
  BY DEF Detach, HeapInv, VariablesTyped
<1>3. /\ pc[t] = "idle" /\ pc' = [pc EXCEPT ![t] = "detach"]
      /\ cls' = [cls EXCEPT ![t] = 0]
      /\ local' = [local EXCEPT ![k] =
                [c \in Classes |-> Absorb(local[k][c], remote[k][c])]]
      /\ remote' = [remote EXCEPT ![k] = [c \in Classes |-> <<>>]]
      /\ UNCHANGED <<caches, exclusive_cache, spare, central, next_span,
                     span_classes, state, owner, blk, pending, program>>
  BY <1>2 DEF Detach, Goto, bins, arena, headers
<1>4. /\ \A c \in Classes :
            local'[k][c].blocks = Reverse(remote[k][c]) \o local[k][c].blocks
      /\ \A c \in Classes : remote'[k][c] = <<>>
      /\ \A j \in Caches : j # k => local'[j] = local[j] /\ remote'[j] = remote[j]
      /\ pc'[t] = "detach"
      /\ \A u \in Threads : u # t => pc'[u] = pc[u] /\ cls'[u] = cls[u]
  BY <1>3 DEF HeapInv, VariablesTyped, Absorb
<1>5. PICK new : new = [b \in Blocks |->
            IF \E c \in Classes : at[b] = InRemote(k, c)
            THEN InLocal(k, ClassOf(b)) ELSE at[b]]
  OBVIOUS
<1>6. /\ \A b \in Blocks, c \in Classes :
            at[b] = InRemote(k, c) => new[b] = InLocal(k, c) /\ ClassOf(b) = c
      /\ \A b \in Blocks : \/ \E c \in Classes : at[b] = InRemote(k, c)
                           \/ new[b] = at[b]
  <2>1. \A b \in Blocks, c \in Classes : at[b] = InRemote(k, c) => ClassOf(b) = c
    BY <1>1 DEF Placed, ClassesMatch, Fits
  <2> QED BY <1>5, <2>1
<1>7. PICK touched : touched =
            {InLocal(k, c) : c \in Classes} \cup {InRemote(k, c) : c \in Classes}
  OBVIOUS
<1>8. /\ \A j, d : j # k => InLocal(j, d) \notin touched /\ InRemote(j, d) \notin touched
      /\ \A j, d : InSpare(j, d) \notin touched
      /\ \A d : InCentral(d) \notin touched
      /\ \A u : InPending(u) \notin touched /\ CarriedBy(u) \notin touched
      /\ Nowhere \notin touched /\ InProgram \notin touched
  BY <1>7, PlaceNames
<1>9. /\ \A d \in Blocks : new[d] = at[d] \/ (at[d] \in touched /\ new[d] \in touched)
      /\ \A p \in touched : IsPlace(p)
  BY <1>6, <1>7 DEF IsPlace
<1>10. ASSUME NEW c \in Classes
       PROVE  /\ Holds(local'[k][c].blocks, new, InLocal(k, c))
              /\ Holds(remote'[k][c], new, InRemote(k, c))
  <2>1. PICK list, hot : list = remote[k][c] /\ hot = local[k][c].blocks
    OBVIOUS
  <2>2. /\ list \in Seq(Blocks) /\ hot \in Seq(Blocks)
        /\ Holds(list, at, InRemote(k, c)) /\ Holds(hot, at, InLocal(k, c))
    BY <1>1, <2>1 DEF HeapInv, VariablesTyped, Segments, Placed, BlocksPlaced
  <2>3. PICK turned : turned = Reverse(list)
    OBVIOUS
  <2>4. /\ turned \in Seq(Blocks) /\ Once(turned)
        /\ \A b : Has(turned, b) <=> Has(list, b)
    BY <2>2, <2>3, ReverseOnce DEF Holds
  <2>5. \A b \in Blocks : new[b] = InLocal(k, c) <=>
            at[b] = InRemote(k, c) \/ at[b] = InLocal(k, c)
    BY <1>6, PlaceNames
  <2>6. \A b \in Blocks : new[b] = InLocal(k, c) <=> Has(turned, b) \/ Has(hot, b)
    BY <2>2, <2>4, <2>5 DEF Holds
  <2>7. \A b \in Blocks : ~(Has(turned, b) /\ Has(hot, b))
    BY <2>2, <2>4, PlaceNames DEF Holds
  <2>8. Holds(turned \o hot, new, InLocal(k, c))
    <3>1. Once(hot)
      BY <2>2 DEF Holds
    <3> QED BY <2>2, <2>4, <2>6, <2>7, <3>1, HoldsConcat
  <2>9. \A b \in Blocks : new[b] # InRemote(k, c)
    BY <1>6, PlaceNames
  <2> QED BY <1>4, <2>1, <2>3, <2>8, <2>9, HoldsNothing
<1>11. /\ \A j \in Caches, d \in Classes :
            \/ InLocal(j, d) \notin touched /\ local'[j][d].blocks = local[j][d].blocks
            \/ Holds(local'[j][d].blocks, new, InLocal(j, d))
       /\ \A j \in Caches, d \in Classes :
            \/ InRemote(j, d) \notin touched /\ remote'[j][d] = remote[j][d]
            \/ Holds(remote'[j][d], new, InRemote(j, d))
  <2> SUFFICES ASSUME NEW j \in Caches, NEW d \in Classes
      PROVE  /\ \/ InLocal(j, d) \notin touched /\ local'[j][d].blocks = local[j][d].blocks
                \/ Holds(local'[j][d].blocks, new, InLocal(j, d))
             /\ \/ InRemote(j, d) \notin touched /\ remote'[j][d] = remote[j][d]
                \/ Holds(remote'[j][d], new, InRemote(j, d))
    OBVIOUS
  <2>1. CASE j = k
    BY <1>10, <2>1
  <2>2. CASE j # k
    BY <1>4, <1>8, <2>2
  <2> QED BY <2>1, <2>2
<1>12. Carved' = Carved
  BY <1>3, <1>4, CarvedSame
<1>13. BlocksPlaced(new)'
  <2>1. \A u \in Threads : Carries(u)' <=> Carries(u)
    BY <1>3, <1>4 DEF Carries
  <2> QED BY <1>1, <1>3, <1>8, <1>9, <1>11, <1>12, <2>1, PlacesMoved
<1>14. ClassesMatch(new)'
  <2>1. \A d \in Blocks : new[d] = at[d] \/ Fits(d, new[d])'
    <3> TAKE d \in Blocks
    <3>1. CASE new[d] # at[d]
      <4>1. PICK c \in Classes : new[d] = InLocal(k, c) /\ ClassOf(d) = c
        BY <1>6, <3>1
      <4> QED BY <1>3, <4>1, PlaceNames DEF Fits, ClassOf
    <3> QED BY <3>1
  <2>2. \A d \in Blocks : new[d] # InPending(t) /\ new[d] # CarriedBy(t)
    <3>1. \A d \in Blocks : at[d] # InPending(t) /\ at[d] # CarriedBy(t)
      BY <1>1, <1>3, EmptyHands DEF BlockInv, Carries
    <3> QED BY <1>6, <3>1, PlaceNames
  <2> QED BY <1>1, <1>3, <1>4, <2>1, <2>2, ClassesMoved
<1>15. StateTracksProgram' /\ OwnerInv'
  BY <1>3, <1>4 DEF BlockInv, StateTracksProgram, OwnerInv, Carries
<1>16. ThreadBlocksInv'
  BY <1>3, <1>4 DEF BlockInv, ThreadBlocksInv, ClassOf
<1> QED BY <1>13, <1>14, <1>15, <1>16 DEF BlockInv, Placed

\* Both segments of one class of a detached cache go to the bin of the class,
\* one chunk a block.
LEMMA DetachClassBlocks ==
    ASSUME HeapInv, BlockInv, NEW t \in Threads, DetachClass(t)
    PROVE  BlockInv'
<1>1. PICK at : Placed(at)
  BY DEF BlockInv
<1>2. PICK k \in Caches, c \in Classes : k = to[t] /\ c = cls[t]
  BY DEF DetachClass, HeapInv, VariablesTyped, OwnershipInv
<1>3. PICK hot, cold : hot = local[k][c].blocks /\ cold = spare[k][c].blocks
  OBVIOUS
<1>4. PICK all : all = hot \o cold
  OBVIOUS
<1>5. PICK bin : bin = Reverse(Singles(all)) \o central[c]
  OBVIOUS
<1>6. /\ pc[t] = "detach"
      /\ central' = [central EXCEPT ![c] = bin]
      /\ local' = [local EXCEPT ![k][c] = EmptySegment]
      /\ spare' = [spare EXCEPT ![k][c] = EmptySegment]
      /\ UNCHANGED <<tls, caches, exclusive_cache, remote, next_span, span_classes,
                     state, owner, program>>
  BY <1>2, <1>3, <1>4, <1>5 DEF DetachClass, memx_heap_push_central_chunks,
     shared, arena, headers
<1>7. /\ pc'[t] \in {"detach", "idle"} /\ pending' = pending
      /\ \A u \in Threads : u # t =>
            pc'[u] = pc[u] /\ blk'[u] = blk[u] /\ cls'[u] = cls[u]
  <2>1. pending[t] = <<>> /\ pending = [pending EXCEPT ![t] = <<>>]
    BY <1>6 DEF BlockInv, ThreadBlocksInv, HeapInv, VariablesTyped
  <2>2. CASE c + 1 < ClassCount
    BY <1>2, <1>6, <2>2 DEF DetachClass, HeapInv, VariablesTyped
  <2>3. CASE ~(c + 1 < ClassCount)
    <3>1. Done(t)
      BY <1>2, <2>3 DEF DetachClass
    <3> QED BY <2>1, <3>1 DEF Done, HeapInv, VariablesTyped
  <2> QED BY <2>2, <2>3
<1>8. /\ hot \in Seq(Blocks) /\ cold \in Seq(Blocks)
      /\ Holds(hot, at, InLocal(k, c)) /\ Holds(cold, at, InSpare(k, c))
      /\ central[c] \in Seq(Segments) /\ BinHolds(central[c], at, InCentral(c))
  <2>1. /\ local[k][c] \in Segments /\ spare[k][c] \in Segments
        /\ central[c] \in Seq(Segments)
    BY DEF HeapInv, VariablesTyped
  <2>2. hot \in Seq(Blocks) /\ cold \in Seq(Blocks)
    BY <1>3, <2>1 DEF Segments
  <2> QED BY <1>1, <1>3, <2>1, <2>2 DEF Placed, BlocksPlaced
<1>9. PICK moved : moved =
            {b \in Blocks : at[b] = InLocal(k, c) \/ at[b] = InSpare(k, c)}
  OBVIOUS
<1>10. PICK new : new = Move(at, moved, InCentral(c))
  OBVIOUS
<1>11. /\ all \in Seq(Blocks) /\ Once(all)
       /\ \A b \in Blocks : b \in moved <=> Has(all, b)
  <2>1. PICK joined : joined = Move(at, moved, InLocal(k, c))
    OBVIOUS
  <2>2. \A b \in Blocks : joined[b] = InLocal(k, c) <=> b \in moved
    BY <1>9, <2>1 DEF Move
  <2>3. \A b \in Blocks : b \in moved <=> Has(hot, b) \/ Has(cold, b)
    BY <1>8, <1>9 DEF Holds
  <2>4. \A b \in Blocks : ~(Has(hot, b) /\ Has(cold, b))
    BY <1>8, PlaceNames DEF Holds
  <2>5. Once(hot) /\ Once(cold)
    BY <1>8 DEF Holds
  <2>6. \A b \in Blocks : joined[b] = InLocal(k, c) <=> Has(hot, b) \/ Has(cold, b)
    BY <2>2, <2>3
  <2>7. Holds(all, joined, InLocal(k, c))
    BY <1>4, <1>8, <2>4, <2>5, <2>6, HoldsConcat
  <2>8. all \in Seq(Blocks)
    BY <1>4, <1>8, ConcatProperties
  <2> QED BY <2>2, <2>7, <2>8 DEF Holds
<1>12. BinHolds(bin, new, InCentral(c))
  <2>1. PICK chunks : chunks = Singles(all)
    OBVIOUS
  <2>2. /\ chunks \in Seq(Segments) /\ BinOnce(chunks)
        /\ \A b \in Blocks : b \in moved <=> BinHas(chunks, b)
    BY <1>11, <2>1, SinglesOnce
  <2>3. \A b \in Blocks : b \in moved => at[b] # InCentral(c)
    BY <1>9, PlaceNames
  <2> QED BY <1>5, <1>8, <1>10, <2>1, <2>2, <2>3, BinPushed
<1>13. Holds(<<>>, new, InLocal(k, c)) /\ Holds(<<>>, new, InSpare(k, c))
  <2>1. \A b \in Blocks : new[b] # InLocal(k, c) /\ new[b] # InSpare(k, c)
    BY <1>9, <1>10, PlaceNames DEF Move
  <2> QED BY <2>1, HoldsNothing
<1>14. PICK touched : touched = {InLocal(k, c), InSpare(k, c), InCentral(c)}
  OBVIOUS
<1>15. /\ \A j, d : InLocal(j, d) \in touched <=> j = k /\ d = c
       /\ \A j, d : InSpare(j, d) \in touched <=> j = k /\ d = c
       /\ \A j, d : InRemote(j, d) \notin touched
       /\ \A d : InCentral(d) \in touched <=> d = c
       /\ \A u : InPending(u) \notin touched /\ CarriedBy(u) \notin touched
       /\ Nowhere \notin touched /\ InProgram \notin touched
  BY <1>14, PlaceNames
<1>16. /\ \A d \in Blocks : new[d] = at[d] \/ (at[d] \in touched /\ new[d] \in touched)
       /\ \A p \in touched : IsPlace(p)
  BY <1>9, <1>10, <1>14 DEF Move, IsPlace
<1>17. /\ local'[k][c].blocks = <<>> /\ spare'[k][c].blocks = <<>> /\ central'[c] = bin
       /\ \A j \in Caches, d \in Classes : j # k \/ d # c =>
            local'[j][d] = local[j][d] /\ spare'[j][d] = spare[j][d]
       /\ \A d \in Classes : d # c => central'[d] = central[d]
  BY <1>6 DEF HeapInv, VariablesTyped, EmptySegment
<1>18. /\ \A j \in Caches, d \in Classes :
            \/ InLocal(j, d) \notin touched /\ local'[j][d].blocks = local[j][d].blocks
            \/ Holds(local'[j][d].blocks, new, InLocal(j, d))
       /\ \A j \in Caches, d \in Classes :
            \/ InSpare(j, d) \notin touched /\ spare'[j][d].blocks = spare[j][d].blocks
            \/ Holds(spare'[j][d].blocks, new, InSpare(j, d))
       /\ \A d \in Classes :
            \/ InCentral(d) \notin touched /\ central'[d] = central[d]
            \/ BinHolds(central'[d], new, InCentral(d))
  <2>1. \A d \in Classes :
            \/ InCentral(d) \notin touched /\ central'[d] = central[d]
            \/ BinHolds(central'[d], new, InCentral(d))
    BY <1>12, <1>15, <1>17
  <2>2. ASSUME NEW j \in Caches, NEW d \in Classes
        PROVE  /\ \/ InLocal(j, d) \notin touched
                     /\ local'[j][d].blocks = local[j][d].blocks
                  \/ Holds(local'[j][d].blocks, new, InLocal(j, d))
               /\ \/ InSpare(j, d) \notin touched
                     /\ spare'[j][d].blocks = spare[j][d].blocks
                  \/ Holds(spare'[j][d].blocks, new, InSpare(j, d))
    <3>1. CASE j = k /\ d = c
      BY <1>13, <1>17, <3>1
    <3>2. CASE ~(j = k /\ d = c)
      BY <1>15, <1>17, <3>2
    <3> QED BY <3>1, <3>2
  <2> QED BY <2>1, <2>2
<1>19. Carved' = Carved
  BY <1>6, <1>7, CarvedSame
<1>20. BlocksPlaced(new)'
  <2>1. /\ \A u \in Threads : Carries(u)' <=> Carries(u)
        /\ \A u \in Threads : Carries(u) => blk'[u] = blk[u]
    BY <1>6, <1>7 DEF Carries
  <2> QED BY <1>1, <1>6, <1>7, <1>15, <1>16, <1>18, <1>19, <2>1, PlacesMoved
<1>21. ClassesMatch(new)'
  <2>1. \A d \in Blocks : d \in moved => ClassOf(d) = c
    BY <1>1, <1>9 DEF Placed, ClassesMatch, Fits
  <2>2. \A d \in Blocks : new[d] = at[d] \/ Fits(d, new[d])'
    <3> TAKE d \in Blocks
    <3>1. CASE d \in moved
      <4>1. new[d] = InCentral(c) /\ ClassOf(d) = c
        BY <1>10, <2>1, <3>1 DEF Move
      <4> QED BY <1>6, <4>1, PlaceNames DEF Fits, ClassOf
    <3>2. CASE d \notin moved
      BY <1>10, <3>2 DEF Move
    <3> QED BY <3>1, <3>2
  <2>3. \A d \in Blocks : new[d] # InPending(t) /\ new[d] # CarriedBy(t)
    <3>1. \A d \in Blocks : at[d] # InPending(t) /\ at[d] # CarriedBy(t)
      BY <1>1, <1>6, EmptyHands DEF BlockInv, Carries
    <3> QED BY <1>10, <3>1, PlaceNames DEF Move
  <2> QED BY <1>1, <1>6, <1>7, <2>2, <2>3, ClassesMoved
<1>22. StateTracksProgram' /\ OwnerInv'
  BY <1>6, <1>7 DEF BlockInv, StateTracksProgram, OwnerInv, Carries
<1>23. ThreadBlocksInv'
  BY <1>6, <1>7 DEF BlockInv, ThreadBlocksInv, ClassOf
<1> QED BY <1>20, <1>21, <1>22, <1>23 DEF BlockInv, Placed

-----------------------------------------------------------------------------
(***************************************************************************)
(* The theorems.                                                            *)
(***************************************************************************)
\* Every step of every thread keeps the blocks where they can be told.
LEMMA BlockInvNext == HeapInv /\ BlockInv /\ [Next]_vars => BlockInv'
<1> SUFFICES ASSUME HeapInv, BlockInv, [Next]_vars PROVE BlockInv'
  OBVIOUS
<1>1. ASSUME UNCHANGED vars PROVE BlockInv'
  <2>1. UNCHANGED <<tls, caches, exclusive_cache, local, spare, remote, central,
                    next_span, span_classes, state, owner, pc, cls, blk, pending,
                    program>>
    BY <1>1 DEF vars, shared, lists, bins, arena, headers, frame
  <2>2. PICK at : Placed(at)
    BY DEF BlockInv
  <2>3. Carved' = Carved
    BY <2>1, CarvedSame
  <2>4. Placed(at)'
    <3>1. /\ \A u \in Threads : Carries(u)' <=> Carries(u)
          /\ \A d \in Carved : ClassOf(d)' = ClassOf(d)
      BY <2>1 DEF Carries, ClassOf
    <3> QED BY <2>1, <2>2, <2>3, <3>1, PlacesKept
  <2>5. StateTracksProgram' /\ ThreadBlocksInv' /\ OwnerInv'
    BY <2>1 DEF BlockInv, StateTracksProgram, ThreadBlocksInv, OwnerInv, Carries, ClassOf
  <2> QED BY <2>4, <2>5 DEF BlockInv
<1>2. ASSUME NEW t \in Threads, Call(t) PROVE BlockInv'
  BY <1>1, <1>2, MallocBlocks, MallocNewCacheBlocks, FreeUncheckedBlocks,
     FreeLookupBlocks, DetachBlocks DEF Call, MallocNoCache
<1>3. ASSUME NEW t \in Threads, Step(t) PROVE BlockInv'
  BY <1>3, AllocateSmallBlocks, AdoptSpareBlocks, DrainTakeBlocks, DrainPushBlocks,
     DrainEndBlocks, LockClassBlocks, RefillChunkBlocks, LockArenaBlocks,
     ClaimSpanBlocks, ClaimFailBlocks, CarveBlocks, RefillFailBlocks, FreeCasBlocks,
     RouteLocalBlocks, RouteAwayBlocks, RouteRemoteBlocks, RouteCentralBlocks,
     DetachClassBlocks DEF Step
<1> QED BY <1>1, <1>2, <1>3 DEF Next

\* In every reachable state every block has a place.
THEOREM HeapBlockInvariant == Spec => []BlockInv
BY HeapInvariant, BlockInvInit, BlockInvNext, PTL DEF Spec

\* memx_heap_free's compare-and-swap and the assertion of
\* memx_heap_allocate_small read a header state that tells who holds the block.
THEOREM HeapStateTracksProgram == Spec => []StateTracksProgram
<1>1. BlockInv => StateTracksProgram
  BY DEF BlockInv
<1> QED BY <1>1, HeapBlockInvariant, PTL

\* The fast path of memx_heap_route_small may take a freed block for its own
\* without reading the owner: a thread that holds the exclusive cache owns
\* every block in use.
THEOREM HeapExclusiveOwnsAll == Spec => []ExclusiveOwnsAll
<1>1. BlockInv => ExclusiveOwnsAll
  <2> SUFFICES ASSUME BlockInv, NEW t \in Threads, tls[t] # NoCache,
                      tls[t] = exclusive_cache, NEW b \in Blocks,
                      b \in program \/ Carrying(b) # {}
               PROVE  owner[b] = tls[t]
    BY DEF ExclusiveOwnsAll
  <2>1. owner[b] \in caches
    BY DEF BlockInv, OwnerInv, Carrying, Carries
  <2> QED BY <2>1 DEF BlockInv, OwnerInv
<1> QED BY <1>1, HeapBlockInvariant, PTL

\* Where a block that is at a place of a list is found in the list.
LEMMA FoundInList ==
    ASSUME NEW blocks, NEW at, NEW p, Holds(blocks, at, p), NEW b \in Blocks
    PROVE  /\ at[b] # p => Positions(blocks, b) = {}
           /\ at[b] = p => \E i : Positions(blocks, b) = {i}
<1>1. ASSUME at[b] # p PROVE Positions(blocks, b) = {}
  BY <1>1 DEF Holds, Has, Positions
<1>2. ASSUME at[b] = p PROVE \E i : Positions(blocks, b) = {i}
  <2>1. PICK i \in DOMAIN blocks : blocks[i] = b
    BY <1>2 DEF Holds, Has
  <2>2. \A j \in DOMAIN blocks : blocks[j] = b => j = i
    BY <2>1 DEF Holds, Once
  <2>3. Positions(blocks, b) = {i}
    BY <2>1, <2>2 DEF Positions
  <2> QED BY <2>3
<1> QED BY <1>1, <1>2

\* And in a bin.
LEMMA FoundInBin ==
    ASSUME NEW bin, NEW at, NEW p, BinHolds(bin, at, p), NEW b \in Blocks
    PROVE  /\ at[b] # p => \A n \in DOMAIN bin : Positions(bin[n].blocks, b) = {}
           /\ at[b] = p => \E n \in DOMAIN bin : \E i :
                /\ Positions(bin[n].blocks, b) = {i}
                /\ \A m \in DOMAIN bin : m # n => Positions(bin[m].blocks, b) = {}
<1>1. ASSUME at[b] # p, NEW n \in DOMAIN bin PROVE Positions(bin[n].blocks, b) = {}
  BY <1>1 DEF BinHolds, BinHas, Has, Positions
<1>2. ASSUME at[b] = p
      PROVE  \E n \in DOMAIN bin : \E i :
                /\ Positions(bin[n].blocks, b) = {i}
                /\ \A m \in DOMAIN bin : m # n => Positions(bin[m].blocks, b) = {}
  <2>1. PICK n \in DOMAIN bin : Has(bin[n].blocks, b)
    BY <1>2 DEF BinHolds, BinHas
  <2>2. PICK i \in DOMAIN bin[n].blocks : bin[n].blocks[i] = b
    BY <2>1 DEF Has
  <2>3. \A m \in DOMAIN bin : \A j \in DOMAIN bin[m].blocks :
            bin[m].blocks[j] = b => m = n /\ j = i
    BY <2>2 DEF BinHolds, BinOnce
  <2>4. Positions(bin[n].blocks, b) = {i}
    BY <2>2, <2>3 DEF Positions
  <2>5. \A m \in DOMAIN bin : m # n => Positions(bin[m].blocks, b) = {}
    BY <2>3 DEF Positions
  <2> QED BY <2>4, <2>5
<1> QED BY <1>1, <1>2

\* The members of Listed and Found, kind by kind.
LEMMA FoundMembers ==
    ASSUME NEW b \in Blocks, NEW x
    PROVE  /\ x \in Listed(b) <=>
                \/ \E k \in Caches, c \in Classes :
                    \E i \in Positions(local[k][c].blocks, b) : x = <<"local", c, k, i>>
                \/ \E k \in Caches, c \in Classes :
                    \E i \in Positions(spare[k][c].blocks, b) : x = <<"spare", c, k, i>>
                \/ \E k \in Caches, c \in Classes :
                    \E i \in Positions(remote[k][c], b) : x = <<"remote", c, k, i>>
                \/ \E c \in Classes : \E n \in DOMAIN central[c] :
                    \E i \in Positions(central[c][n].blocks, b) :
                        x = <<"central", c, n, i>>
                \/ \E t \in Threads :
                    \E i \in Positions(pending[t], b) : x = <<"pending", cls[t], t, i>>
           /\ x \in Found(b) <=>
                \/ x \in Listed(b)
                \/ \E t \in Threads : Carries(t) /\ blk[t] = b /\ x = <<"carried", t>>
                \/ b \in program /\ x = <<"program">>
<1> DEFINE InHot(k, c) == {<<"local", c, k, i>> : i \in Positions(local[k][c].blocks, b)}
           InCold(k, c) == {<<"spare", c, k, i>> : i \in Positions(spare[k][c].blocks, b)}
           InInbox(k, c) == {<<"remote", c, k, i>> : i \in Positions(remote[k][c], b)}
           Local == UNION {InHot(k, c) : k \in Caches, c \in Classes}
           Spare == UNION {InCold(k, c) : k \in Caches, c \in Classes}
           Remote == UNION {InInbox(k, c) : k \in Caches, c \in Classes}
           Bin(c) == UNION {{<<"central", c, n, i>> :
                                i \in Positions(central[c][n].blocks, b)} :
                        n \in DOMAIN central[c]}
           Central == UNION {Bin(c) : c \in Classes}
           Pending == UNION {{<<"pending", cls[t], t, i>> : i \in Positions(pending[t], b)} :
                        t \in Threads}
<1>1. x \in Local <=> \E k \in Caches, c \in Classes :
            \E i \in Positions(local[k][c].blocks, b) : x = <<"local", c, k, i>>
  <2>1. \A k \in Caches, c \in Classes : x \in InHot(k, c) <=>
            \E i \in Positions(local[k][c].blocks, b) : x = <<"local", c, k, i>>
    OBVIOUS
  <2> HIDE DEF InHot
  <2> QED BY <2>1
<1>2. x \in Spare <=> \E k \in Caches, c \in Classes :
            \E i \in Positions(spare[k][c].blocks, b) : x = <<"spare", c, k, i>>
  <2>1. \A k \in Caches, c \in Classes : x \in InCold(k, c) <=>
            \E i \in Positions(spare[k][c].blocks, b) : x = <<"spare", c, k, i>>
    OBVIOUS
  <2> HIDE DEF InCold
  <2> QED BY <2>1
<1>3. x \in Remote <=> \E k \in Caches, c \in Classes :
            \E i \in Positions(remote[k][c], b) : x = <<"remote", c, k, i>>
  <2>1. \A k \in Caches, c \in Classes : x \in InInbox(k, c) <=>
            \E i \in Positions(remote[k][c], b) : x = <<"remote", c, k, i>>
    OBVIOUS
  <2> HIDE DEF InInbox
  <2> QED BY <2>1
<1>4. x \in Central <=> \E c \in Classes : \E n \in DOMAIN central[c] :
            \E i \in Positions(central[c][n].blocks, b) : x = <<"central", c, n, i>>
  <2>1. \A c \in Classes : x \in Bin(c) <=> \E n \in DOMAIN central[c] :
            \E i \in Positions(central[c][n].blocks, b) : x = <<"central", c, n, i>>
    OBVIOUS
  <2> HIDE DEF Bin
  <2> QED BY <2>1
<1>5. x \in Pending <=> \E t \in Threads :
            \E i \in Positions(pending[t], b) : x = <<"pending", cls[t], t, i>>
  OBVIOUS
<1>6. Listed(b) = UNION {Local, Spare, Remote, Central, Pending}
  BY DEF Listed
<1> HIDE DEF Local, Spare, Remote, Central, Pending
<1>7. x \in Found(b) <=>
        \/ x \in Listed(b)
        \/ \E t \in Threads : Carries(t) /\ blk[t] = b /\ x = <<"carried", t>>
        \/ b \in program /\ x = <<"program">>
  BY DEF Found, Carrying, Carries
<1> QED BY <1>1, <1>2, <1>3, <1>4, <1>5, <1>6, <1>7

\* Through refills, remote frees, flushes, detaches and double frees no block is
\* lost and none is handed out twice: a carved block is in one place, a block of
\* a span not carved in none, and the lists of a class hold its blocks only.
THEOREM HeapBlocksConserved == Spec => []BlocksConserved
<1>1. ASSUME BlockInv, NEW b \in Blocks
      PROVE  /\ Cardinality(Found(b)) = IF b \in Carved THEN 1 ELSE 0
             /\ \A place \in Listed(b) : place[2] = ClassOf(b)
  <2>1. PICK at : Placed(at)
    BY <1>1 DEF BlockInv
  <2>2. /\ \A k \in Caches, c \in Classes : at[b] # InLocal(k, c) =>
                Positions(local[k][c].blocks, b) = {}
        /\ \A k \in Caches, c \in Classes : at[b] # InSpare(k, c) =>
                Positions(spare[k][c].blocks, b) = {}
        /\ \A k \in Caches, c \in Classes : at[b] # InRemote(k, c) =>
                Positions(remote[k][c], b) = {}
        /\ \A c \in Classes : at[b] # InCentral(c) =>
                \A n \in DOMAIN central[c] : Positions(central[c][n].blocks, b) = {}
        /\ \A t \in Threads : at[b] # InPending(t) => Positions(pending[t], b) = {}
    BY <2>1, FoundInList, FoundInBin DEF Placed, BlocksPlaced
  <2>3. /\ \A t \in Threads : at[b] = CarriedBy(t) <=> Carries(t) /\ blk[t] = b
        /\ at[b] = InProgram <=> b \in program
        /\ at[b] = Nowhere <=> b \notin Carved
        /\ IsPlace(at[b])
    BY <2>1 DEF Placed, BlocksPlaced
  <2>4. \A place \in Listed(b) : place[2] = ClassOf(b)
    <3> TAKE place \in Listed(b)
    <3>1. Fits(b, at[b])
      BY <2>1 DEF Placed, ClassesMatch
    <3>2. CASE \E k \in Caches, c \in Classes :
                \E i \in Positions(local[k][c].blocks, b) : place = <<"local", c, k, i>>
      BY <2>2, <3>1, <3>2 DEF Fits
    <3>3. CASE \E k \in Caches, c \in Classes :
                \E i \in Positions(spare[k][c].blocks, b) : place = <<"spare", c, k, i>>
      BY <2>2, <3>1, <3>3 DEF Fits
    <3>4. CASE \E k \in Caches, c \in Classes :
                \E i \in Positions(remote[k][c], b) : place = <<"remote", c, k, i>>
      BY <2>2, <3>1, <3>4 DEF Fits
    <3>5. CASE \E c \in Classes : \E n \in DOMAIN central[c] :
                \E i \in Positions(central[c][n].blocks, b) :
                    place = <<"central", c, n, i>>
      BY <2>2, <3>1, <3>5 DEF Fits
    <3>6. CASE \E t \in Threads :
                \E i \in Positions(pending[t], b) : place = <<"pending", cls[t], t, i>>
      BY <2>2, <3>1, <3>6 DEF Fits
    <3> QED BY <3>2, <3>3, <3>4, <3>5, <3>6, FoundMembers
  <2>f. \A x : x \in Found(b) <=>
            \/ \E k \in Caches, c \in Classes : at[b] = InLocal(k, c) /\
                \E i \in Positions(local[k][c].blocks, b) : x = <<"local", c, k, i>>
            \/ \E k \in Caches, c \in Classes : at[b] = InSpare(k, c) /\
                \E i \in Positions(spare[k][c].blocks, b) : x = <<"spare", c, k, i>>
            \/ \E k \in Caches, c \in Classes : at[b] = InRemote(k, c) /\
                \E i \in Positions(remote[k][c], b) : x = <<"remote", c, k, i>>
            \/ \E c \in Classes : at[b] = InCentral(c) /\ \E n \in DOMAIN central[c] :
                \E i \in Positions(central[c][n].blocks, b) : x = <<"central", c, n, i>>
            \/ \E t \in Threads : at[b] = InPending(t) /\
                \E i \in Positions(pending[t], b) : x = <<"pending", cls[t], t, i>>
            \/ \E t \in Threads : at[b] = CarriedBy(t) /\ x = <<"carried", t>>
            \/ at[b] = InProgram /\ x = <<"program">>
    <3> TAKE x
    <3>1. x \in Listed(b) <=>
            \/ \E k \in Caches, c \in Classes : at[b] = InLocal(k, c) /\
                \E i \in Positions(local[k][c].blocks, b) : x = <<"local", c, k, i>>
            \/ \E k \in Caches, c \in Classes : at[b] = InSpare(k, c) /\
                \E i \in Positions(spare[k][c].blocks, b) : x = <<"spare", c, k, i>>
            \/ \E k \in Caches, c \in Classes : at[b] = InRemote(k, c) /\
                \E i \in Positions(remote[k][c], b) : x = <<"remote", c, k, i>>
            \/ \E c \in Classes : at[b] = InCentral(c) /\ \E n \in DOMAIN central[c] :
                \E i \in Positions(central[c][n].blocks, b) : x = <<"central", c, n, i>>
            \/ \E t \in Threads : at[b] = InPending(t) /\
                \E i \in Positions(pending[t], b) : x = <<"pending", cls[t], t, i>>
      <4>1. /\ \A k \in Caches, c \in Classes :
                    \A i \in Positions(local[k][c].blocks, b) : at[b] = InLocal(k, c)
            /\ \A k \in Caches, c \in Classes :
                    \A i \in Positions(spare[k][c].blocks, b) : at[b] = InSpare(k, c)
            /\ \A k \in Caches, c \in Classes :
                    \A i \in Positions(remote[k][c], b) : at[b] = InRemote(k, c)
            /\ \A c \in Classes : \A n \in DOMAIN central[c] :
                    \A i \in Positions(central[c][n].blocks, b) : at[b] = InCentral(c)
            /\ \A t \in Threads : \A i \in Positions(pending[t], b) : at[b] = InPending(t)
        BY <2>2
      <4>2. x \in Listed(b) <=>
              \/ \E k \in Caches, c \in Classes :
                  \E i \in Positions(local[k][c].blocks, b) : x = <<"local", c, k, i>>
              \/ \E k \in Caches, c \in Classes :
                  \E i \in Positions(spare[k][c].blocks, b) : x = <<"spare", c, k, i>>
              \/ \E k \in Caches, c \in Classes :
                  \E i \in Positions(remote[k][c], b) : x = <<"remote", c, k, i>>
              \/ \E c \in Classes : \E n \in DOMAIN central[c] :
                  \E i \in Positions(central[c][n].blocks, b) : x = <<"central", c, n, i>>
              \/ \E t \in Threads :
                  \E i \in Positions(pending[t], b) : x = <<"pending", cls[t], t, i>>
        BY FoundMembers
      <4> QED BY <4>1, <4>2
    <3>2. x \in Found(b) <=>
            \/ x \in Listed(b)
            \/ \E t \in Threads : at[b] = CarriedBy(t) /\ x = <<"carried", t>>
            \/ at[b] = InProgram /\ x = <<"program">>
      BY <2>3, FoundMembers
    <3> QED BY <3>1, <3>2
  <2> DEFINE Kind(name) == at[b][1] = name
  <2>k. /\ \A k, c : at[b] = InLocal(k, c) => Kind("local")
        /\ \A k, c : at[b] = InSpare(k, c) => Kind("spare")
        /\ \A k, c : at[b] = InRemote(k, c) => Kind("remote")
        /\ \A c : at[b] = InCentral(c) => Kind("central")
        /\ \A t : at[b] = InPending(t) => Kind("pending")
        /\ \A t : at[b] = CarriedBy(t) => Kind("carried")
        /\ at[b] = InProgram => Kind("program")
        /\ at[b] = Nowhere => Kind("nowhere")
    BY PlaceNames
  <2>5. CASE at[b] = Nowhere
    <3>1. Found(b) = {}
      BY <2>5, <2>f, <2>k
    <3> QED BY <2>3, <2>4, <2>5, <3>1, FS_EmptySet
  <2>6. ASSUME at[b] # Nowhere PROVE \E x : Found(b) = {x}
    <3>1. CASE \E k \in Caches, c \in Classes : at[b] = InLocal(k, c)
      <4>1. PICK k \in Caches, c \in Classes : at[b] = InLocal(k, c)
        BY <3>1
      <4>2. PICK i : Positions(local[k][c].blocks, b) = {i}
        BY <2>1, <4>1, FoundInList DEF Placed, BlocksPlaced
      <4>3. \A x : x \in Found(b) <=> x = <<"local", c, k, i>>
        BY <2>f, <2>k, <4>1, <4>2, PlaceNames
      <4>e. Found(b) = {<<"local", c, k, i>>}
        BY <4>3
      <4> QED BY <4>e
    <3>2. CASE \E k \in Caches, c \in Classes : at[b] = InSpare(k, c)
      <4>1. PICK k \in Caches, c \in Classes : at[b] = InSpare(k, c)
        BY <3>2
      <4>2. PICK i : Positions(spare[k][c].blocks, b) = {i}
        BY <2>1, <4>1, FoundInList DEF Placed, BlocksPlaced
      <4>3. \A x : x \in Found(b) <=> x = <<"spare", c, k, i>>
        BY <2>f, <2>k, <4>1, <4>2, PlaceNames
      <4>e. Found(b) = {<<"spare", c, k, i>>}
        BY <4>3
      <4> QED BY <4>e
    <3>3. CASE \E k \in Caches, c \in Classes : at[b] = InRemote(k, c)
      <4>1. PICK k \in Caches, c \in Classes : at[b] = InRemote(k, c)
        BY <3>3
      <4>2. PICK i : Positions(remote[k][c], b) = {i}
        BY <2>1, <4>1, FoundInList DEF Placed, BlocksPlaced
      <4>3. \A x : x \in Found(b) <=> x = <<"remote", c, k, i>>
        BY <2>f, <2>k, <4>1, <4>2, PlaceNames
      <4>e. Found(b) = {<<"remote", c, k, i>>}
        BY <4>3
      <4> QED BY <4>e
    <3>4. CASE \E c \in Classes : at[b] = InCentral(c)
      <4>1. PICK c \in Classes : at[b] = InCentral(c)
        BY <3>4
      <4>2. PICK n \in DOMAIN central[c] : \E i :
                /\ Positions(central[c][n].blocks, b) = {i}
                /\ \A m \in DOMAIN central[c] :
                        m # n => Positions(central[c][m].blocks, b) = {}
        BY <2>1, <4>1, FoundInBin DEF Placed, BlocksPlaced
      <4>i. PICK i : Positions(central[c][n].blocks, b) = {i}
        BY <4>2
      <4>3. \A d \in Classes : \A m, j :
                /\ at[b] = InCentral(d)
                /\ m \in DOMAIN central[d]
                /\ j \in Positions(central[d][m].blocks, b)
                <=> d = c /\ m = n /\ j = i
        BY <4>1, <4>2, <4>i, PlaceNames
      <4>4. \A x : x \in Found(b) <=> \E d \in Classes : at[b] = InCentral(d) /\
                \E m \in DOMAIN central[d] :
                    \E j \in Positions(central[d][m].blocks, b) :
                        x = <<"central", d, m, j>>
        BY <2>f, <2>k, <4>1
      <4>5. \A x : x \in Found(b) <=> x = <<"central", c, n, i>>
        BY <4>3, <4>4
      <4>e. Found(b) = {<<"central", c, n, i>>}
        BY <4>5
      <4> QED BY <4>e
    <3>5. CASE \E t \in Threads : at[b] = InPending(t)
      <4>1. PICK t \in Threads : at[b] = InPending(t)
        BY <3>5
      <4>2. PICK i : Positions(pending[t], b) = {i}
        BY <2>1, <4>1, FoundInList DEF Placed, BlocksPlaced
      <4>3. \A x : x \in Found(b) <=> x = <<"pending", cls[t], t, i>>
        BY <2>f, <2>k, <4>1, <4>2, PlaceNames
      <4>e. Found(b) = {<<"pending", cls[t], t, i>>}
        BY <4>3
      <4> QED BY <4>e
    <3>6. CASE \E t \in Threads : at[b] = CarriedBy(t)
      <4>1. PICK t \in Threads : at[b] = CarriedBy(t)
        BY <3>6
      <4>2. \A x : x \in Found(b) <=> x = <<"carried", t>>
        BY <2>f, <2>k, <4>1, PlaceNames
      <4>e. Found(b) = {<<"carried", t>>}
        BY <4>2
      <4> QED BY <4>e
    <3>7. CASE at[b] = InProgram
      <4>1. \A x : x \in Found(b) <=> x = <<"program">>
        BY <2>f, <2>k, <3>7, PlaceNames
      <4>e. Found(b) = {<<"program">>}
        BY <4>1
      <4> QED BY <4>e
    <3> QED BY <2>3, <2>6, <3>1, <3>2, <3>3, <3>4, <3>5, <3>6, <3>7 DEF IsPlace
  <2>7. CASE at[b] # Nowhere
    BY <2>3, <2>4, <2>6, <2>7, FS_Singleton
  <2> QED BY <2>5, <2>7
<1>2. BlockInv => BlocksConserved
  BY <1>1 DEF BlocksConserved, ClassOf
<1> QED BY <1>2, HeapBlockInvariant, PTL
=============================================================================
