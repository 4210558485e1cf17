--------------------------- MODULE MemxLargeProofs ---------------------------
(***************************************************************************)
(* Proofs about MemxLarge, for every number of threads, every set of        *)
(* addresses, every hash and every table size: the hash table finds exactly *)
(* what it holds, mappings are released once, and the peak covers the live  *)
(* bytes.                                                                   *)
(***************************************************************************)
EXTENDS MemxLarge, MemxArithmetic, SequenceTheorems

-----------------------------------------------------------------------------
(***************************************************************************)
(* Tables.                                                                  *)
(***************************************************************************)
Tables == Seq(SUBSET Addresses)

\* Every record is in the chain of its bucket.
Placed(buckets) ==
    \A b \in 1..Len(buckets) : \A a \in buckets[b] :
        memx_heap_large_bucket(a, Len(buckets)) = b

\* A record is in some chain.
LEMMA RecordsOf ==
    ASSUME NEW buckets \in Tables
    PROVE  /\ Len(buckets) \in Nat /\ DOMAIN buckets = 1..Len(buckets)
           /\ \A a : a \in Records(buckets) <=> \E b \in 1..Len(buckets) : a \in buckets[b]
           /\ Records(buckets) \subseteq Addresses
           /\ \A b \in 1..Len(buckets) : buckets[b] \subseteq Addresses
<1>1. Len(buckets) \in Nat /\ DOMAIN buckets = 1..Len(buckets)
  BY LenProperties DEF Tables
<1>2. \A b \in 1..Len(buckets) : buckets[b] \in SUBSET Addresses
  BY <1>1, ElementOfSeq DEF Tables
<1>3. \A a : a \in Records(buckets) <=> \E b \in 1..Len(buckets) : a \in buckets[b]
  BY <1>1 DEF Records, Range
<1> QED BY <1>1, <1>2, <1>3

\* The table that does not exist holds nothing.
LEMMA NoTable ==
    << >> \in Tables /\ Records(<< >>) = {} /\ Placed(<< >>) /\ Len(<< >>) = 0
BY DEF Tables, Records, Range, Placed

\* The bucket of an address is a bucket of the table.
LEMMA BucketInTable ==
    ASSUME NEW a \in Addresses, NEW count \in Nat, count # 0
    PROVE  memx_heap_large_bucket(a, count) \in 1..count
<1>1. Hash[a] \in Nat
  BY LargeAssumption
<1>2. Hash[a] % count \in 0..(count - 1)
  BY <1>1
<1> QED BY <1>2 DEF memx_heap_large_bucket

\* In such a table the search of one chain finds every record.
LEMMA FoundInBucket ==
    ASSUME NEW buckets \in Tables, Placed(buckets), NEW a \in Records(buckets)
    PROVE  /\ Len(buckets) # 0
           /\ memx_heap_large_bucket(a, Len(buckets)) \in 1..Len(buckets)
           /\ a \in buckets[memx_heap_large_bucket(a, Len(buckets))]
<1>1. PICK b \in 1..Len(buckets) : a \in buckets[b]
  BY RecordsOf
<1>2. memx_heap_large_bucket(a, Len(buckets)) = b
  BY <1>1 DEF Placed
<1> QED BY <1>1, <1>2, RecordsOf

\* The rehash loses no record and puts each where it will be searched.
LEMMA Rehashed ==
    ASSUME NEW buckets \in Tables, NEW count \in Nat, count # 0,
           NEW new, new = memx_heap_large_rehash_locked(buckets, count)
    PROVE  /\ new \in Tables
           /\ Len(new) = count
           /\ Placed(new)
           /\ Records(new) = Records(buckets)
<1>1. new = [b \in 1..count |->
                {a \in Records(buckets) : memx_heap_large_bucket(a, count) = b}]
  BY DEF memx_heap_large_rehash_locked
<1>2. Records(buckets) \subseteq Addresses
  BY RecordsOf
<1>3. \A b \in 1..count :
         new[b] = {a \in Records(buckets) : memx_heap_large_bucket(a, count) = b}
  BY <1>1
<1>4. new \in Tables /\ Len(new) = count
  <2>1. new \in [1..count -> SUBSET Addresses]
    BY <1>1, <1>2
  <2> QED BY <2>1 DEF Tables
<1>5. Placed(new)
  BY <1>3, <1>4 DEF Placed
<1>6. \A a : a \in Records(new) <=> \E b \in 1..count : a \in new[b]
  BY <1>4, RecordsOf
<1>7. \A a \in Records(buckets) : memx_heap_large_bucket(a, count) \in 1..count
  BY <1>2, BucketInTable
<1>8. Records(new) = Records(buckets)
  BY <1>3, <1>6, <1>7
<1> QED BY <1>4, <1>5, <1>8

\* A record is linked into the chain of its bucket.
LEMMA PushedRecord ==
    ASSUME NEW buckets \in Tables, Placed(buckets), Len(buckets) # 0, NEW a \in Addresses,
           NEW new, new = Pushed(buckets, a)
    PROVE  /\ new \in Tables
           /\ Len(new) = Len(buckets)
           /\ Placed(new)
           /\ Records(new) = Records(buckets) \cup {a}
<1>1. PICK k : k = memx_heap_large_bucket(a, Len(buckets))
  OBVIOUS
<1>2. Len(buckets) \in Nat /\ DOMAIN buckets = 1..Len(buckets)
      /\ \A b \in 1..Len(buckets) : buckets[b] \subseteq Addresses
  BY RecordsOf
<1>3. k \in 1..Len(buckets)
  BY <1>1, <1>2, BucketInTable
<1>4. new = [buckets EXCEPT ![k] = @ \cup {a}]
  BY <1>1 DEF Pushed
<1>5. /\ new \in Tables /\ Len(new) = Len(buckets)
      /\ new[k] = buckets[k] \cup {a}
      /\ \A b \in 1..Len(buckets) : b # k => new[b] = buckets[b]
  <2>1. buckets[k] \cup {a} \in SUBSET Addresses
    BY <1>2, <1>3
  <2> QED BY <1>2, <1>3, <1>4, <2>1, ExceptSeq DEF Tables
<1>6. Placed(new)
  BY <1>1, <1>5 DEF Placed
<1>7. /\ \A x : x \in Records(new) <=> \E b \in 1..Len(buckets) : x \in new[b]
      /\ \A x : x \in Records(buckets) <=> \E b \in 1..Len(buckets) : x \in buckets[b]
  BY <1>5, RecordsOf
<1>8. Records(new) = Records(buckets) \cup {a}
  BY <1>3, <1>5, <1>7
<1> QED BY <1>5, <1>6, <1>8

\* And unlinked from it.
Without(buckets, k, a) == [buckets EXCEPT ![k] = @ \ {a}]

LEMMA UnlinkedRecord ==
    ASSUME NEW buckets \in Tables, Placed(buckets), NEW a \in Records(buckets),
           NEW k, k = memx_heap_large_bucket(a, Len(buckets)),
           NEW new, new = Without(buckets, k, a)
    PROVE  /\ new \in Tables
           /\ Len(new) = Len(buckets)
           /\ Placed(new)
           /\ Records(new) = Records(buckets) \ {a}
<1>2. Len(buckets) \in Nat /\ DOMAIN buckets = 1..Len(buckets)
      /\ \A b \in 1..Len(buckets) : buckets[b] \subseteq Addresses
  BY RecordsOf
<1>3. k \in 1..Len(buckets) /\ \A b \in 1..Len(buckets) : a \in buckets[b] => b = k
  BY FoundInBucket DEF Placed
<1>5. /\ new \in Tables /\ Len(new) = Len(buckets)
      /\ new[k] = buckets[k] \ {a}
      /\ \A b \in 1..Len(buckets) : b # k => new[b] = buckets[b]
  <2>1. buckets[k] \ {a} \in SUBSET Addresses
    BY <1>2, <1>3
  <2> QED BY <1>2, <1>3, <2>1, ExceptSeq DEF Tables, Without
<1>6. Placed(new)
  BY <1>5 DEF Placed
<1>7. /\ \A x : x \in Records(new) <=> \E b \in 1..Len(buckets) : x \in new[b]
      /\ \A x : x \in Records(buckets) <=> \E b \in 1..Len(buckets) : x \in buckets[b]
  BY <1>5, RecordsOf
<1>8. Records(new) = Records(buckets) \ {a}
  BY <1>3, <1>5, <1>7
<1> QED BY <1>5, <1>6, <1>8

\* A record is in at most one chain.
LEMMA ChainsApart ==
    ASSUME NEW buckets, Placed(buckets)
    PROVE  \A b, c \in 1..Len(buckets) : b # c => buckets[b] \cap buckets[c] = {}
BY DEF Placed

-----------------------------------------------------------------------------
(***************************************************************************)
(* The inductive invariant.                                                 *)
(***************************************************************************)
Labels == {"idle", "mapped", "unwind", "count", "peak", "cas", "size", "sub", "release",
           "discount"}

LargeType ==
    /\ mapped \subseteq Addresses
    /\ requested_size \in [Addresses -> Nat]
    /\ large_buckets \in Tables
    /\ large_count \in Nat
    /\ live_requested \in Int
    /\ peak_live \in Int
    /\ pc \in [Threads -> Labels]
    /\ ptr \in [Threads -> Addresses \cup {NoAddress}]
    /\ other \in [Threads -> Addresses \cup {NoAddress}]
    /\ amount \in [Threads -> Int]
    /\ seen \in [Threads -> Int]

\* The table: every record in its chain, counted, with room for all of them.
TableInv ==
    /\ Placed(large_buckets)
    /\ IsFiniteSet(Linked)
    /\ Cardinality(Linked) = large_count
    /\ large_count <= Len(large_buckets)
    /\ large_count = 0 => Len(large_buckets) = 0

\* The pointers in the frame of a thread, and those of them the table holds.
Has(t) == {ptr[t], other[t]} \ {NoAddress}
HeldLinked(t) ==
    Kept(t) \cup
    (IF pc[t] \in {"count", "peak", "cas", "size", "discount"} THEN {ptr[t]} ELSE {})

FrameOK(t) ==
    /\ pc[t] = "idle" => ptr[t] = NoAddress /\ other[t] = NoAddress
    /\ pc[t] # "idle" => ptr[t] \in Addresses /\ ptr[t] # other[t]
    /\ pc[t] = "discount" => other[t] = NoAddress
    /\ Private(t) \subseteq mapped
    /\ Private(t) \cap Linked = {}
    /\ HeldLinked(t) \subseteq Linked
    /\ Has(t) \cap program = {}

\* Who has what: every mapping is linked or private to one thread, and every
\* linked record is with the program or in one thread's frame.
OwnInv ==
    /\ mapped = Linked \cup (UNION {Private(t) : t \in Threads})
    /\ program \subseteq Linked
    /\ Linked \subseteq program \cup (UNION {Has(t) : t \in Threads})
    /\ \A t \in Threads : FrameOK(t)
    /\ \A t, u \in Threads : t # u => Has(t) \cap Has(u) = {}

\* The peak covers the live bytes, or a thread is about to raise it that far; a
\* peak a thread has seen is not above the peak; amounts to add or to take off
\* are not negative.
PeakInv ==
    /\ \/ peak_live >= live_requested
       \/ \E t \in Threads : pc[t] \in {"peak", "cas"} /\ amount[t] >= live_requested
    /\ \A t \in Threads :
           /\ pc[t] = "cas" => seen[t] <= peak_live
           /\ pc[t] \in {"mapped", "unwind", "count", "discount"} => amount[t] \in Nat

LargeInv == LargeType /\ TableInv /\ OwnInv /\ PeakInv

-----------------------------------------------------------------------------
(***************************************************************************)
(* One thread's step, as far as ownership goes.                             *)
(***************************************************************************)
\* Other threads' frames stay, and only pointers in the frame of t, before or
\* after, change hands.
OnlyOwn(t) ==
    /\ \A u \in Threads \ {t} : pc'[u] = pc[u] /\ ptr'[u] = ptr[u] /\ other'[u] = other[u]
    /\ \A a : a \notin Has(t) =>
           (a \in Linked' <=> a \in Linked)
    /\ \A a : a \notin Has(t) \cup Has(t)' =>
           /\ a \in program' <=> a \in program
           /\ a \in mapped' <=> a \in mapped
    /\ program' \subseteq program \cup Has(t)
    /\ \A a \in Has(t)' : a \in Has(t) \/ a \in program \/ a \notin mapped

\* What the step leaves of them.
Settled(t) ==
    /\ FrameOK(t)'
    /\ program' \subseteq Linked'
    /\ \A a \in Has(t) \cup Has(t)' :
           /\ a \in mapped' <=> a \in Linked' \cup Private(t)'
           /\ a \in Linked' => a \in program' \cup Has(t)'

\* What thread t has is mapped: so a fresh mapping is nobody's.
LEMMA HasMapped ==
    ASSUME LargeInv, NEW t \in Threads
    PROVE  /\ Has(t) \subseteq mapped
           /\ Private(t) \subseteq Has(t)
           /\ program \subseteq mapped /\ Linked \subseteq mapped
           /\ Has(t) \subseteq Addresses
<1>1. FrameOK(t) /\ Linked \subseteq mapped /\ program \subseteq mapped
  BY DEF LargeInv, OwnInv
<1>2. pc[t] \in Labels /\ NoAddress \notin Addresses
      /\ ptr[t] \in Addresses \cup {NoAddress} /\ other[t] \in Addresses \cup {NoAddress}
  BY LargeAssumption DEF LargeInv, LargeType
<1>3. pc[t] = "idle" => Has(t) = {}
  BY <1>1 DEF FrameOK, Has
<1>4. pc[t] # "idle" => Has(t) = HeldLinked(t) \cup Private(t)
  BY <1>1, <1>2 DEF FrameOK, Has, HeldLinked, Private, Kept, Labels
<1>5. HeldLinked(t) \subseteq mapped /\ Private(t) \subseteq mapped
  BY <1>1 DEF FrameOK
<1>6. Private(t) \subseteq Has(t)
  BY <1>1, <1>2 DEF FrameOK, Has, Private, Labels
<1> QED BY <1>1, <1>2, <1>3, <1>4, <1>5, <1>6 DEF Has

\* Such a step keeps the ownership.
LEMMA OwnStep ==
    ASSUME LargeInv, NEW t \in Threads, OnlyOwn(t), Settled(t)
    PROVE  OwnInv'
<1>1. /\ \A u \in Threads \ {t} :
             /\ pc'[u] = pc[u] /\ ptr'[u] = ptr[u] /\ other'[u] = other[u]
             /\ Has(u)' = Has(u) /\ Private(u)' = Private(u) /\ HeldLinked(u)' = HeldLinked(u)
      /\ \A a : a \notin Has(t) => (a \in Linked' <=> a \in Linked)
      /\ \A a : a \notin Has(t) \cup Has(t)' =>
             (a \in program' <=> a \in program) /\ (a \in mapped' <=> a \in mapped)
      /\ program' \subseteq program \cup Has(t)
      /\ \A a \in Has(t)' : a \in Has(t) \/ a \in program \/ a \notin mapped
  BY DEF OnlyOwn, Has, Private, HeldLinked, Kept
<1>2. \A u \in Threads \ {t} : Has(u) \cap Has(t) = {} /\ Has(u) \cap program = {}
                               /\ Has(u) \subseteq mapped /\ FrameOK(u)
                               /\ Private(u) \subseteq Has(u)
  BY HasMapped DEF LargeInv, OwnInv, FrameOK
<1>3. \A u \in Threads \ {t} : Has(u) \cap Has(t)' = {}
  BY <1>1, <1>2
<1>4. ASSUME NEW u \in Threads \ {t} PROVE FrameOK(u)'
  <2>1. Private(u) \subseteq mapped /\ Private(u) \cap Linked = {} /\ HeldLinked(u) \subseteq Linked
    BY <1>2 DEF FrameOK
  <2>2. HeldLinked(u) \subseteq Has(u)
    BY <1>2, LargeAssumption DEF HeldLinked, Has, Kept, FrameOK
  <2>3. \A a \in Has(u) : a \notin Has(t) \cup Has(t)'
    BY <1>2, <1>3
  <2>4. /\ Private(u) \subseteq mapped' /\ Private(u) \cap Linked' = {}
        /\ HeldLinked(u) \subseteq Linked' /\ Has(u) \cap program' = {}
    BY <1>1, <1>2, <2>1, <2>2, <2>3
  <2> QED BY <1>1, <1>2, <2>4 DEF FrameOK
<1>5. \A u \in Threads : FrameOK(u)'
  BY <1>4 DEF Settled
<1>6. \A u, v \in Threads : u # v => Has(u)' \cap Has(v)' = {}
  BY <1>1, <1>3 DEF LargeInv, OwnInv
<1>7. ASSUME NEW a PROVE a \in mapped' <=> a \in Linked' \/ \E u \in Threads : a \in Private(u)'
  <2>1. CASE a \in Has(t) \cup Has(t)'
    <3>1. a \in mapped' <=> a \in Linked' \cup Private(t)'
      BY <2>1 DEF Settled
    <3>2. \A u \in Threads \ {t} : a \notin Private(u)'
      BY <1>1, <1>2, <1>3, <2>1
    <3> QED BY <3>1, <3>2
  <2>2. CASE a \notin Has(t) \cup Has(t)'
    <3>1. a \in mapped <=> a \in Linked \/ \E u \in Threads : a \in Private(u)
      BY DEF LargeInv, OwnInv
    <3>2. a \notin Private(t)
      BY <2>2, HasMapped
    <3>3. a \notin Private(t)'
      BY <2>2, <1>5, LargeAssumption DEF FrameOK, Private, Has
    <3> QED BY <1>1, <2>2, <3>1, <3>2, <3>3
  <2> QED BY <2>1, <2>2
<1>8. ASSUME NEW a \in Linked' PROVE a \in program' \/ \E u \in Threads : a \in Has(u)'
  <2>1. CASE a \in Has(t) \cup Has(t)'
    BY <2>1 DEF Settled
  <2>2. CASE a \notin Has(t) \cup Has(t)'
    <3>1. a \in Linked
      BY <1>1, <2>2
    <3>2. a \in program \/ \E u \in Threads : a \in Has(u)
      BY <3>1 DEF LargeInv, OwnInv
    <3> QED BY <1>1, <2>2, <3>2
  <2> QED BY <2>1, <2>2
<1>9. mapped' = Linked' \cup (UNION {Private(u)' : u \in Threads})
  BY <1>7
<1>10. Linked' \subseteq program' \cup (UNION {Has(u)' : u \in Threads})
  BY <1>8
<1>11. program' \subseteq Linked'
  BY DEF Settled
<1> QED BY <1>5, <1>6, <1>9, <1>10, <1>11 DEF OwnInv

\* The counters, in a step that neither raises the live bytes nor settles the
\* peak.
LEMMA PeakStep ==
    ASSUME LargeInv, LargeType', NEW t \in Threads,
           \A u \in Threads \ {t} : pc'[u] = pc[u] /\ amount'[u] = amount[u] /\ seen'[u] = seen[u],
           live_requested' <= live_requested, peak_live' = peak_live,
           pc[t] \notin {"peak", "cas"}, pc'[t] # "cas",
           pc'[t] \in {"mapped", "unwind", "count", "discount"} => amount'[t] \in Nat
    PROVE  PeakInv'
<1>1. \/ peak_live' >= live_requested'
      \/ \E u \in Threads : pc'[u] \in {"peak", "cas"} /\ amount'[u] >= live_requested'
  <2>1. CASE peak_live >= live_requested
    BY <2>1 DEF LargeInv, LargeType
  <2>2. CASE \E u \in Threads : pc[u] \in {"peak", "cas"} /\ amount[u] >= live_requested
    <3>1. PICK u \in Threads : pc[u] \in {"peak", "cas"} /\ amount[u] >= live_requested
      BY <2>2
    <3>2. u # t /\ amount[u] \in Int
      BY <3>1 DEF LargeInv, LargeType
    <3> QED BY <3>1, <3>2 DEF LargeInv, LargeType
  <2> QED BY <2>1, <2>2 DEF LargeInv, PeakInv
<1> QED BY <1>1 DEF LargeInv, PeakInv

\* The frame of a thread that has returned.
LEMMA DoneFrame ==
    ASSUME LargeInv, NEW t \in Threads, Done(t)
    PROVE  /\ pc' \in [Threads -> Labels]
           /\ ptr' \in [Threads -> Addresses \cup {NoAddress}]
           /\ other' \in [Threads -> Addresses \cup {NoAddress}]
           /\ amount' \in [Threads -> Int] /\ seen' \in [Threads -> Int]
           /\ pc'[t] = "idle" /\ ptr'[t] = NoAddress /\ other'[t] = NoAddress
           /\ \A u \in Threads \ {t} :
                  /\ pc'[u] = pc[u] /\ ptr'[u] = ptr[u] /\ other'[u] = other[u]
                  /\ amount'[u] = amount[u] /\ seen'[u] = seen[u]
           /\ Has(t)' = {} /\ Private(t)' = {} /\ HeldLinked(t)' = {}
BY DEF Done, LargeInv, LargeType, Labels, Has, Private, HeldLinked, Kept

\* Steps that leave the table alone.
LEMMA TableKept ==
    ASSUME LargeInv, large_buckets' = large_buckets, large_count' = large_count
    PROVE  TableInv' /\ Linked' = Linked
BY DEF LargeInv, TableInv, Linked

-----------------------------------------------------------------------------
(***************************************************************************)
(* Allocation.                                                              *)
(***************************************************************************)
\* A fresh mapping, for malloc or for a realloc that grows.
LEMMA MapInv ==
    ASSUME LargeInv, NEW t \in Threads, NEW a \in Addresses, NEW size \in Sizes,
           \/ Allocate(t, a, size)
           \/ \E old \in Addresses : Grow(t, old, a, size)
    PROVE  LargeInv'
<1>1. PICK old \in Addresses \cup {NoAddress} :
         /\ old = NoAddress \/ old \in program
         /\ other' = [other EXCEPT ![t] = old]
         /\ program' = program \ {old}
  <2>1. CASE Allocate(t, a, size)
    <3>1. other' = other /\ program' = program /\ other[t] = NoAddress
      BY <2>1 DEF Allocate, LargeInv, OwnInv, FrameOK
    <3>2. NoAddress \notin program
      BY LargeAssumption, HasMapped DEF LargeInv, LargeType
    <3> QED BY <3>1, <3>2 DEF LargeInv, LargeType
  <2>2. CASE \E old \in Addresses : Grow(t, old, a, size)
    BY <2>2 DEF Grow
  <2> QED BY <2>1, <2>2
<1>2. /\ pc[t] = "idle" /\ a \notin mapped /\ mapped' = mapped \cup {a}
      /\ ptr' = [ptr EXCEPT ![t] = a] /\ amount' = [amount EXCEPT ![t] = size]
      /\ pc' = [pc EXCEPT ![t] = "mapped"]
      /\ large_buckets' = large_buckets /\ large_count' = large_count
      /\ requested_size' = requested_size
      /\ live_requested' = live_requested /\ peak_live' = peak_live /\ seen' = seen
  BY DEF Allocate, Grow, MapLarge, Goto, table, counts
<1>3. /\ pc'[t] = "mapped" /\ ptr'[t] = a /\ other'[t] = old /\ amount'[t] = size
      /\ \A u \in Threads \ {t} :
             /\ pc'[u] = pc[u] /\ ptr'[u] = ptr[u] /\ other'[u] = other[u]
             /\ amount'[u] = amount[u] /\ seen'[u] = seen[u]
      /\ size \in Nat
  BY <1>1, <1>2, LargeAssumption DEF LargeInv, LargeType
<1>4. LargeType'
  BY <1>1, <1>2, <1>3 DEF LargeInv, LargeType, Labels
<1>5. TableInv' /\ Linked' = Linked
  BY <1>2, TableKept
<1>6. /\ NoAddress \notin Addresses /\ Linked \subseteq mapped
      /\ program \subseteq Linked /\ FrameOK(t) /\ NoAddress \notin mapped
  BY LargeAssumption, HasMapped DEF LargeInv, LargeType, OwnInv
<1>7. /\ Has(t) = {}
      /\ Has(t)' = {a, old} \ {NoAddress} /\ Private(t)' = {a}
      /\ HeldLinked(t)' = {old} \ {NoAddress}
  BY <1>2, <1>3, <1>6 DEF FrameOK, Has, Private, HeldLinked, Kept
<1>8. OnlyOwn(t)
  <2>1. \A x : x \notin Has(t) \cup Has(t)' =>
           (x \in program' <=> x \in program) /\ (x \in mapped' <=> x \in mapped)
    <3> SUFFICES ASSUME NEW x, x \notin Has(t) \cup Has(t)'
                 PROVE  (x \in program' <=> x \in program) /\ (x \in mapped' <=> x \in mapped)
      OBVIOUS
    <3>1. x # a /\ (x # old \/ x = NoAddress)
      BY <1>6, <1>7
    <3>2. x \in mapped' <=> x \in mapped
      BY <1>2, <3>1
    <3>3. x \in program' <=> x \in program
      BY <1>1, <1>6, <3>1
    <3> QED BY <3>2, <3>3
  <2>2. \A x \in Has(t)' : x \in program \/ x \notin mapped
    BY <1>1, <1>2, <1>7
  <2>3. program' \subseteq program
    BY <1>1
  <2> QED BY <1>3, <1>5, <2>1, <2>2, <2>3 DEF OnlyOwn
<1>9. Settled(t)
  <2>1. FrameOK(t)'
    BY <1>1, <1>2, <1>3, <1>5, <1>6, <1>7 DEF FrameOK
  <2> QED BY <1>1, <1>2, <1>5, <1>6, <1>7, <2>1 DEF Settled
<1>10. OwnInv'
  BY <1>8, <1>9, OwnStep
<1>11. PeakInv'
  BY <1>2, <1>3, <1>4, PeakStep DEF LargeInv, LargeType
<1> QED BY <1>4, <1>5, <1>10, <1>11 DEF LargeInv

\* What room for one more record means.
LEMMA Reserved ==
    ASSUME LargeInv, NEW new, new = memx_heap_large_reserve_locked
    PROVE  /\ new \in Tables /\ Placed(new) /\ Records(new) = Linked
           /\ Len(new) \in Nat /\ large_count < Len(new)
<1>1. /\ large_buckets \in Tables /\ large_count \in Nat /\ Placed(large_buckets)
      /\ large_count <= Len(large_buckets) /\ (large_count = 0 => Len(large_buckets) = 0)
      /\ Len(large_buckets) \in Nat
  BY RecordsOf DEF LargeInv, LargeType, TableInv
<1>2. CASE large_count < Len(large_buckets)
  BY <1>1, <1>2 DEF memx_heap_large_reserve_locked, large_bucket_count, Linked
<1>3. CASE ~(large_count < Len(large_buckets))
  <2>1. PICK count : count = IF Len(large_buckets) = 0 THEN MinBuckets ELSE Len(large_buckets) * 2
    OBVIOUS
  <2>2. count \in Nat /\ count # 0 /\ large_count < count
    BY <1>1, <1>3, <2>1, LargeAssumption
  <2>3. new = memx_heap_large_rehash_locked(large_buckets, count)
    BY <1>3, <2>1 DEF memx_heap_large_reserve_locked, large_bucket_count
  <2> QED BY <1>1, <2>2, <2>3, Rehashed DEF Linked
<1> QED BY <1>2, <1>3

\* The record is published.
LEMMA PublishInv ==
    ASSUME LargeInv, NEW t \in Threads, Publish(t)
    PROVE  LargeInv'
<1>1. PICK a, room : a = ptr[t] /\ room = memx_heap_large_reserve_locked
  OBVIOUS
<1>2. /\ pc[t] = "mapped" /\ large_buckets' = Pushed(room, a)
      /\ large_count' = large_count + 1
      /\ requested_size' = [requested_size EXCEPT ![a] = amount[t]]
      /\ pc' = [pc EXCEPT ![t] = "count"]
      /\ mapped' = mapped /\ live_requested' = live_requested /\ peak_live' = peak_live
      /\ program' = program /\ ptr' = ptr /\ amount' = amount /\ other' = other /\ seen' = seen
  BY <1>1 DEF Publish, Goto, counts
<1>3. /\ room \in Tables /\ Placed(room) /\ Records(room) = Linked
      /\ Len(room) \in Nat /\ large_count < Len(room) /\ large_count \in Nat
  BY <1>1, Reserved DEF LargeInv, LargeType
<1>4. a \in Addresses /\ FrameOK(t) /\ a \notin Linked /\ a # NoAddress
  BY <1>1, <1>2, LargeAssumption DEF LargeInv, OwnInv, FrameOK, Private
<1>5. /\ large_buckets' \in Tables /\ Len(large_buckets') = Len(room)
      /\ Placed(large_buckets') /\ Records(large_buckets') = Linked \cup {a}
  <2>1. Len(room) # 0
    BY <1>3
  <2> QED BY <1>2, <1>3, <1>4, <2>1, PushedRecord
<1>6. Linked' = Linked \cup {a}
  BY <1>5 DEF Linked
<1>7. TableInv'
  <2>1. /\ IsFiniteSet(Linked \cup {a})
        /\ Cardinality(Linked \cup {a}) = large_count + 1
    BY <1>4, FS_AddElement DEF LargeInv, TableInv
  <2> QED BY <1>2, <1>3, <1>5, <1>6, <2>1 DEF TableInv
<1>8. /\ pc'[t] = "count" /\ amount[t] \in Nat /\ \A u \in Threads \ {t} : pc'[u] = pc[u]
  BY <1>2 DEF LargeInv, LargeType, PeakInv
<1>9. LargeType'
  <2>1. requested_size' \in [Addresses -> Nat]
    BY <1>2, <1>8 DEF LargeInv, LargeType
  <2> QED BY <1>2, <1>3, <1>5, <2>1 DEF LargeInv, LargeType, Labels
<1>10. /\ a \in Has(t) /\ Has(t)' = Has(t) /\ Private(t) = {a} /\ Private(t)' = {}
       /\ HeldLinked(t)' = HeldLinked(t) \cup {a} /\ Has(t) = HeldLinked(t) \cup {a}
  BY <1>1, <1>2, <1>4, <1>8, LargeAssumption DEF Has, Private, HeldLinked, Kept, FrameOK
<1>11. OnlyOwn(t)
  BY <1>2, <1>6, <1>8, <1>10 DEF OnlyOwn
<1>12. Settled(t)
  <2>1. FrameOK(t)'
    BY <1>1, <1>2, <1>4, <1>6, <1>8, <1>10 DEF FrameOK
  <2>2. Has(t) \subseteq mapped
    BY HasMapped
  <2>3. HeldLinked(t) \subseteq Linked /\ program \subseteq Linked
    BY <1>4 DEF FrameOK, LargeInv, OwnInv
  <2> QED BY <1>2, <1>6, <1>10, <2>1, <2>2, <2>3 DEF Settled
<1>13. OwnInv'
  BY <1>11, <1>12, OwnStep
<1>14. PeakInv'
  BY <1>2, <1>8, <1>9, PeakStep DEF LargeInv, LargeType
<1> QED BY <1>7, <1>9, <1>13, <1>14 DEF LargeInv

\* The table cannot grow: the mapping is given back.
LEMMA PublishFailsInv ==
    ASSUME LargeInv, NEW t \in Threads, PublishFails(t)
    PROVE  LargeInv'
<1>2. /\ pc[t] = "mapped" /\ large_buckets' = large_buckets /\ large_count' = large_count
      /\ requested_size' = requested_size
      /\ pc' = [pc EXCEPT ![t] = "unwind"]
      /\ mapped' = mapped /\ live_requested' = live_requested /\ peak_live' = peak_live
      /\ program' = program /\ ptr' = ptr /\ amount' = amount /\ other' = other /\ seen' = seen
  BY DEF PublishFails, Goto, counts, table
<1>3. TableInv' /\ Linked' = Linked
  BY <1>2, TableKept
<1>4. /\ pc'[t] = "unwind" /\ amount[t] \in Nat /\ \A u \in Threads \ {t} : pc'[u] = pc[u]
  BY <1>2 DEF LargeInv, LargeType, PeakInv
<1>5. LargeType'
  BY <1>2 DEF LargeInv, LargeType, Labels
<1>6. Has(t)' = Has(t) /\ Private(t)' = Private(t) /\ HeldLinked(t)' = HeldLinked(t)
  BY <1>2, <1>4 DEF Has, Private, HeldLinked, Kept
<1>7. OnlyOwn(t)
  BY <1>2, <1>3, <1>4, <1>6 DEF OnlyOwn
<1>8. Settled(t)
  <2>1. FrameOK(t) /\ program \subseteq Linked
    BY DEF LargeInv, OwnInv
  <2>2. FrameOK(t)'
    BY <1>2, <1>3, <1>4, <1>6, <2>1 DEF FrameOK
  <2>3. Has(t) \subseteq mapped /\ Has(t) = HeldLinked(t) \cup Private(t)
    BY <1>2, <2>1, HasMapped, LargeAssumption DEF Has, Private, HeldLinked, Kept, FrameOK
  <2> QED BY <1>2, <1>3, <1>6, <2>1, <2>2, <2>3 DEF Settled, FrameOK
<1>9. OwnInv'
  BY <1>7, <1>8, OwnStep
<1>10. PeakInv'
  BY <1>2, <1>4, <1>5, PeakStep DEF LargeInv, LargeType
<1> QED BY <1>3, <1>5, <1>9, <1>10 DEF LargeInv

-----------------------------------------------------------------------------
(***************************************************************************)
(* How pointers change hands when no record is linked or unlinked.          *)
(***************************************************************************)
\* The frames of the other threads stay.
OthersStay(t) ==
    \A u \in Threads \ {t} :
        /\ pc'[u] = pc[u] /\ ptr'[u] = ptr[u] /\ other'[u] = other[u]
        /\ amount'[u] = amount[u] /\ seen'[u] = seen[u]

\* The thread goes on with what it has.
LEMMA SameHands ==
    ASSUME LargeInv, NEW t \in Threads, OthersStay(t), pc[t] # "idle",
           pc'[t] \notin {"idle", "discount"},
           {ptr'[t], other'[t]} = {ptr[t], other[t]}, ptr'[t] \in Addresses,
           Private(t)' = Private(t), HeldLinked(t)' = HeldLinked(t),
           Linked' = Linked, program' = program, mapped' = mapped
    PROVE  OwnInv'
<1>1. FrameOK(t) /\ program \subseteq Linked
  BY DEF LargeInv, OwnInv
<1>2. Has(t)' = Has(t) /\ ptr'[t] # other'[t]
  BY <1>1 DEF Has, FrameOK
<1>3. OnlyOwn(t)
  BY <1>2 DEF OnlyOwn, OthersStay
<1>4. FrameOK(t)'
  BY <1>1, <1>2 DEF FrameOK
<1>5. Has(t) \subseteq mapped /\ Has(t) = HeldLinked(t) \cup Private(t)
  <2>1. pc[t] \in Labels /\ NoAddress \notin Addresses
        /\ ptr[t] \in Addresses \cup {NoAddress} /\ other[t] \in Addresses \cup {NoAddress}
    BY LargeAssumption DEF LargeInv, LargeType
  <2>2. Has(t) = HeldLinked(t) \cup Private(t)
    BY <1>1, <2>1 DEF FrameOK, Has, HeldLinked, Private, Kept, Labels
  <2> QED BY <2>2, HasMapped
<1>6. Settled(t)
  BY <1>1, <1>2, <1>4, <1>5 DEF Settled, FrameOK
<1> QED BY <1>3, <1>6, OwnStep

\* The program passes a pointer it holds to free or to realloc.
LEMMA Taken ==
    ASSUME LargeInv, NEW t \in Threads, OthersStay(t), NEW a \in Addresses, a \in program,
           pc[t] = "idle", pc'[t] \in {"size", "discount"},
           ptr'[t] = a, other'[t] = other[t],
           Linked' = Linked, program' = program \ {a}, mapped' = mapped
    PROVE  OwnInv'
<1>1. FrameOK(t) /\ program \subseteq Linked /\ Linked \subseteq mapped /\ a # NoAddress
      /\ other[t] = NoAddress
  BY LargeAssumption DEF LargeInv, OwnInv, FrameOK
<1>2. Has(t) = {} /\ Has(t)' = {a} /\ Private(t)' = {} /\ HeldLinked(t)' = {a}
  BY <1>1 DEF Has, FrameOK, Private, HeldLinked, Kept
<1>3. OnlyOwn(t)
  <2>1. \A x : x \notin {a} => (x \in program' <=> x \in program)
    OBVIOUS
  <2>2. program' \subseteq program /\ \A x \in {a} : x \in program
    OBVIOUS
  <2> QED BY <1>2, <2>1, <2>2 DEF OnlyOwn, OthersStay
<1>4. FrameOK(t)'
  BY <1>1, <1>2 DEF FrameOK
<1> QED BY <1>1, <1>2, <1>3, <1>4, OwnStep DEF Settled

\* A call ends with the mapping it had to itself released; what it kept goes
\* back to the program.
LEMMA GivenBack ==
    ASSUME LargeInv, NEW t \in Threads, Done(t), pc[t] \in {"unwind", "release"},
           Linked' = Linked, program' = program \cup Kept(t), mapped' = mapped \ {ptr[t]}
    PROVE  OwnInv'
<1>1. /\ FrameOK(t) /\ program \subseteq Linked /\ Linked \subseteq mapped
      /\ NoAddress \notin Addresses
  BY LargeAssumption DEF LargeInv, OwnInv
<1>2. /\ ptr[t] \in Addresses /\ Private(t) = {ptr[t]} /\ Kept(t) \subseteq Linked
      /\ Has(t) = Kept(t) \cup {ptr[t]} /\ ptr[t] \notin Linked
  BY <1>1 DEF FrameOK, Private, HeldLinked, Has, Kept
<1>3. /\ Has(t)' = {} /\ Private(t)' = {} /\ HeldLinked(t)' = {}
      /\ pc'[t] = "idle" /\ ptr'[t] = NoAddress /\ other'[t] = NoAddress /\ OthersStay(t)
  BY DoneFrame DEF OthersStay
<1>4. OnlyOwn(t)
  BY <1>2, <1>3 DEF OnlyOwn, OthersStay
<1>5. FrameOK(t)'
  BY <1>3 DEF FrameOK
<1> QED BY <1>1, <1>2, <1>3, <1>4, <1>5, OwnStep DEF Settled

\* A call returns its pointer to the program.
LEMMA HandedOver ==
    ASSUME LargeInv, NEW t \in Threads, Done(t), pc[t] \in {"cas", "discount"},
           other[t] = NoAddress,
           Linked' = Linked, program' = program \cup {ptr[t]}, mapped' = mapped
    PROVE  OwnInv'
<1>1. /\ FrameOK(t) /\ program \subseteq Linked /\ Linked \subseteq mapped
      /\ NoAddress \notin Addresses
  BY LargeAssumption DEF LargeInv, OwnInv
<1>2. ptr[t] \in Addresses /\ ptr[t] \in Linked /\ Has(t) = {ptr[t]}
  BY <1>1 DEF FrameOK, HeldLinked, Has, Kept
<1>3. /\ Has(t)' = {} /\ Private(t)' = {} /\ HeldLinked(t)' = {}
      /\ pc'[t] = "idle" /\ ptr'[t] = NoAddress /\ other'[t] = NoAddress /\ OthersStay(t)
  BY DoneFrame DEF OthersStay
<1>4. OnlyOwn(t)
  BY <1>2, <1>3 DEF OnlyOwn, OthersStay
<1>5. FrameOK(t)'
  BY <1>3 DEF FrameOK
<1> QED BY <1>1, <1>2, <1>3, <1>4, <1>5, OwnStep DEF Settled

-----------------------------------------------------------------------------
(***************************************************************************)
(* The rest of an allocation.                                               *)
(***************************************************************************)
\* The mapping of an allocation that could not be recorded is released.
LEMMA UnwindInv ==
    ASSUME LargeInv, NEW t \in Threads, Unwind(t)
    PROVE  LargeInv'
<1>1. /\ pc[t] = "unwind" /\ mapped' = mapped \ {ptr[t]} /\ program' = program \cup Kept(t)
      /\ Done(t) /\ large_buckets' = large_buckets /\ large_count' = large_count
      /\ requested_size' = requested_size
      /\ live_requested' = live_requested /\ peak_live' = peak_live
  BY DEF Unwind, table, counts
<1>2. TableInv' /\ Linked' = Linked
  BY <1>1, TableKept
<1>3. OwnInv'
  BY <1>1, <1>2, GivenBack
<1>4. LargeType'
  BY <1>1, DoneFrame DEF LargeInv, LargeType
<1>5. PeakInv'
  BY <1>1, <1>4, DoneFrame, PeakStep DEF LargeInv, LargeType
<1> QED BY <1>2, <1>3, <1>4, <1>5 DEF LargeInv

\* The live bytes are raised: the thread now owes a peak that covers them.
LEMMA AddLiveInv ==
    ASSUME LargeInv, NEW t \in Threads, AddLive(t)
    PROVE  LargeInv'
<1>1. /\ pc[t] = "count" /\ live_requested' = live_requested + amount[t]
      /\ amount' = [amount EXCEPT ![t] = live_requested + amount[t]]
      /\ pc' = [pc EXCEPT ![t] = "peak"]
      /\ mapped' = mapped /\ program' = program /\ ptr' = ptr /\ other' = other /\ seen' = seen
      /\ large_buckets' = large_buckets /\ large_count' = large_count
      /\ requested_size' = requested_size /\ peak_live' = peak_live
  BY DEF AddLive, Goto, table
<1>2. TableInv' /\ Linked' = Linked
  BY <1>1, TableKept
<1>3. /\ pc'[t] = "peak" /\ amount'[t] = live_requested + amount[t]
      /\ live_requested \in Int /\ amount[t] \in Int /\ OthersStay(t)
  BY <1>1 DEF LargeInv, LargeType, OthersStay
<1>4. LargeType'
  BY <1>1, <1>3 DEF LargeInv, LargeType, Labels
<1>5. OwnInv'
  <2>1. Private(t)' = Private(t) /\ HeldLinked(t)' = HeldLinked(t)
    BY <1>1, <1>3 DEF Private, HeldLinked, Kept
  <2>2. ptr[t] \in Addresses
    BY <1>1 DEF LargeInv, OwnInv, FrameOK
  <2> QED BY <1>1, <1>2, <1>3, <2>1, <2>2, SameHands
<1>6. PeakInv'
  <2>1. pc'[t] \in {"peak", "cas"} /\ amount'[t] >= live_requested'
    BY <1>1, <1>3
  <2> QED BY <1>1, <1>3, <2>1 DEF LargeInv, PeakInv, OthersStay
<1> QED BY <1>2, <1>4, <1>5, <1>6 DEF LargeInv

\* memx_heap_update_peak reads the peak, first or again.
LEMMA PeakSeen ==
    ASSUME LargeInv, NEW t \in Threads, pc[t] \in {"peak", "cas"},
           pc' = [pc EXCEPT ![t] = "cas"], seen' = [seen EXCEPT ![t] = peak_live],
           UNCHANGED <<mapped, table, counts, program, ptr, amount, other>>
    PROVE  LargeInv'
<1>1. /\ mapped' = mapped /\ program' = program /\ ptr' = ptr /\ other' = other
      /\ amount' = amount /\ large_buckets' = large_buckets /\ large_count' = large_count
      /\ requested_size' = requested_size
      /\ live_requested' = live_requested /\ peak_live' = peak_live
  BY DEF table, counts
<1>2. TableInv' /\ Linked' = Linked
  BY <1>1, TableKept
<1>3. /\ pc'[t] = "cas" /\ seen'[t] = peak_live /\ peak_live \in Int /\ OthersStay(t)
  BY <1>1 DEF LargeInv, LargeType, OthersStay
<1>4. LargeType'
  BY <1>1, <1>3 DEF LargeInv, LargeType, Labels
<1>5. OwnInv'
  <2>1. Private(t)' = Private(t) /\ HeldLinked(t)' = HeldLinked(t)
    BY <1>1, <1>3 DEF Private, HeldLinked, Kept
  <2>2. ptr[t] \in Addresses
    BY DEF LargeInv, OwnInv, FrameOK
  <2> QED BY <1>1, <1>2, <1>3, <2>1, <2>2, SameHands
<1>6. PeakInv'
  <2>1. \/ peak_live >= live_requested
        \/ \E u \in Threads : pc'[u] \in {"peak", "cas"} /\ amount[u] >= live_requested
    BY <1>3 DEF LargeInv, PeakInv, OthersStay
  <2>2. seen'[t] <= peak_live
    BY <1>3
  <2> QED BY <1>1, <1>3, <2>1, <2>2 DEF LargeInv, PeakInv, OthersStay
<1> QED BY <1>2, <1>4, <1>5, <1>6 DEF LargeInv

\* The peak is settled: it is now at least what this thread made of the live
\* bytes, and no lower than it was.
LEMMA PeakSettled ==
    ASSUME LargeInv, NEW t \in Threads, pc[t] = "cas",
           ~(amount[t] > seen[t] /\ peak_live # seen[t]),
           peak_live' = IF amount[t] > seen[t] THEN amount[t] ELSE peak_live,
           live_requested' = live_requested, OthersStay(t), pc'[t] \in {"idle", "size"}
    PROVE  PeakInv' /\ peak_live' \in Int
<1>1. /\ amount[t] \in Int /\ seen[t] \in Int /\ peak_live \in Int /\ live_requested \in Int
      /\ seen[t] <= peak_live
      /\ \A u \in Threads : seen[u] \in Int /\ amount[u] \in Int
  BY DEF LargeInv, LargeType, PeakInv
<1>2. peak_live' \in Int /\ peak_live' >= amount[t] /\ peak_live' >= peak_live
  BY <1>1
<1>3. \/ peak_live' >= live_requested'
      \/ \E u \in Threads : pc'[u] \in {"peak", "cas"} /\ amount'[u] >= live_requested'
  <2>1. CASE peak_live >= live_requested
    BY <1>1, <1>2, <2>1
  <2>2. CASE \E u \in Threads : pc[u] \in {"peak", "cas"} /\ amount[u] >= live_requested
    <3>1. PICK u \in Threads : pc[u] \in {"peak", "cas"} /\ amount[u] >= live_requested
      BY <2>2
    <3>2. CASE u = t
      BY <1>1, <1>2, <3>1, <3>2
    <3>3. CASE u # t
      BY <3>1, <3>3 DEF OthersStay
    <3> QED BY <3>2, <3>3
  <2> QED BY <2>1, <2>2 DEF LargeInv, PeakInv
<1>4. \A u \in Threads :
         /\ pc'[u] = "cas" => seen'[u] <= peak_live'
         /\ pc'[u] \in {"mapped", "unwind", "count", "discount"} => amount'[u] \in Nat
  <2> SUFFICES ASSUME NEW u \in Threads, u # t
               PROVE  /\ pc'[u] = "cas" => seen'[u] <= peak_live'
                      /\ pc'[u] \in {"mapped", "unwind", "count", "discount"} => amount'[u] \in Nat
    OBVIOUS
  <2>1. pc[u] = "cas" => seen[u] <= peak_live
    BY DEF LargeInv, PeakInv
  <2> QED BY <1>1, <1>2, <2>1 DEF OthersStay, LargeInv, PeakInv
<1> QED BY <1>2, <1>3, <1>4 DEF PeakInv

\* The compare-and-swap of memx_heap_update_peak and what follows it.
LEMMA PeakCasInv ==
    ASSUME LargeInv, NEW t \in Threads, PeakCas(t)
    PROVE  LargeInv'
<1>1. /\ pc[t] = "cas" /\ mapped' = mapped /\ large_buckets' = large_buckets
      /\ large_count' = large_count /\ requested_size' = requested_size
      /\ live_requested' = live_requested /\ UNCHANGED table
  BY DEF PeakCas, table
<1>2. TableInv' /\ Linked' = Linked
  BY <1>1, TableKept
<1>3. CASE amount[t] > seen[t] /\ peak_live # seen[t]
  <2>1. /\ seen' = [seen EXCEPT ![t] = peak_live]
        /\ UNCHANGED <<program, pc, ptr, amount, other, peak_live>>
    BY <1>3 DEF PeakCas
  <2>2. pc' = [pc EXCEPT ![t] = "cas"]
    BY <1>1, <2>1 DEF LargeInv, LargeType
  <2>3. UNCHANGED <<mapped, table, counts, program, ptr, amount, other>>
    BY <1>1, <2>1 DEF counts
  <2> QED BY <1>1, <2>1, <2>2, <2>3, PeakSeen
<1>4. CASE ~(amount[t] > seen[t] /\ peak_live # seen[t])
  <2>1. peak_live' = (IF amount[t] > seen[t] THEN amount[t] ELSE peak_live) /\ Returned(t)
    BY <1>4 DEF PeakCas
  <2>2. CASE other[t] = NoAddress
    <3>1. program' = program \cup {ptr[t]} /\ Done(t)
      BY <2>1, <2>2 DEF Returned
    <3>2. OthersStay(t) /\ pc'[t] = "idle"
      BY <3>1, DoneFrame DEF OthersStay
    <3>3. OwnInv'
      BY <1>1, <1>2, <2>2, <3>1, HandedOver
    <3>4. PeakInv' /\ peak_live' \in Int
      BY <1>1, <1>4, <2>1, <3>2, PeakSettled
    <3>5. LargeType'
      BY <1>1, <3>1, <3>4, DoneFrame DEF LargeInv, LargeType
    <3> QED BY <1>2, <3>3, <3>4, <3>5 DEF LargeInv
  <2>3. CASE other[t] # NoAddress
    <3>1. /\ pc' = [pc EXCEPT ![t] = "size"] /\ ptr' = [ptr EXCEPT ![t] = other[t]]
          /\ other' = [other EXCEPT ![t] = ptr[t]] /\ amount' = [amount EXCEPT ![t] = 0]
          /\ seen' = [seen EXCEPT ![t] = 0] /\ program' = program
      BY <2>1, <2>3 DEF Returned, Goto
    <3>2. /\ pc'[t] = "size" /\ ptr'[t] = other[t] /\ other'[t] = ptr[t] /\ OthersStay(t)
      BY <3>1 DEF LargeInv, LargeType, OthersStay
    <3>3. ptr[t] \in Addresses /\ other[t] \in Addresses /\ NoAddress \notin Addresses
      BY <1>1, <2>3, LargeAssumption DEF LargeInv, LargeType, OwnInv, FrameOK
    <3>4. OwnInv'
      <4>1. Private(t)' = Private(t) /\ HeldLinked(t)' = HeldLinked(t)
        BY <1>1, <3>2, <3>3 DEF Private, HeldLinked, Kept
      <4> QED BY <1>1, <1>2, <3>1, <3>2, <3>3, <4>1, SameHands
    <3>5. PeakInv' /\ peak_live' \in Int
      BY <1>1, <1>4, <2>1, <3>2, PeakSettled
    <3>6. LargeType'
      BY <1>1, <3>1, <3>5 DEF LargeInv, LargeType, Labels
    <3> QED BY <1>2, <3>4, <3>5, <3>6 DEF LargeInv
  <2> QED BY <2>2, <2>3
<1> QED BY <1>3, <1>4

-----------------------------------------------------------------------------
(***************************************************************************)
(* Free.                                                                    *)
(***************************************************************************)
\* The pointer is passed to free.
LEMMA FreeInv ==
    ASSUME LargeInv, NEW t \in Threads, NEW a \in Addresses, Free(t, a)
    PROVE  LargeInv'
<1>1. /\ pc[t] = "idle" /\ a \in program /\ program' = program \ {a}
      /\ ptr' = [ptr EXCEPT ![t] = a] /\ pc' = [pc EXCEPT ![t] = "size"]
      /\ mapped' = mapped /\ large_buckets' = large_buckets /\ large_count' = large_count
      /\ requested_size' = requested_size
      /\ live_requested' = live_requested /\ peak_live' = peak_live
      /\ amount' = amount /\ other' = other /\ seen' = seen
  BY DEF Free, Goto, table, counts
<1>2. TableInv' /\ Linked' = Linked
  BY <1>1, TableKept
<1>3. pc'[t] = "size" /\ ptr'[t] = a /\ OthersStay(t)
  BY <1>1 DEF LargeInv, LargeType, OthersStay
<1>4. LargeType'
  BY <1>1 DEF LargeInv, LargeType, Labels
<1>5. OwnInv'
  BY <1>1, <1>2, <1>3, Taken
<1>6. PeakInv'
  BY <1>1, <1>3, <1>4, PeakStep DEF LargeInv, LargeType, OthersStay
<1> QED BY <1>2, <1>4, <1>5, <1>6 DEF LargeInv

\* A table with count records in it, with room for them, before it may shrink.
Shrinkable(buckets, count) ==
    /\ buckets \in Tables /\ Placed(buckets)
    /\ count \in Nat /\ count <= Len(buckets)
    /\ IsFiniteSet(Records(buckets)) /\ Cardinality(Records(buckets)) = count

\* Shrinking, or failing to, keeps the records and leaves room for them; the
\* table of no records is released.
LEMMA Shrunk ==
    ASSUME NEW buckets, NEW count, Shrinkable(buckets, count),
           NEW new \in memx_heap_large_shrink_locked(buckets, count)
    PROVE  /\ new \in Tables /\ Placed(new) /\ Records(new) = Records(buckets)
           /\ count <= Len(new)
           /\ count = 0 => Len(new) = 0
<1>1. /\ buckets \in Tables /\ Placed(buckets) /\ count \in Nat /\ count <= Len(buckets)
      /\ Len(buckets) \in Nat
  BY RecordsOf DEF Shrinkable
<1>2. CASE count = 0
  <2>1. Records(buckets) = {}
    BY <1>2, FS_EmptySet DEF Shrinkable
  <2>2. new = << >>
    BY <1>2 DEF memx_heap_large_shrink_locked
  <2> QED BY <1>2, <2>1, <2>2, NoTable
<1>3. CASE count # 0 /\ new = buckets
  BY <1>1, <1>3
<1>4. CASE count # 0 /\ new # buckets
  <2>1. /\ Len(buckets) > MinBuckets /\ count <= Len(buckets) \div 4
        /\ new = memx_heap_large_rehash_locked(buckets, Len(buckets) \div 2)
    BY <1>4 DEF memx_heap_large_shrink_locked
  <2>2. PICK half : half = Len(buckets) \div 2
    OBVIOUS
  <2>3. half \in Nat /\ half # 0 /\ count <= half
    BY <1>1, <1>4, <2>1, <2>2
  <2> QED BY <1>1, <1>4, <2>1, <2>2, <2>3, Rehashed
<1> QED BY <1>2, <1>3, <1>4

\* The record is unlinked: the search finds it, because every pointer a caller
\* passes in is linked.
LEMMA UnlinkInv ==
    ASSUME LargeInv, NEW t \in Threads, Unlink(t)
    PROVE  LargeInv'
<1>1. PICK a, b, rest : /\ a = ptr[t] /\ b = memx_heap_large_bucket(a, Len(large_buckets))
                        /\ rest = Without(large_buckets, b, a)
  OBVIOUS
<1>2. /\ pc[t] = "size" /\ mapped' = mapped /\ program' = program
      /\ live_requested' = live_requested /\ peak_live' = peak_live
  BY DEF Unlink, counts
<1>3. /\ FrameOK(t) /\ a \in Addresses /\ a \in Linked /\ a # NoAddress /\ a # other[t]
      /\ program \subseteq Linked /\ Linked \subseteq mapped
  BY <1>1, <1>2, LargeAssumption DEF LargeInv, OwnInv, FrameOK, HeldLinked
<1>4. /\ large_buckets \in Tables /\ Placed(large_buckets) /\ large_count \in Nat
      /\ IsFiniteSet(Linked) /\ Cardinality(Linked) = large_count
      /\ large_count <= Len(large_buckets) /\ Len(large_buckets) \in Nat
  BY RecordsOf DEF LargeInv, LargeType, TableInv
<1>5. memx_heap_find_large_locked(a)
  BY <1>3, <1>4, FoundInBucket DEF memx_heap_find_large_locked, large_bucket_count, Linked
<1>6. /\ large_buckets' \in memx_heap_large_shrink_locked(rest, large_count - 1)
      /\ large_count' = large_count - 1
      /\ pc' = [pc EXCEPT ![t] = "sub"]
      /\ requested_size' = requested_size /\ ptr' = ptr /\ amount' = amount
      /\ other' = other /\ seen' = seen
  BY <1>1, <1>5 DEF Unlink, Goto, large_bucket_count, Without
<1>7. /\ rest \in Tables /\ Len(rest) = Len(large_buckets) /\ Placed(rest)
      /\ Records(rest) = Linked \ {a}
  <2>1. a \in Records(large_buckets)
    BY <1>3 DEF Linked
  <2>2. Records(rest) = Records(large_buckets) \ {a} /\ rest \in Tables
        /\ Len(rest) = Len(large_buckets) /\ Placed(rest)
    BY <1>1, <1>4, <2>1, UnlinkedRecord
  <2> QED BY <2>2 DEF Linked
<1>8. /\ IsFiniteSet(Linked \ {a}) /\ Cardinality(Linked \ {a}) = large_count - 1
      /\ large_count - 1 \in Nat
  <2>1. IsFiniteSet(Linked \ {a}) /\ Cardinality(Linked \ {a}) = large_count - 1
    BY <1>3, <1>4, FS_RemoveElement
  <2>2. large_count # 0
    BY <1>3, <1>4, FS_EmptySet
  <2> QED BY <1>4, <2>1, <2>2
<1>9. Shrinkable(rest, large_count - 1)
  BY <1>4, <1>7, <1>8 DEF Shrinkable
<1>10. /\ large_buckets' \in Tables /\ Placed(large_buckets')
       /\ Records(large_buckets') = Linked \ {a}
       /\ large_count' <= Len(large_buckets') /\ (large_count' = 0 => Len(large_buckets') = 0)
  BY <1>6, <1>7, <1>9, Shrunk
<1>11. Linked' = Linked \ {a}
  BY <1>10 DEF Linked
<1>12. TableInv'
  BY <1>6, <1>8, <1>10, <1>11 DEF TableInv
<1>13. pc'[t] = "sub" /\ OthersStay(t)
  BY <1>6 DEF LargeInv, LargeType, OthersStay
<1>14. LargeType'
  BY <1>2, <1>6, <1>8, <1>10 DEF LargeInv, LargeType, Labels
<1>15. /\ Has(t)' = Has(t) /\ Has(t) = Kept(t) \cup {a} /\ a \notin Kept(t)
       /\ Private(t)' = {a} /\ HeldLinked(t)' = Kept(t) /\ Kept(t) \subseteq Linked
       /\ a \in Has(t)
  BY <1>1, <1>2, <1>3, <1>6, <1>13 DEF Has, Kept, Private, HeldLinked, FrameOK
<1>16. OnlyOwn(t)
  BY <1>2, <1>11, <1>13, <1>15 DEF OnlyOwn, OthersStay
<1>17. Settled(t)
  <2>1. Has(t) \cap program = {}
    BY <1>3 DEF FrameOK
  <2>2. Kept(t) \subseteq Linked' /\ program \subseteq Linked'
    BY <1>3, <1>11, <1>15, <2>1
  <2>3. FrameOK(t)'
    BY <1>1, <1>2, <1>3, <1>6, <1>11, <1>13, <1>15, <2>1, <2>2 DEF FrameOK
  <2> QED BY <1>2, <1>3, <1>11, <1>15, <2>2, <2>3 DEF Settled
<1>18. OwnInv'
  BY <1>16, <1>17, OwnStep
<1>19. PeakInv'
  BY <1>2, <1>6, <1>13, <1>14, PeakStep DEF LargeInv, LargeType, OthersStay
<1> QED BY <1>12, <1>14, <1>18, <1>19 DEF LargeInv

\* The size leaves the live bytes.
LEMMA SubLiveInv ==
    ASSUME LargeInv, NEW t \in Threads, SubLive(t)
    PROVE  LargeInv'
<1>1. /\ pc[t] = "sub" /\ live_requested' = live_requested - requested_size[ptr[t]]
      /\ pc' = [pc EXCEPT ![t] = "release"]
      /\ mapped' = mapped /\ program' = program /\ ptr' = ptr /\ other' = other
      /\ amount' = amount /\ seen' = seen
      /\ large_buckets' = large_buckets /\ large_count' = large_count
      /\ requested_size' = requested_size /\ peak_live' = peak_live
  BY DEF SubLive, Goto, table
<1>2. TableInv' /\ Linked' = Linked
  BY <1>1, TableKept
<1>3. /\ pc'[t] = "release" /\ ptr[t] \in Addresses /\ requested_size[ptr[t]] \in Nat
      /\ live_requested \in Int /\ OthersStay(t)
  BY <1>1 DEF LargeInv, LargeType, OthersStay, OwnInv, FrameOK
<1>4. LargeType' /\ live_requested' <= live_requested
  BY <1>1, <1>3 DEF LargeInv, LargeType, Labels
<1>5. OwnInv'
  <2>1. Private(t)' = Private(t) /\ HeldLinked(t)' = HeldLinked(t)
    BY <1>1, <1>3 DEF Private, HeldLinked, Kept
  <2> QED BY <1>1, <1>2, <1>3, <2>1, SameHands
<1>6. PeakInv'
  BY <1>1, <1>3, <1>4, PeakStep DEF OthersStay
<1> QED BY <1>2, <1>4, <1>5, <1>6 DEF LargeInv

\* The mapping and the record are released.
LEMMA ReleaseInv ==
    ASSUME LargeInv, NEW t \in Threads, Release(t)
    PROVE  LargeInv'
<1>1. /\ pc[t] = "release" /\ mapped' = mapped \ {ptr[t]} /\ program' = program \cup Kept(t)
      /\ Done(t) /\ large_buckets' = large_buckets /\ large_count' = large_count
      /\ requested_size' = [requested_size EXCEPT ![ptr[t]] = 0]
      /\ live_requested' = live_requested /\ peak_live' = peak_live
  BY DEF Release, counts
<1>2. TableInv' /\ Linked' = Linked
  BY <1>1, TableKept
<1>3. OwnInv'
  BY <1>1, <1>2, GivenBack
<1>4. LargeType'
  BY <1>1, DoneFrame DEF LargeInv, LargeType
<1>5. PeakInv'
  BY <1>1, <1>4, DoneFrame, PeakStep DEF LargeInv, LargeType
<1> QED BY <1>2, <1>3, <1>4, <1>5 DEF LargeInv

-----------------------------------------------------------------------------
(***************************************************************************)
(* Realloc in place, and destruction.                                       *)
(***************************************************************************)
\* The record takes the smaller size.
LEMMA ResizeInPlaceInv ==
    ASSUME LargeInv, NEW t \in Threads, NEW a \in Addresses, NEW size \in Sizes,
           ResizeInPlace(t, a, size)
    PROVE  LargeInv'
<1>1. /\ pc[t] = "idle" /\ a \in program /\ size <= requested_size[a]
      /\ requested_size' = [requested_size EXCEPT ![a] = size]
      /\ amount' = [amount EXCEPT ![t] = requested_size[a] - size]
      /\ ptr' = [ptr EXCEPT ![t] = a] /\ program' = program \ {a}
      /\ pc' = [pc EXCEPT ![t] = "discount"]
      /\ mapped' = mapped /\ large_buckets' = large_buckets /\ large_count' = large_count
      /\ live_requested' = live_requested /\ peak_live' = peak_live
      /\ other' = other /\ seen' = seen
  BY DEF ResizeInPlace, Goto, counts
<1>2. TableInv' /\ Linked' = Linked
  BY <1>1, TableKept
<1>3. /\ size \in Nat /\ requested_size[a] \in Nat /\ requested_size[a] - size \in Nat
  BY <1>1, LargeAssumption DEF LargeInv, LargeType
<1>4. /\ pc'[t] = "discount" /\ ptr'[t] = a /\ amount'[t] = requested_size[a] - size
      /\ OthersStay(t)
  BY <1>1 DEF LargeInv, LargeType, OthersStay
<1>5. LargeType'
  BY <1>1, <1>3 DEF LargeInv, LargeType, Labels
<1>6. OwnInv'
  BY <1>1, <1>2, <1>4, Taken
<1>7. PeakInv'
  BY <1>1, <1>3, <1>4, <1>5, PeakStep DEF LargeInv, LargeType, OthersStay
<1> QED BY <1>2, <1>5, <1>6, <1>7 DEF LargeInv

\* The difference leaves the live bytes, and the pointer is returned.
LEMMA DiscountInv ==
    ASSUME LargeInv, NEW t \in Threads, Discount(t)
    PROVE  LargeInv'
<1>1. /\ pc[t] = "discount" /\ live_requested' = live_requested - amount[t]
      /\ program' = program \cup {ptr[t]} /\ Done(t)
      /\ mapped' = mapped /\ large_buckets' = large_buckets /\ large_count' = large_count
      /\ requested_size' = requested_size /\ peak_live' = peak_live
  BY DEF Discount, table
<1>2. TableInv' /\ Linked' = Linked
  BY <1>1, TableKept
<1>3. other[t] = NoAddress /\ amount[t] \in Nat /\ live_requested \in Int
  BY <1>1 DEF LargeInv, LargeType, OwnInv, FrameOK, PeakInv
<1>4. OwnInv'
  BY <1>1, <1>2, <1>3, HandedOver
<1>5. LargeType' /\ live_requested' <= live_requested
  BY <1>1, <1>3, DoneFrame DEF LargeInv, LargeType
<1>6. PeakInv'
  BY <1>1, <1>5, DoneFrame, PeakStep
<1> QED BY <1>2, <1>4, <1>5, <1>6 DEF LargeInv

\* A heap no thread uses has nothing to itself.
LEMMA IdleHasNothing ==
    ASSUME LargeInv, AllIdle
    PROVE  /\ \A t \in Threads : Has(t) = {} /\ Private(t) = {} /\ HeldLinked(t) = {}
           /\ mapped = Linked /\ program = Linked
<1>1. \A t \in Threads : Has(t) = {} /\ Private(t) = {} /\ HeldLinked(t) = {}
  BY DEF AllIdle, LargeInv, OwnInv, FrameOK, Has, Private, HeldLinked, Kept
<1> QED BY <1>1 DEF LargeInv, OwnInv

\* Destruction finds every mapping through the table.
LEMMA DestroyInv ==
    ASSUME LargeInv, Destroy
    PROVE  LargeInv'
<1>1. /\ AllIdle /\ mapped' = mapped \ Linked /\ large_buckets' = << >> /\ large_count' = 0
      /\ requested_size' = [a \in Addresses |-> 0] /\ live_requested' = 0 /\ peak_live' = 0
      /\ program' = {} /\ pc' = pc /\ ptr' = ptr /\ amount' = amount /\ other' = other
      /\ seen' = seen
  BY DEF Destroy, frame, Linked
<1>2. /\ \A t \in Threads : Has(t) = {} /\ Private(t) = {} /\ HeldLinked(t) = {}
      /\ mapped' = {}
  BY <1>1, IdleHasNothing
<1>3. Linked' = {} /\ Placed(large_buckets') /\ large_buckets' \in Tables /\ Len(large_buckets') = 0
  BY <1>1, NoTable DEF Linked
<1>4. TableInv'
  BY <1>1, <1>3, FS_EmptySet DEF TableInv
<1>5. LargeType'
  BY <1>1, <1>2, <1>3 DEF LargeInv, LargeType
<1>6. \A t \in Threads : Has(t)' = {} /\ Private(t)' = {} /\ HeldLinked(t)' = {}
  BY <1>1, <1>2 DEF Has, Private, HeldLinked, Kept
<1>7. \A t \in Threads : FrameOK(t)'
  BY <1>1, <1>6 DEF FrameOK, AllIdle, LargeInv, OwnInv
<1>8. OwnInv'
  BY <1>1, <1>2, <1>3, <1>6, <1>7 DEF OwnInv
<1>9. PeakInv'
  BY <1>1 DEF PeakInv, AllIdle
<1> QED BY <1>4, <1>5, <1>8, <1>9 DEF LargeInv

-----------------------------------------------------------------------------
(***************************************************************************)
(* The invariant and what follows from it.                                  *)
(***************************************************************************)
LEMMA LargeInvInit == Init => LargeInv
<1> SUFFICES ASSUME Init PROVE LargeInv
  OBVIOUS
<1>1. Linked = {} /\ Placed(large_buckets) /\ large_buckets \in Tables /\ Len(large_buckets) = 0
  BY NoTable DEF Linked, Init
<1>2. LargeType
  BY <1>1 DEF Init, LargeType, Labels
<1>3. TableInv
  BY <1>1, FS_EmptySet DEF TableInv, Init
<1>4. \A t \in Threads : Has(t) = {} /\ Private(t) = {} /\ HeldLinked(t) = {}
                         /\ pc[t] = "idle" /\ ptr[t] = NoAddress /\ other[t] = NoAddress
  BY DEF Init, Has, Private, HeldLinked, Kept
<1>5. OwnInv
  BY <1>1, <1>4 DEF OwnInv, FrameOK, Init
<1>6. PeakInv
  BY <1>4 DEF PeakInv, Init
<1> QED BY <1>2, <1>3, <1>5, <1>6 DEF LargeInv

\* Steps that change nothing.
LEMMA LargeInvStays ==
    ASSUME LargeInv, UNCHANGED vars
    PROVE  LargeInv'
<1>1. /\ mapped' = mapped /\ requested_size' = requested_size /\ large_buckets' = large_buckets
      /\ large_count' = large_count /\ live_requested' = live_requested
      /\ peak_live' = peak_live /\ program' = program /\ pc' = pc /\ ptr' = ptr
      /\ amount' = amount /\ other' = other /\ seen' = seen
  BY DEF vars, table, counts, frame
<1>2. TableInv' /\ Linked' = Linked
  BY <1>1, TableKept
<1>3. LargeType' /\ PeakInv'
  BY <1>1 DEF LargeInv, LargeType, PeakInv
<1>4. \A t : Has(t)' = Has(t) /\ Private(t)' = Private(t) /\ HeldLinked(t)' = HeldLinked(t)
  BY <1>1 DEF Has, Private, HeldLinked, Kept
<1>5. \A t \in Threads : FrameOK(t)'
  BY <1>1, <1>2, <1>4 DEF FrameOK, LargeInv, OwnInv
<1>6. OwnInv'
  BY <1>1, <1>2, <1>4, <1>5 DEF LargeInv, OwnInv
<1> QED BY <1>2, <1>3, <1>6 DEF LargeInv

LEMMA LargeInvNext ==
    ASSUME LargeInv, [Next]_vars
    PROVE  LargeInv'
<1>1. CASE UNCHANGED vars
  BY <1>1, LargeInvStays
<1>2. CASE Destroy
  BY <1>2, DestroyInv
<1>3. ASSUME NEW t \in Threads, Call(t) PROVE LargeInv'
  <2>1. CASE \E a \in Addresses, size \in Sizes : Allocate(t, a, size)
    BY <2>1, MapInv
  <2>2. CASE AllocateFails(t)
    BY <2>2, LargeInvStays DEF AllocateFails
  <2>3. CASE \E a \in Addresses : Free(t, a)
    BY <2>3, FreeInv
  <2>4. CASE \E a \in Addresses : FreeUnknown(t, a)
    BY <2>4, LargeInvStays DEF FreeUnknown
  <2>5. CASE \E a \in Addresses, size \in Sizes : ResizeInPlace(t, a, size)
    BY <2>5, ResizeInPlaceInv
  <2>6. CASE \E a, new \in Addresses, size \in Sizes : Grow(t, a, new, size)
    BY <2>6, MapInv
  <2> QED BY <1>3, <2>1, <2>2, <2>3, <2>4, <2>5, <2>6 DEF Call
<1>4. ASSUME NEW t \in Threads, Step(t) PROVE LargeInv'
  <2>1. CASE PeakLoad(t)
    BY <2>1, PeakSeen DEF PeakLoad, Goto
  <2> QED BY <1>4, <2>1, PublishInv, PublishFailsInv, UnwindInv, AddLiveInv, PeakCasInv,
             UnlinkInv, SubLiveInv, ReleaseInv, DiscountInv DEF Step
<1> QED BY <1>1, <1>2, <1>3, <1>4 DEF Next

\* The table is in order: every record in the chain of its bucket, counted and
\* with room; every mapping and every record has exactly one owner; and the
\* peak covers the live bytes or is about to.  It holds for any number of
\* threads, any addresses, any hash and any minimal table size.
THEOREM LargeInvariant == Spec => []LargeInv
<1>1. LargeInv /\ [Next]_vars => LargeInv'
  BY LargeInvNext
<1> QED BY <1>1, LargeInvInit, PTL DEF Spec

\* Every allocation the program holds is found by its address through the one
\* chain memx_heap_find_large_locked searches, whatever growing, shrinking and
\* failing to do so the table went through; a record is in one chain only and
\* large_count counts them.
THEOREM LargeIndexFindsAll == Spec => []LargeIndexExact
<1>1. LargeInv => LargeIndexExact
  <2> SUFFICES ASSUME LargeInv PROVE LargeIndexExact
    OBVIOUS
  <2>1. /\ large_buckets \in Tables /\ Placed(large_buckets) /\ program \subseteq Linked
        /\ Cardinality(Linked) = large_count /\ large_count <= Len(large_buckets)
        /\ (large_count = 0 => Len(large_buckets) = 0)
    BY DEF LargeInv, LargeType, TableInv, OwnInv
  <2>2. \A a \in Linked : memx_heap_find_large_locked(a)
    BY <2>1, FoundInBucket DEF memx_heap_find_large_locked, large_bucket_count, Linked
  <2>3. \A b, c \in 1..Len(large_buckets) :
           b # c => large_buckets[b] \cap large_buckets[c] = {}
    BY <2>1, ChainsApart
  <2> QED BY <2>1, <2>2, <2>3 DEF LargeIndexExact, large_bucket_count
<1> QED BY <1>1, LargeInvariant, PTL

\* A mapping of memx_heap_allocate_large is released once, when nothing refers
\* to it any more: what is mapped is what the table holds and what threads hold
\* privately, and no two of them hold the same.
THEOREM LargeMappingsConserved == Spec => []MappingsConserved
<1>1. LargeInv => MappingsConserved
  <2> SUFFICES ASSUME LargeInv PROVE MappingsConserved
    OBVIOUS
  <2>1. \A t \in Threads : Private(t) \subseteq Has(t) /\ Private(t) \cap Linked = {}
    BY HasMapped DEF LargeInv, OwnInv, FrameOK
  <2>2. \A t, u \in Threads : t # u => Private(t) \cap Private(u) = {}
    BY <2>1 DEF LargeInv, OwnInv
  <2> QED BY <2>1, <2>2 DEF MappingsConserved, LargeInv, OwnInv
<1> QED BY <1>1, LargeInvariant, PTL

\* Whatever the order of the fetch_add, the loads and the compare-and-swaps of
\* memx_heap_update_peak, once no thread is in between the peak is at least the
\* live bytes.
THEOREM LargePeakCovers == Spec => []PeakCovers
<1>1. LargeInv => PeakCovers
  BY DEF LargeInv, PeakInv, PeakCovers
<1> QED BY <1>1, LargeInvariant, PTL

\* The snapshot of a quiescent heap counts exactly what the program holds, and
\* the table exists exactly while it holds something.
THEOREM LargeCountsProgram == Spec => []CountsProgram
<1>1. LargeInv => CountsProgram
  <2> SUFFICES ASSUME LargeInv, Quiescent PROVE CountsProgram
    BY DEF CountsProgram
  <2>1. program = Linked
    BY IdleHasNothing DEF Quiescent, AllIdle
  <2>2. /\ IsFiniteSet(Linked) /\ Cardinality(Linked) = large_count /\ large_count \in Nat
        /\ large_count <= Len(large_buckets) /\ (large_count = 0 => Len(large_buckets) = 0)
        /\ Len(large_buckets) \in Nat
    BY RecordsOf DEF LargeInv, LargeType, TableInv
  <2>3. Linked = {} <=> large_count = 0
    BY <2>2, FS_EmptySet
  <2>4. Len(large_buckets) = 0 <=> large_count = 0
    BY <2>2
  <2> QED BY <2>1, <2>2, <2>3, <2>4 DEF CountsProgram, memx_heap_get_stats, large_bucket_count
<1> QED BY <1>1, LargeInvariant, PTL

-----------------------------------------------------------------------------
(***************************************************************************)
(* The live bytes.                                                          *)
(***************************************************************************)
Owed == SumFunctionOnSet(Unaccounted, Threads)

\* The counter is the sum of the sizes in the table, up to what threads have
\* still to tell it; what a thread is about to add is the size it recorded.
LiveInv ==
    /\ live_requested = SumSizes(Linked) + Owed
    /\ \A t \in Threads : pc[t] = "count" => requested_size[ptr[t]] = amount[t]

\* What the sums are over.
LEMMA SumTerms ==
    ASSUME LargeInv
    PROVE  /\ \A t \in Threads : Unaccounted[t] \in Int
           /\ \A a \in Linked : a \in Addresses /\ requested_size[a] \in Nat
                                /\ requested_size[a] \in Int
           /\ SumSizes(Linked) \in Nat /\ Owed \in Int
           /\ IsFiniteSet(Linked)
<1>1. ASSUME NEW t \in Threads PROVE Unaccounted[t] \in Int
  <2>1. /\ amount[t] \in Int /\ requested_size \in [Addresses -> Nat]
        /\ pc[t] # "idle" => ptr[t] \in Addresses
    BY DEF LargeInv, LargeType, OwnInv, FrameOK
  <2> QED BY <2>1 DEF Unaccounted
<1>2. /\ \A a \in Linked : a \in Addresses /\ requested_size[a] \in Nat
                           /\ requested_size[a] \in Int
      /\ IsFiniteSet(Linked)
  BY RecordsOf DEF LargeInv, LargeType, TableInv, Linked
<1>3. SumSizes(Linked) \in Nat
  BY <1>2, SumNumbers DEF SumSizes
<1>4. Owed \in Int
  BY <1>1, SumNumbers, LargeAssumption DEF Owed
<1> QED BY <1>1, <1>2, <1>3, <1>4

\* A step of thread t keeps the sum if it changes the counter by as much as the
\* table and what it owes, and no size of a record another thread has.
LEMMA LiveStep ==
    ASSUME LargeInv, LiveInv, LargeInv', NEW t \in Threads, OthersStay(t),
           \A a \in Addresses : a \notin Has(t) \cup program =>
               requested_size'[a] = requested_size[a],
           NEW d \in Int, SumSizes(Linked)' = SumSizes(Linked) + d,
           live_requested' = live_requested + d + Unaccounted'[t] - Unaccounted[t],
           pc'[t] = "count" => requested_size'[ptr'[t]] = amount'[t]
    PROVE  LiveInv'
<1>1. ASSUME NEW u \in Threads \ {t}
      PROVE  /\ Unaccounted'[u] = Unaccounted[u]
             /\ pc'[u] = "count" => requested_size'[ptr'[u]] = amount'[u]
  <2>1. pc'[u] = pc[u] /\ ptr'[u] = ptr[u] /\ amount'[u] = amount[u]
    BY DEF OthersStay
  <2>2. pc[u] # "idle" => ptr[u] \in Addresses /\ ptr[u] \in Has(u)
    BY LargeAssumption DEF LargeInv, OwnInv, FrameOK, Has
  <2>3. Has(u) \cap Has(t) = {} /\ Has(u) \cap program = {}
    BY DEF LargeInv, OwnInv, FrameOK
  <2>4. pc[u] # "idle" => requested_size'[ptr[u]] = requested_size[ptr[u]]
    BY <2>2, <2>3
  <2>5. pc[u] = "count" => requested_size[ptr[u]] = amount[u]
    BY DEF LiveInv
  <2>6. Unaccounted'[u] = Unaccounted[u]
    BY <2>1, <2>4 DEF Unaccounted
  <2> QED BY <2>1, <2>4, <2>5, <2>6
<1>2. /\ \A u \in Threads : Unaccounted[u] \in Int /\ Unaccounted'[u] \in Int
      /\ SumSizes(Linked) \in Int /\ Owed \in Int
  <2>1. ASSUME NEW u \in Threads PROVE Unaccounted'[u] \in Int
    <3>1. /\ amount'[u] \in Int /\ requested_size' \in [Addresses -> Nat]
          /\ pc'[u] # "idle" => ptr'[u] \in Addresses
      BY DEF LargeInv, LargeType, OwnInv, FrameOK
    <3> QED BY <3>1 DEF Unaccounted
  <2> QED BY <2>1, SumTerms
<1>3. Owed' = Owed - Unaccounted[t] + Unaccounted'[t]
  BY <1>1, <1>2, SumChange, LargeAssumption DEF Owed
<1>4. live_requested = SumSizes(Linked) + Owed
  BY DEF LiveInv
<1>5. PICK a, b, c, e : a = SumSizes(Linked) /\ b = Owed /\ c = Unaccounted[t] /\ e = Unaccounted'[t]
  OBVIOUS
<1>6. (a + b) + d + e - c = (a + d) + (b - c + e)
  BY <1>2, <1>5
<1>7. live_requested' = SumSizes(Linked)' + Owed'
  BY <1>3, <1>4, <1>5, <1>6
<1> QED BY <1>1, <1>7 DEF LiveInv

\* Nothing that is summed changes.
LEMMA LiveQuiet ==
    ASSUME LargeInv, LiveInv, LargeInv', NEW t \in Threads, OthersStay(t),
           large_buckets' = large_buckets, requested_size' = requested_size,
           pc[t] \notin {"count", "sub", "discount"}, pc'[t] \notin {"count", "sub", "discount"},
           live_requested' = live_requested
    PROVE  LiveInv'
<1>1. Linked' = Linked /\ SumSizes(Linked)' = SumSizes(Linked)
  BY DEF Linked, SumSizes
<1>2. Unaccounted[t] = 0 /\ Unaccounted'[t] = 0
  BY DEF Unaccounted
<1>3. SumSizes(Linked) \in Int /\ live_requested \in Int
  BY SumTerms DEF LargeInv, LargeType
<1>4. SumSizes(Linked)' = SumSizes(Linked) + 0
      /\ live_requested' = live_requested + 0 + Unaccounted'[t] - Unaccounted[t]
  BY <1>1, <1>2, <1>3
<1>5. 0 \in Int
  OBVIOUS
<1> QED BY <1>4, <1>5, LiveStep

\* Only the counter and what the thread owes change.
LEMMA LiveTold ==
    ASSUME LargeInv, LiveInv, LargeInv', NEW t \in Threads, OthersStay(t),
           large_buckets' = large_buckets, requested_size' = requested_size,
           pc'[t] \notin {"count", "sub", "discount"},
           live_requested' = live_requested - Unaccounted[t]
    PROVE  LiveInv'
<1>1. Linked' = Linked /\ SumSizes(Linked)' = SumSizes(Linked)
  BY DEF Linked, SumSizes
<1>2. Unaccounted'[t] = 0 /\ Unaccounted[t] \in Int
  BY SumTerms DEF Unaccounted
<1>3. SumSizes(Linked) \in Int /\ live_requested \in Int
  BY SumTerms DEF LargeInv, LargeType
<1>4. SumSizes(Linked)' = SumSizes(Linked) + 0
      /\ live_requested' = live_requested + 0 + Unaccounted'[t] - Unaccounted[t]
  BY <1>1, <1>2, <1>3
<1>5. 0 \in Int
  OBVIOUS
<1> QED BY <1>4, <1>5, LiveStep

\* The call ends: the thread owes nothing.
LEMMA DoneStays ==
    ASSUME LargeInv, NEW t \in Threads, Done(t)
    PROVE  OthersStay(t) /\ pc'[t] = "idle"
BY DoneFrame DEF OthersStay

\* A mapping is made, or a free begins.
LEMMA MapLive ==
    ASSUME LargeInv, LiveInv, LargeInv', NEW t \in Threads, NEW a \in Addresses,
           NEW size \in Sizes,
           \/ Allocate(t, a, size)
           \/ \E old \in Addresses : Grow(t, old, a, size)
    PROVE  LiveInv'
<1>1. PICK old : /\ pc[t] = "idle" /\ pc' = [pc EXCEPT ![t] = "mapped"]
                 /\ ptr' = [ptr EXCEPT ![t] = a] /\ amount' = [amount EXCEPT ![t] = size]
                 /\ seen' = seen /\ large_buckets' = large_buckets
                 /\ requested_size' = requested_size /\ live_requested' = live_requested
                 /\ other' = other \/ other' = [other EXCEPT ![t] = old]
  <2>1. CASE Allocate(t, a, size)
    BY <2>1 DEF Allocate, MapLarge, Goto, table, counts
  <2>2. CASE \E old \in Addresses : Grow(t, old, a, size)
    BY <2>2 DEF Grow, MapLarge, Goto, table, counts
  <2> QED BY <2>1, <2>2
<1>2. OthersStay(t) /\ pc'[t] = "mapped"
  BY <1>1 DEF OthersStay, LargeInv, LargeType
<1> QED BY <1>1, <1>2, LiveQuiet

LEMMA FreeLive ==
    ASSUME LargeInv, LiveInv, LargeInv', NEW t \in Threads, NEW a \in Addresses, Free(t, a)
    PROVE  LiveInv'
<1>1. /\ pc[t] = "idle" /\ pc' = [pc EXCEPT ![t] = "size"] /\ ptr' = [ptr EXCEPT ![t] = a]
      /\ amount' = amount /\ other' = other /\ seen' = seen /\ large_buckets' = large_buckets
      /\ requested_size' = requested_size /\ live_requested' = live_requested
  BY DEF Free, Goto, table, counts
<1>2. OthersStay(t) /\ pc'[t] = "size"
  BY <1>1 DEF OthersStay, LargeInv, LargeType
<1> QED BY <1>1, <1>2, LiveQuiet

\* Steps of an allocation that neither record nor count.
LEMMA QuietLive ==
    ASSUME LargeInv, LiveInv, LargeInv', NEW t \in Threads,
           PublishFails(t) \/ Unwind(t) \/ PeakLoad(t)
    PROVE  LiveInv'
<1>1. CASE PublishFails(t)
  <2>1. /\ pc[t] = "mapped" /\ pc' = [pc EXCEPT ![t] = "unwind"] /\ ptr' = ptr
        /\ amount' = amount /\ other' = other /\ seen' = seen /\ large_buckets' = large_buckets
        /\ requested_size' = requested_size /\ live_requested' = live_requested
    BY <1>1 DEF PublishFails, Goto, table, counts
  <2>2. OthersStay(t) /\ pc'[t] = "unwind"
    BY <2>1 DEF OthersStay, LargeInv, LargeType
  <2> QED BY <2>1, <2>2, LiveQuiet
<1>2. CASE Unwind(t)
  <2>1. /\ pc[t] = "unwind" /\ Done(t) /\ large_buckets' = large_buckets
        /\ requested_size' = requested_size /\ live_requested' = live_requested
    BY <1>2 DEF Unwind, table, counts
  <2>2. OthersStay(t) /\ pc'[t] = "idle"
    BY <2>1, DoneStays
  <2> QED BY <2>1, <2>2, LiveQuiet
<1>3. CASE PeakLoad(t)
  <2>1. /\ pc[t] = "peak" /\ pc' = [pc EXCEPT ![t] = "cas"] /\ ptr' = ptr
        /\ amount' = amount /\ other' = other /\ seen' = [seen EXCEPT ![t] = peak_live]
        /\ large_buckets' = large_buckets
        /\ requested_size' = requested_size /\ live_requested' = live_requested
    BY <1>3 DEF PeakLoad, Goto, table, counts
  <2>2. OthersStay(t) /\ pc'[t] = "cas"
    BY <2>1 DEF OthersStay, LargeInv, LargeType
  <2> QED BY <2>1, <2>2, LiveQuiet
<1> QED BY <1>1, <1>2, <1>3

LEMMA PeakCasLive ==
    ASSUME LargeInv, LiveInv, LargeInv', NEW t \in Threads, PeakCas(t)
    PROVE  LiveInv'
<1>1. /\ pc[t] = "cas" /\ large_buckets' = large_buckets
      /\ requested_size' = requested_size /\ live_requested' = live_requested
  BY DEF PeakCas, table
<1>2. CASE amount[t] > seen[t] /\ peak_live # seen[t]
  <2>1. /\ seen' = [seen EXCEPT ![t] = peak_live] /\ pc' = pc /\ ptr' = ptr
        /\ amount' = amount /\ other' = other
    BY <1>2 DEF PeakCas
  <2>2. OthersStay(t) /\ pc'[t] = "cas"
    BY <1>1, <2>1 DEF OthersStay, LargeInv, LargeType
  <2> QED BY <1>1, <2>2, LiveQuiet
<1>3. CASE ~(amount[t] > seen[t] /\ peak_live # seen[t])
  <2>1. Returned(t)
    BY <1>3 DEF PeakCas
  <2>2. OthersStay(t) /\ pc'[t] \in {"idle", "size"}
    <3>1. CASE other[t] = NoAddress
      BY <2>1, <3>1, DoneStays DEF Returned
    <3>2. CASE other[t] # NoAddress
      <4>1. /\ pc' = [pc EXCEPT ![t] = "size"] /\ ptr' = [ptr EXCEPT ![t] = other[t]]
            /\ other' = [other EXCEPT ![t] = ptr[t]] /\ amount' = [amount EXCEPT ![t] = 0]
            /\ seen' = [seen EXCEPT ![t] = 0]
        BY <2>1, <3>2 DEF Returned, Goto
      <4> QED BY <4>1 DEF OthersStay, LargeInv, LargeType
    <3> QED BY <3>1, <3>2
  <2> QED BY <1>1, <2>2, LiveQuiet
<1> QED BY <1>2, <1>3

\* The counter is told.
LEMMA ToldLive ==
    ASSUME LargeInv, LiveInv, LargeInv', NEW t \in Threads,
           AddLive(t) \/ SubLive(t) \/ Discount(t)
    PROVE  LiveInv'
<1>1. amount[t] \in Int /\ live_requested \in Int
  BY DEF LargeInv, LargeType
<1>2. CASE AddLive(t)
  <2>1. /\ pc[t] = "count" /\ pc' = [pc EXCEPT ![t] = "peak"] /\ ptr' = ptr
        /\ amount' = [amount EXCEPT ![t] = live_requested + amount[t]]
        /\ other' = other /\ seen' = seen /\ large_buckets' = large_buckets
        /\ requested_size' = requested_size /\ live_requested' = live_requested + amount[t]
    BY <1>2 DEF AddLive, Goto, table
  <2>2. OthersStay(t) /\ pc'[t] = "peak"
    BY <2>1 DEF OthersStay, LargeInv, LargeType
  <2>3. Unaccounted[t] = -amount[t]
    BY <2>1 DEF Unaccounted
  <2>4. live_requested' = live_requested - Unaccounted[t]
    BY <1>1, <2>1, <2>3
  <2> QED BY <2>1, <2>2, <2>4, LiveTold
<1>3. CASE SubLive(t)
  <2>1. /\ pc[t] = "sub" /\ pc' = [pc EXCEPT ![t] = "release"] /\ ptr' = ptr
        /\ amount' = amount /\ other' = other /\ seen' = seen /\ large_buckets' = large_buckets
        /\ requested_size' = requested_size
        /\ live_requested' = live_requested - requested_size[ptr[t]]
    BY <1>3 DEF SubLive, Goto, table
  <2>2. OthersStay(t) /\ pc'[t] = "release"
    BY <2>1 DEF OthersStay, LargeInv, LargeType
  <2>3. Unaccounted[t] = requested_size[ptr[t]]
    BY <2>1 DEF Unaccounted
  <2> QED BY <2>1, <2>2, <2>3, LiveTold
<1>4. CASE Discount(t)
  <2>1. /\ pc[t] = "discount" /\ Done(t) /\ large_buckets' = large_buckets
        /\ requested_size' = requested_size /\ live_requested' = live_requested - amount[t]
    BY <1>4 DEF Discount, table
  <2>2. OthersStay(t) /\ pc'[t] = "idle"
    BY <2>1, DoneStays
  <2>3. Unaccounted[t] = amount[t]
    BY <2>1 DEF Unaccounted
  <2> QED BY <2>1, <2>2, <2>3, LiveTold
<1> QED BY <1>2, <1>3, <1>4

\* The record is in the table with its size, which the counter has not seen.
LEMMA PublishLive ==
    ASSUME LargeInv, LiveInv, LargeInv', NEW t \in Threads, Publish(t)
    PROVE  LiveInv'
<1>1. PICK a, room : a = ptr[t] /\ room = memx_heap_large_reserve_locked
  OBVIOUS
<1>2. /\ pc[t] = "mapped" /\ large_buckets' = Pushed(room, a)
      /\ requested_size' = [requested_size EXCEPT ![a] = amount[t]]
      /\ pc' = [pc EXCEPT ![t] = "count"] /\ live_requested' = live_requested
      /\ ptr' = ptr /\ amount' = amount /\ other' = other /\ seen' = seen
  BY <1>1 DEF Publish, Goto, counts
<1>3. room \in Tables /\ Placed(room) /\ Records(room) = Linked /\ Len(room) # 0
  <2>1. Len(room) \in Nat /\ large_count < Len(room) /\ large_count \in Nat
    BY <1>1, Reserved DEF LargeInv, LargeType
  <2> QED BY <1>1, <2>1, Reserved
<1>4. a \in Addresses /\ a \notin Linked /\ a \in Has(t) /\ amount[t] \in Nat
  BY <1>1, <1>2, LargeAssumption DEF LargeInv, OwnInv, FrameOK, Private, PeakInv, Has
<1>5. Linked' = Linked \cup {a}
  BY <1>2, <1>3, <1>4, PushedRecord DEF Linked
<1>6. OthersStay(t) /\ pc'[t] = "count"
  BY <1>2 DEF OthersStay, LargeInv, LargeType
<1>7. /\ requested_size'[a] = amount[t]
      /\ \A x \in Addresses : x # a => requested_size'[x] = requested_size[x]
  BY <1>2, <1>4 DEF LargeInv, LargeType
<1>8. SumSizes(Linked)' = SumSizes(Linked) + amount[t]
  <2>1. \A x \in Linked : requested_size'[x] = requested_size[x] /\ requested_size[x] \in Int
    BY <1>4, <1>7, SumTerms
  <2>2. IsFiniteSet(Linked) /\ SumSizes(Linked) \in Int
    BY SumTerms
  <2>3. SumFunctionOnSet(requested_size', Linked) = SumFunctionOnSet(requested_size, Linked)
    BY <2>1, <2>2, SumSame
  <2>4. \A x \in Linked \cup {a} : requested_size'[x] \in Int
    BY <1>4, <1>7, <2>1
  <2>5. SumFunctionOnSet(requested_size', Linked \cup {a})
          = requested_size'[a] + SumFunctionOnSet(requested_size', Linked)
    BY <1>4, <2>2, <2>4, SumAdd
  <2>6. SumSizes(Linked)' = amount[t] + SumSizes(Linked)
    BY <1>5, <1>7, <2>3, <2>5 DEF SumSizes
  <2> QED BY <1>4, <2>2, <2>6
<1>9. Unaccounted[t] = 0 /\ Unaccounted'[t] = -amount[t]
  BY <1>2, <1>6 DEF Unaccounted
<1>10. live_requested' = live_requested + amount[t] + Unaccounted'[t] - Unaccounted[t]
  <2>1. live_requested \in Int
    BY DEF LargeInv, LargeType
  <2> QED BY <1>2, <1>4, <1>9, <2>1
<1>11. requested_size'[ptr'[t]] = amount'[t] /\ amount[t] \in Int
  BY <1>1, <1>2, <1>4, <1>7
<1>12. \A x \in Addresses : x \notin Has(t) \cup program => requested_size'[x] = requested_size[x]
  BY <1>4, <1>7
<1> QED BY <1>6, <1>8, <1>10, <1>11, <1>12, LiveStep

\* The record has left the table, and the counter has not seen that.
LEMMA UnlinkLive ==
    ASSUME LargeInv, LiveInv, LargeInv', NEW t \in Threads, Unlink(t)
    PROVE  LiveInv'
<1>1. PICK a, b, rest : /\ a = ptr[t] /\ b = memx_heap_large_bucket(a, Len(large_buckets))
                        /\ rest = Without(large_buckets, b, a)
  OBVIOUS
<1>2. a \in Linked /\ pc[t] = "size"
  BY <1>1 DEF Unlink, LargeInv, OwnInv, FrameOK, HeldLinked
<1>3. memx_heap_find_large_locked(a)
  BY <1>2, FoundInBucket DEF LargeInv, LargeType, TableInv, Linked, memx_heap_find_large_locked,
     large_bucket_count
<1>4. /\ large_buckets' \in memx_heap_large_shrink_locked(rest, large_count - 1)
      /\ pc' = [pc EXCEPT ![t] = "sub"] /\ ptr' = ptr /\ amount' = amount /\ other' = other
      /\ seen' = seen /\ requested_size' = requested_size /\ live_requested' = live_requested
  BY <1>1, <1>3 DEF Unlink, Goto, counts, large_bucket_count, Without
<1>5. Linked' = Linked \ {a}
  <2>1. /\ rest \in Tables /\ Placed(rest) /\ Records(rest) = Linked \ {a}
        /\ Len(rest) = Len(large_buckets)
    BY <1>1, <1>2, UnlinkedRecord DEF LargeInv, LargeType, TableInv, Linked
  <2>2. Shrinkable(rest, large_count - 1)
    <3>1. IsFiniteSet(Linked) /\ Cardinality(Linked) = large_count /\ large_count \in Nat
          /\ large_count <= Len(large_buckets) /\ large_count # 0
      BY <1>2, FS_EmptySet DEF LargeInv, LargeType, TableInv
    <3>2. IsFiniteSet(Linked \ {a}) /\ Cardinality(Linked \ {a}) = large_count - 1
      BY <1>2, <3>1, FS_RemoveElement
    <3> QED BY <2>1, <3>1, <3>2, RecordsOf DEF Shrinkable
  <2>3. Records(large_buckets') = Records(rest)
    BY <1>4, <2>2, Shrunk
  <2> QED BY <2>1, <2>3 DEF Linked
<1>6. OthersStay(t) /\ pc'[t] = "sub"
  BY <1>4 DEF OthersStay, LargeInv, LargeType
<1>7. PICK r : r = requested_size[a]
  OBVIOUS
<1>8. r \in Int /\ -r \in Int /\ SumSizes(Linked) \in Int /\ live_requested \in Int
  BY <1>2, <1>7, SumTerms DEF LargeInv, LargeType
<1>9. SumSizes(Linked)' = SumSizes(Linked) + (-r)
  <2>1. SumFunctionOnSet(requested_size, Linked)
          = requested_size[a] + SumFunctionOnSet(requested_size, Linked \ {a})
    BY <1>2, SumTerms, SumTake
  <2>2. SumFunctionOnSet(requested_size, Linked \ {a}) \in Int
    <3>1. IsFiniteSet(Linked \ {a}) /\ \A x \in Linked \ {a} : requested_size[x] \in Int
      BY SumTerms, FS_Subset
    <3> QED BY <3>1, SumNumbers
  <2>3. PICK p, q : p = SumFunctionOnSet(requested_size, Linked \ {a}) /\ q = SumSizes(Linked)
    OBVIOUS
  <2>4. p \in Int /\ q \in Int /\ q = r + p
    BY <1>7, <1>8, <2>1, <2>2, <2>3 DEF SumSizes
  <2>5. SumSizes(Linked)' = p
    BY <1>4, <1>5, <2>3 DEF SumSizes
  <2> QED BY <1>8, <2>3, <2>4, <2>5
<1>10. Unaccounted[t] = 0 /\ Unaccounted'[t] = r
  BY <1>1, <1>2, <1>4, <1>6, <1>7 DEF Unaccounted
<1>11. live_requested' = live_requested + (-r) + Unaccounted'[t] - Unaccounted[t]
  BY <1>4, <1>8, <1>10
<1> QED BY <1>4, <1>6, <1>8, <1>9, <1>11, LiveStep

\* The record goes: it was not in the table any more.
LEMMA ReleaseLive ==
    ASSUME LargeInv, LiveInv, LargeInv', NEW t \in Threads, Release(t)
    PROVE  LiveInv'
<1>1. PICK a : a = ptr[t]
  OBVIOUS
<1>2. /\ pc[t] = "release" /\ Done(t) /\ large_buckets' = large_buckets
      /\ requested_size' = [requested_size EXCEPT ![a] = 0] /\ live_requested' = live_requested
  BY <1>1 DEF Release, counts
<1>3. a \in Addresses /\ a \notin Linked /\ a \in Has(t)
  BY <1>1, <1>2, LargeAssumption DEF LargeInv, OwnInv, FrameOK, Private, Has
<1>4. OthersStay(t) /\ pc'[t] = "idle"
  BY <1>2, DoneStays
<1>5. \A x \in Addresses : x # a => requested_size'[x] = requested_size[x]
  BY <1>2, <1>3 DEF LargeInv, LargeType
<1>6. SumSizes(Linked)' = SumSizes(Linked)
  <2>1. \A x \in Linked : requested_size'[x] = requested_size[x]
    BY <1>3, <1>5, SumTerms
  <2>2. SumFunctionOnSet(requested_size', Linked) = SumFunctionOnSet(requested_size, Linked)
    BY <2>1, SumTerms, SumSame
  <2> QED BY <1>2, <2>2 DEF SumSizes, Linked
<1>7. Unaccounted[t] = 0 /\ Unaccounted'[t] = 0
  BY <1>2, <1>4 DEF Unaccounted
<1>8. SumSizes(Linked) \in Int /\ live_requested \in Int
  BY SumTerms DEF LargeInv, LargeType
<1>9. /\ SumSizes(Linked)' = SumSizes(Linked) + 0 /\ 0 \in Int
      /\ live_requested' = live_requested + 0 + Unaccounted'[t] - Unaccounted[t]
  BY <1>2, <1>6, <1>7, <1>8
<1>10. \A x \in Addresses : x \notin Has(t) \cup program => requested_size'[x] = requested_size[x]
  BY <1>3, <1>5
<1> QED BY <1>4, <1>9, <1>10, LiveStep

\* The record shrinks in place; the difference is still to be discounted.
LEMMA ResizeLive ==
    ASSUME LargeInv, LiveInv, LargeInv', NEW t \in Threads, NEW a \in Addresses,
           NEW size \in Sizes, ResizeInPlace(t, a, size)
    PROVE  LiveInv'
<1>1. PICK r : r = requested_size[a]
  OBVIOUS
<1>2. /\ pc[t] = "idle" /\ a \in program /\ pc' = [pc EXCEPT ![t] = "discount"]
      /\ requested_size' = [requested_size EXCEPT ![a] = size]
      /\ amount' = [amount EXCEPT ![t] = r - size] /\ ptr' = [ptr EXCEPT ![t] = a]
      /\ other' = other /\ seen' = seen /\ large_buckets' = large_buckets
      /\ live_requested' = live_requested
  BY <1>1 DEF ResizeInPlace, Goto, counts
<1>3. a \in Linked /\ size \in Nat /\ r \in Nat
  BY <1>1, <1>2, LargeAssumption DEF LargeInv, LargeType, OwnInv
<1>4. OthersStay(t) /\ pc'[t] = "discount" /\ amount'[t] = r - size
  BY <1>2 DEF OthersStay, LargeInv, LargeType
<1>5. /\ requested_size'[a] = size
      /\ \A x \in Addresses : x # a => requested_size'[x] = requested_size[x]
  BY <1>2, <1>3 DEF LargeInv, LargeType
<1>6. SumSizes(Linked) \in Int /\ live_requested \in Int
  BY SumTerms DEF LargeInv, LargeType
<1>7. SumSizes(Linked)' = SumSizes(Linked) + (size - r)
  <2>1. \A x \in Linked : requested_size[x] \in Int /\ requested_size'[x] \in Int
    BY <1>3, <1>5, SumTerms
  <2>2. \A x \in Linked \ {a} : requested_size[x] = requested_size'[x]
    BY <1>5, SumTerms
  <2>3. SumFunctionOnSet(requested_size', Linked)
          = SumFunctionOnSet(requested_size, Linked) - requested_size[a] + requested_size'[a]
    BY <1>3, <2>1, <2>2, SumTerms, SumChange
  <2>4. SumSizes(Linked)' = SumSizes(Linked) - r + size
    BY <1>1, <1>2, <1>5, <2>3 DEF SumSizes, Linked
  <2> QED BY <1>3, <1>6, <2>4
<1>8. Unaccounted[t] = 0 /\ Unaccounted'[t] = r - size
  BY <1>2, <1>4 DEF Unaccounted
<1>9. live_requested' = live_requested + (size - r) + Unaccounted'[t] - Unaccounted[t]
      /\ size - r \in Int
  BY <1>2, <1>3, <1>6, <1>8
<1>10. \A x \in Addresses : x \notin Has(t) \cup program => requested_size'[x] = requested_size[x]
  BY <1>2, <1>5
<1> QED BY <1>4, <1>7, <1>9, <1>10, LiveStep

\* Destroying the heap, and starting.
LEMMA NothingOwed ==
    ASSUME \A t \in Threads : pc[t] = "idle"
    PROVE  Owed = 0
<1>1. \A t \in Threads : Unaccounted[t] = 0
  BY DEF Unaccounted
<1> QED BY <1>1, SumZero, LargeAssumption DEF Owed

LEMMA DestroyLive ==
    ASSUME LargeInv, LiveInv, Destroy
    PROVE  LiveInv'
<1>1. /\ \A t \in Threads : pc'[t] = "idle"
      /\ large_buckets' = << >> /\ live_requested' = 0
  BY DEF Destroy, AllIdle, frame
<1>2. \A t \in Threads : Unaccounted'[t] = 0
  BY <1>1 DEF Unaccounted
<1>3. Owed' = 0
  BY <1>2, SumZero, LargeAssumption DEF Owed
<1>4. Linked' = {}
  BY <1>1, NoTable DEF Linked
<1>5. SumSizes(Linked)' = 0
  BY <1>4, SumEmpty DEF SumSizes
<1> QED BY <1>1, <1>3, <1>5 DEF LiveInv

LEMMA LiveInit == Init => LiveInv
<1> SUFFICES ASSUME Init PROVE LiveInv
  OBVIOUS
<1>1. \A t \in Threads : pc[t] = "idle"
  BY DEF Init
<1>2. Linked = {} /\ live_requested = 0
  BY NoTable DEF Linked, Init
<1>3. SumSizes(Linked) = 0
  BY <1>2, SumEmpty DEF SumSizes
<1> QED BY <1>1, <1>2, <1>3, NothingOwed DEF LiveInv

LEMMA LiveStays ==
    ASSUME LargeInv, LiveInv, UNCHANGED vars
    PROVE  LiveInv'
<1>1. /\ requested_size' = requested_size /\ large_buckets' = large_buckets
      /\ live_requested' = live_requested /\ pc' = pc /\ ptr' = ptr /\ amount' = amount
  BY DEF vars, table, counts, frame
<1>2. Linked' = Linked /\ SumSizes(Linked)' = SumSizes(Linked) /\ Owed' = Owed
  BY <1>1 DEF Linked, SumSizes, Owed, Unaccounted
<1> QED BY <1>1, <1>2 DEF LiveInv

LEMMA LiveInvNext ==
    ASSUME LargeInv, LiveInv, [Next]_vars
    PROVE  LiveInv'
<1>1. LargeInv'
  BY LargeInvNext
<1>2. CASE UNCHANGED vars
  BY <1>2, LiveStays
<1>3. CASE Destroy
  BY <1>3, DestroyLive
<1>4. ASSUME NEW t \in Threads, Call(t) PROVE LiveInv'
  <2>1. CASE \E a \in Addresses, size \in Sizes : Allocate(t, a, size)
    BY <1>1, <2>1, MapLive
  <2>2. CASE AllocateFails(t)
    BY <2>2, LiveStays DEF AllocateFails
  <2>3. CASE \E a \in Addresses : Free(t, a)
    BY <1>1, <2>3, FreeLive
  <2>4. CASE \E a \in Addresses : FreeUnknown(t, a)
    BY <2>4, LiveStays DEF FreeUnknown
  <2>5. CASE \E a \in Addresses, size \in Sizes : ResizeInPlace(t, a, size)
    BY <1>1, <2>5, ResizeLive
  <2>6. CASE \E a, new \in Addresses, size \in Sizes : Grow(t, a, new, size)
    BY <1>1, <2>6, MapLive
  <2> QED BY <1>4, <2>1, <2>2, <2>3, <2>4, <2>5, <2>6 DEF Call
<1>5. ASSUME NEW t \in Threads, Step(t) PROVE LiveInv'
  BY <1>1, <1>5, PublishLive, QuietLive, PeakCasLive, ToldLive, UnlinkLive, ReleaseLive DEF Step
<1> QED BY <1>2, <1>3, <1>4, <1>5 DEF Next

\* What threads owe is negative only for records that are in the table, each of
\* them owed by one thread: so the sum cannot be.
LEMMA Covered ==
    ASSUME NEW f, NEW S, IsFiniteSet(S), \A a \in S : f[a] \in Nat,
           NEW u, NEW T, IsFiniteSet(T), \A t \in T : u[t] \in Int,
           NEW p, \A t \in T : u[t] < 0 => p[t] \in S /\ u[t] = -f[p[t]],
           \A s, t \in T : s # t /\ u[s] < 0 /\ u[t] < 0 => p[s] # p[t]
    PROVE  SumFunctionOnSet(f, S) + SumFunctionOnSet(u, T) >= 0
<1>1. PICK Short : Short = {R \in SUBSET T : \E A \in SUBSET S :
            /\ \A t \in R : u[t] < 0 => p[t] \in A
            /\ ~(SumFunctionOnSet(f, A) + SumFunctionOnSet(u, R) >= 0)}
  OBVIOUS
<1>2. ASSUME NEW A \in SUBSET S, NEW R \in SUBSET T
      PROVE  /\ IsFiniteSet(A) /\ IsFiniteSet(R)
             /\ SumFunctionOnSet(f, A) \in Nat /\ SumFunctionOnSet(u, R) \in Int
  <2>1. IsFiniteSet(A) /\ IsFiniteSet(R)
    BY FS_Subset
  <2> QED BY <2>1, SumNumbers
<1>3. ASSUME Short # {} PROVE FALSE
  <2>1. Short \in SUBSET (SUBSET T)
    BY <1>1
  <2>2. PICK R \in Short : \A U \in SUBSET R : U # R => U \notin Short
    BY <1>3, <2>1, SmallestSet
  <2>3. R \in SUBSET T
    BY <1>1, <2>2
  <2>4. PICK A \in SUBSET S :
            /\ \A t \in R : u[t] < 0 => p[t] \in A
            /\ ~(SumFunctionOnSet(f, A) + SumFunctionOnSet(u, R) >= 0)
    BY <1>1, <2>2
  <2>5. R # {}
    <3>1. CASE R = {}
      <4>1. SumFunctionOnSet(u, R) = 0
        BY <3>1, SumEmpty
      <4>2. SumFunctionOnSet(f, A) \in Nat
        BY <1>2, <2>3
      <4> QED BY <2>4, <4>1, <4>2
    <3> QED BY <3>1
  <2>6. PICK t \in R : TRUE
    BY <2>5
  <2>7. PICK Q : Q = R \ {t}
    OBVIOUS
  <2>8. Q \in SUBSET R /\ Q # R /\ Q \in SUBSET T /\ Q \notin Short
    BY <2>2, <2>3, <2>6, <2>7
  <2>9. SumFunctionOnSet(u, R) = u[t] + SumFunctionOnSet(u, Q)
    BY <1>2, <2>3, <2>7, SumTake
  <2>10. u[t] \in Int /\ SumFunctionOnSet(u, Q) \in Int /\ SumFunctionOnSet(f, A) \in Nat
    BY <1>2, <2>3, <2>8
  <2>11. CASE ~(u[t] < 0)
    <3>1. \A s \in Q : u[s] < 0 => p[s] \in A
      BY <2>4, <2>8
    <3>2. SumFunctionOnSet(f, A) + SumFunctionOnSet(u, Q) >= 0
      BY <1>1, <2>8, <3>1
    <3> QED BY <2>4, <2>9, <2>10, <2>11, <3>2
  <2>12. CASE u[t] < 0
    <3>1. PICK C : C = A \ {p[t]}
      OBVIOUS
    <3>2. p[t] \in A /\ u[t] = -f[p[t]] /\ C \in SUBSET S
      BY <2>3, <2>4, <2>12, <3>1
    <3>3. \A s \in Q : u[s] < 0 => p[s] \in C
      BY <2>3, <2>4, <2>7, <2>12, <3>1
    <3>4. SumFunctionOnSet(f, C) + SumFunctionOnSet(u, Q) >= 0
      BY <1>1, <2>8, <3>2, <3>3
    <3>5. SumFunctionOnSet(f, A) = f[p[t]] + SumFunctionOnSet(f, C)
      <4>1. IsFiniteSet(A) /\ \A a \in A : f[a] \in Int
        BY <1>2, <2>3
      <4> QED BY <3>1, <3>2, <4>1, SumTake
    <3>6. SumFunctionOnSet(f, C) \in Nat /\ f[p[t]] \in Nat
      BY <1>2, <2>3, <3>2
    <3>7. PICK x, y, z : x = f[p[t]] /\ y = SumFunctionOnSet(f, C) /\ z = SumFunctionOnSet(u, Q)
      OBVIOUS
    <3>8. (x + y) + (-x + z) = y + z
      BY <2>10, <3>6, <3>7
    <3> QED BY <2>4, <2>9, <3>2, <3>4, <3>5, <3>7, <3>8
  <2> QED BY <2>11, <2>12
<1>4. T \notin Short
  BY <1>3
<1>5. S \in SUBSET S /\ T \in SUBSET T /\ \A t \in T : u[t] < 0 => p[t] \in S
  OBVIOUS
<1> QED BY <1>1, <1>4, <1>5

LEMMA LiveNotNegative ==
    ASSUME LargeInv, LiveInv
    PROVE  live_requested >= 0
<1>1. ASSUME NEW t \in Threads, Unaccounted[t] < 0
      PROVE  pc[t] = "count" /\ ptr[t] \in Linked /\ ptr[t] \in Has(t)
             /\ Unaccounted[t] = -requested_size[ptr[t]]
  <2>1. /\ pc[t] # "idle" => ptr[t] \in Addresses
        /\ requested_size \in [Addresses -> Nat]
        /\ pc[t] \in {"count", "discount"} => amount[t] \in Nat
    BY DEF LargeInv, LargeType, OwnInv, FrameOK, PeakInv
  <2>2. CASE pc[t] = "count"
    <3>1. Unaccounted[t] = -amount[t] /\ requested_size[ptr[t]] = amount[t]
      BY <2>2 DEF Unaccounted, LiveInv
    <3>2. ptr[t] \in Linked /\ ptr[t] \in Has(t)
      BY <2>1, <2>2, LargeAssumption DEF LargeInv, OwnInv, FrameOK, HeldLinked, Has
    <3> QED BY <2>2, <3>1, <3>2
  <2>3. CASE pc[t] = "sub"
    BY <1>1, <2>1, <2>3 DEF Unaccounted
  <2>4. CASE pc[t] = "discount"
    BY <1>1, <2>1, <2>4 DEF Unaccounted
  <2>5. CASE pc[t] \notin {"count", "sub", "discount"}
    BY <1>1, <2>5 DEF Unaccounted
  <2> QED BY <2>2, <2>3, <2>4, <2>5
<1>2. \A s, t \in Threads : s # t /\ Unaccounted[s] < 0 /\ Unaccounted[t] < 0 => ptr[s] # ptr[t]
  <2>1. \A s, t \in Threads : s # t => Has(s) \cap Has(t) = {}
    BY DEF LargeInv, OwnInv
  <2> QED BY <1>1, <2>1
<1>3. \A t \in Threads : Unaccounted[t] < 0 =>
          ptr[t] \in Linked /\ Unaccounted[t] = -requested_size[ptr[t]]
  BY <1>1
<1>4. SumFunctionOnSet(requested_size, Linked) + SumFunctionOnSet(Unaccounted, Threads) >= 0
  BY <1>2, <1>3, SumTerms, Covered, LargeAssumption
<1> QED BY <1>4 DEF LiveInv, SumSizes, Owed

\* The live counter is the sum of the sizes, up to what threads are about to
\* tell it, and never wraps below zero; a quiescent heap's snapshot has the
\* bytes the program holds, a peak that covers them and the right counts.
THEOREM LargeLiveExact == Spec => []LiveExact
<1>1. LargeInv /\ LiveInv /\ [Next]_vars => LiveInv'
  BY LiveInvNext
<1>2. ASSUME LargeInv, LiveInv PROVE LiveSummed
  <2>1. live_requested = SumSizes(Linked) + SumFunctionOnSet(Unaccounted, Threads)
    BY <1>2 DEF LiveInv, Owed
  <2>2. ASSUME Quiescent
        PROVE  live_requested = SumSizes(program) /\ peak_live >= SumSizes(program)
    <3>1. program = Linked
      BY <1>2, <2>2, IdleHasNothing DEF Quiescent, AllIdle
    <3>2. Owed = 0 /\ SumSizes(Linked) \in Nat
      BY <1>2, <2>2, NothingOwed, SumTerms DEF Quiescent
    <3>3. live_requested = SumSizes(program)
      BY <1>2, <3>1, <3>2 DEF LiveInv
    <3>4. peak_live >= live_requested
      BY <1>2, <2>2 DEF LargeInv, PeakInv, Quiescent
    <3> QED BY <3>3, <3>4
  <2> QED BY <1>2, <2>1, <2>2, LiveNotNegative DEF LiveSummed, memx_heap_get_stats
<1>3. LargeInv /\ LiveInv => LiveSummed
  BY <1>2
<1> QED BY <1>1, <1>3, LargeInvariant, LiveInit, LargePeakCovers, LargeCountsProgram, PTL
        DEF Spec, LiveExact
=============================================================================
