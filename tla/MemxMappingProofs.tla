-------------------------- MODULE MemxMappingProofs --------------------------
(***************************************************************************)
(* Proofs about MemxMapping, for every word width, page, span and huge-page *)
(* size, every number of threads and every place the system may choose:     *)
(* mappings are aligned and inside, the overlay has its guards, trimming,   *)
(* failures and releases leave nothing mapped, and the probes agree.        *)
(***************************************************************************)
EXTENDS MemxMapping, MemxArithmetic

-----------------------------------------------------------------------------
(***************************************************************************)
(* The constants: powers of two.                                            *)
(***************************************************************************)
\* The smaller of two powers of two divides the larger one.
LEMMA PowersDivide ==
    ASSUME NEW x \in PowersOfTwo, NEW y \in PowersOfTwo, x <= y
    PROVE  y % x = 0
<1>1. PICK i \in Nat : x = Pow2[i]
  BY MappingAssumption DEF PowersOfTwo
<1>2. PICK j \in Nat : y = Pow2[j]
  BY MappingAssumption DEF PowersOfTwo
<1>3. i <= j
  <2>1. CASE j < i
    <3>1. 2 * y <= x
      BY <1>1, <1>2, <2>1, PowGrows
    <3>2. y \in Nat /\ y >= 1 /\ x \in Nat
      BY <1>1, <1>2, PowPositive
    <3> QED BY <3>1, <3>2
  <2> QED BY <2>1
<1> QED BY <1>1, <1>2, <1>3, PowDivides

LEMMA Constants ==
    /\ WordMax \in Nat
    /\ \A x \in PowersOfTwo : x \in Nat /\ x >= 1
    /\ PageSize \in Nat /\ PageSize >= 1
    /\ SpanSize \in Nat /\ SpanSize >= 1 /\ SpanSize % PageSize = 0
<1>1. Pow2[WordBits] \in Nat /\ Pow2[WordBits] >= 1
  BY PowPositive, MappingAssumption
<1>2. \A x \in PowersOfTwo : x \in Nat /\ x >= 1
  BY PowPositive, MappingAssumption DEF PowersOfTwo
<1>3. SpanSize % PageSize = 0
  <2>1. PageSize <= SpanSize
    BY <1>2, MappingAssumption
  <2> QED BY <2>1, PowersDivide, MappingAssumption
<1> QED BY <1>1, <1>2, <1>3, MappingAssumption DEF WordMax

-----------------------------------------------------------------------------
(***************************************************************************)
(* Rounding, where nothing wraps.                                           *)
(***************************************************************************)
LEMMA NoWrap ==
    ASSUME NEW n \in Nat, n <= WordMax
    PROVE  Wrapped(n) = n
<1>1. n \in 0 .. ((WordMax + 1) - 1)
  BY Constants
<1>2. n % (WordMax + 1) = n
  BY <1>1, Constants
<1> QED BY <1>2 DEF Wrapped

LEMMA AlignedUp ==
    ASSUME NEW n \in Nat, NEW u \in Nat, u >= 1, n + u - 1 <= WordMax,
           NEW r, r = AlignUp(n, u)
    PROVE  r \in Nat /\ r % u = 0 /\ n <= r /\ r <= n + u - 1
<1>1. PICK s : s = n + u - 1
  OBVIOUS
<1>2. s \in Nat /\ s <= WordMax
  BY <1>1
<1>3. Wrapped(n + u - 1) = s
  BY <1>1, <1>2, NoWrap
<1>4. r = s - (s % u)
  BY <1>3 DEF AlignUp
<1>5. s % u \in 0 .. (u - 1) /\ s % u <= s
  <2>1. s % u \in 0 .. (u - 1)
    BY <1>2
  <2>2. s % u <= s
    BY <1>2
  <2> QED BY <2>1, <2>2
<1>6. PICK q \in Int : s - (s % u) = u * q
  <2>1. s \in Int
    BY <1>2
  <2>2. \E q \in Int : s - (s % u) = u * q
    BY <2>1, Quotient
  <2> QED BY <2>2
<1>7. (u * q) % u = 0
  BY <1>6, Multiple
<1> QED BY <1>1, <1>2, <1>4, <1>5, <1>6, <1>7

\* Whole pages.
LEMMA WholePages ==
    ASSUME NEW size \in Nat
    PROVE  /\ Pages(size) \in Nat /\ Pages(size) % PageSize = 0 /\ size <= Pages(size)
           /\ size % PageSize = 0 => Pages(size) = size
<1>1. PICK m : m = -size
  OBVIOUS
<1>2. m \in Int /\ PageSize \in Nat /\ PageSize >= 1
  BY <1>1, Constants
<1>3. m % PageSize \in 0 .. (PageSize - 1)
  BY <1>2
<1>4. PICK q \in Int : m - (m % PageSize) = PageSize * q
  BY <1>2, Quotient
<1>5. Pages(size) = size + (m % PageSize)
  BY <1>1 DEF Pages
<1>6. PICK k \in Int : k = -q
  OBVIOUS
<1>7. Pages(size) % PageSize = 0
  <2>1. PageSize * k = -(PageSize * q)
    BY <1>2, <1>6
  <2>2. PICK x, y : x = PageSize * q /\ y = m % PageSize
    OBVIOUS
  <2>3. x \in Int /\ y \in Int /\ m - y = x /\ Pages(size) = size + y /\ PageSize * k = -x
    BY <1>2, <1>3, <1>4, <1>5, <2>1, <2>2
  <2>4. Pages(size) = PageSize * k
    BY <1>1, <2>3
  <2> QED BY <1>2, <2>4, Multiple
<1>8. ASSUME size % PageSize = 0 PROVE m % PageSize = 0
  <2>1. PICK j \in Int : size = PageSize * j
    BY <1>2, <1>8, MultipleOf
  <2>2. PICK i \in Int : i = -j
    OBVIOUS
  <2>3. m = PageSize * i
    BY <1>1, <1>2, <2>1, <2>2
  <2> QED BY <1>2, <2>3, Multiple
<1> QED BY <1>3, <1>5, <1>7, <1>8

\* Where mmap may place size bytes.
LEMMA PlacedBySystem ==
    ASSUME NEW size \in Nat, NEW base \in mmap(size)
    PROVE  /\ base \in Nat /\ base >= 1 /\ base % PageSize = 0
           /\ base + Pages(size) <= WordMax + 1 /\ base + size <= WordMax + 1
<1>1. base \in Words /\ base # 0 /\ base % PageSize = 0 /\ base + Pages(size) <= WordMax + 1
  BY DEF mmap
<1> QED BY <1>1, Constants, WholePages DEF Words

\* Runs of bytes.
LEMMA ByteRuns ==
    ASSUME NEW b \in Nat, NEW m \in Nat, NEW n \in Nat
    PROVE  /\ Bytes(b, m + n) \ Bytes(b, m) = Bytes(b + m, n)
           /\ Bytes(b, m + n) \ Bytes(b + m, n) = Bytes(b, m)
           /\ Bytes(b, m) \cup Bytes(b + m, n) = Bytes(b, m + n)
           /\ \A c \in Nat : b <= c /\ c + n <= b + m => Bytes(c, n) \subseteq Bytes(b, m)
<1>1. \A c \in Nat, k \in Nat : \A x : x \in Bytes(c, k) <=> x \in Int /\ c <= x /\ x < c + k
  BY DEF Bytes
<1>2. b + m \in Nat /\ m + n \in Nat
  OBVIOUS
<1>3. ASSUME NEW x
      PROVE  /\ x \in Bytes(b, m + n) <=> x \in Int /\ b <= x /\ x < b + (m + n)
             /\ x \in Bytes(b, m) <=> x \in Int /\ b <= x /\ x < b + m
             /\ x \in Bytes(b + m, n) <=> x \in Int /\ b + m <= x /\ x < (b + m) + n
  BY <1>1, <1>2
<1>4. ASSUME NEW x
      PROVE  /\ x \in Bytes(b + m, n) <=> x \in Bytes(b, m + n) /\ x \notin Bytes(b, m)
             /\ x \in Bytes(b, m) <=> x \in Bytes(b, m + n) /\ x \notin Bytes(b + m, n)
  BY <1>3
<1>5. ASSUME NEW c \in Nat, b <= c, c + n <= b + m, NEW x \in Bytes(c, n)
      PROVE  x \in Bytes(b, m)
  <2>1. x \in Int /\ c <= x /\ x < c + n
    BY <1>1, <1>5
  <2> QED BY <1>3, <1>5, <2>1
<1> QED BY <1>4, <1>5

\* Unmapping what a range has.
LEMMA AllUnmapped ==
    ASSUME NEW base \in Nat, NEW size \in Nat, base % PageSize = 0,
           NEW S, S \subseteq Bytes(base, Pages(size))
    PROVE  munmap(S, base, size) = {}
BY DEF munmap

-----------------------------------------------------------------------------
(***************************************************************************)
(* The inductive invariant.                                                 *)
(***************************************************************************)
\* What the probe may return.
Huge == {0} \cup {v \in PowersOfTwo : v > PageSize}

\* The cached size is set once, and read after that.
ProbeInv ==
    /\ cached_size \in Huge \cup {Unknown}
    /\ pc \in [Threads -> {"cold", "probed", "published", "known"}]
    /\ value \in [Threads -> Huge]
    /\ \A t \in Threads : pc[t] \in {"published", "known"} => cached_size # Unknown
    /\ \A t \in Threads : pc[t] = "known" => value[t] = cached_size

\* A range in its mapping.
RangeOK(r) ==
    /\ r.mapping \in Nat /\ r.mapping % PageSize = 0 /\ r.reserved \in Nat
    /\ r.base \in Nat /\ r.size \in Nat /\ r.rounded \in Nat
    /\ r.alignment \in Nat /\ r.alignment >= 1
    /\ r.base % r.alignment = 0
    /\ r.mapping <= r.base /\ r.base + r.size <= r.mapping + Pages(r.reserved)

\* The overlay, with a page of the reservation on either side.
OverlayOK(r) ==
    /\ RangeOK(r)
    /\ r.mapping + PageSize <= r.base /\ r.size <= r.rounded
    /\ r.base + r.rounded + PageSize <= r.mapping + Pages(r.reserved)

\* The arena, of which the first bytes are committed.
ArenaOK(r) ==
    /\ RangeOK(r)
    /\ r.base = r.mapping /\ r.reserved = r.size
    /\ r.size % r.alignment = 0 /\ r.size + r.alignment <= WordMax
    /\ r.rounded <= r.size /\ r.rounded % r.alignment = 0

Reservation == Bytes(range.mapping, Pages(range.reserved))

RangeInv ==
    \/ range = NoRange /\ mapped = {} /\ writable = {}
    \/ /\ range.kind = "overlay_mapped" /\ OverlayOK(range)
       /\ mapped = Reservation /\ writable = {}
    \/ /\ range.kind = "overlay" /\ OverlayOK(range)
       /\ mapped = Reservation /\ writable = Bytes(range.base, range.rounded)
    \/ /\ range.kind = "arena" /\ ArenaOK(range)
       /\ mapped = Reservation /\ writable = Bytes(range.base, range.rounded)
    \/ /\ range.kind = "large" /\ RangeOK(range)
       /\ mapped = Reservation /\ writable = Reservation

MappingInv == ProbeInv /\ RangeInv

LEMMA NoRangeKind == NoRange.kind = "none"
BY DEF NoRange

LEMMA MappingInvInit == Init => MappingInv
<1> SUFFICES ASSUME Init PROVE MappingInv
  OBVIOUS
<1>1. ProbeInv
  BY DEF Init, ProbeInv, Huge
<1>2. RangeInv
  BY DEF Init, RangeInv
<1> QED BY <1>1, <1>2 DEF MappingInv

\* What the file gives is a size the probe may return.
LEMMA UsableHuge == \A v : Usable(v) \in Huge
BY DEF Usable, Huge

\* A huge page is a whole number of pages.
LEMMA HugePages ==
    ASSUME NEW h \in Huge, h # 0
    PROVE  h \in Nat /\ h >= 1 /\ h > PageSize /\ h % PageSize = 0
<1>1. h \in PowersOfTwo /\ h > PageSize
  BY DEF Huge
<1>2. h \in Nat /\ h >= 1 /\ PageSize \in PowersOfTwo /\ PageSize <= h
  BY <1>1, Constants, MappingAssumption
<1>3. h % PageSize = 0
  BY <1>1, <1>2, PowersDivide
<1> QED BY <1>1, <1>2, <1>3

LEMMA ProbeReadInv ==
    ASSUME ProbeInv, NEW t \in Threads, NEW v \in FileValues, ProbeRead(t, v)
    PROVE  ProbeInv' /\ range' = range /\ mapped' = mapped /\ writable' = writable
<1>1. CASE cached_size = Unknown
  BY <1>1, UsableHuge DEF ProbeRead, ProbeInv
<1>2. CASE cached_size # Unknown
  BY <1>2 DEF ProbeRead, ProbeInv
<1> QED BY <1>1, <1>2

LEMMA ProbeEndInv ==
    ASSUME ProbeInv, NEW t \in Threads, ProbePublish(t) \/ ProbeReturn(t)
    PROVE  ProbeInv' /\ range' = range /\ mapped' = mapped /\ writable' = writable
<1>1. Unknown \notin Huge
  <2>1. Unknown \notin Nat /\ 0 \in Nat
    BY MappingAssumption
  <2>2. \A h \in Huge : h \in Nat
    BY Constants DEF Huge
  <2> QED BY <2>1, <2>2
<1>2. CASE ProbePublish(t)
  <2>1. CASE cached_size = Unknown
    BY <1>1, <1>2, <2>1 DEF ProbePublish, ProbeInv
  <2>2. CASE cached_size # Unknown
    BY <1>2, <2>2 DEF ProbePublish, ProbeInv
  <2> QED BY <2>1, <2>2
<1>3. CASE ProbeReturn(t)
  BY <1>3 DEF ProbeReturn, ProbeInv
<1> QED BY <1>2, <1>3

-----------------------------------------------------------------------------
(***************************************************************************)
(* The overlay.                                                             *)
(***************************************************************************)
LEMMA OverlayMapInv ==
    ASSUME MappingInv, NEW t \in Threads, NEW bytes \in Sizes, NEW huge \in BOOLEAN,
           OverlayMap(t, bytes, huge)
    PROVE  RangeInv'
<1>1. PICK g : g = OverlayGranularity(bytes, IF huge THEN value[t] ELSE 0)
  OBVIOUS
<1>2. g \in Nat /\ g >= PageSize /\ g % PageSize = 0 /\ g >= 1
  <2>1. PageSize \in Nat /\ PageSize >= 1 /\ PageSize % PageSize = 0
    BY Constants
  <2>2. PICK h : h = IF huge THEN value[t] ELSE 0
    OBVIOUS
  <2>3. h \in Huge
    BY <2>2 DEF MappingInv, ProbeInv, Huge
  <2>4. g = PageSize \/ (g = h /\ h > PageSize)
    BY <1>1, <2>2 DEF OverlayGranularity
  <2>5. CASE g = PageSize
    BY <2>1, <2>5
  <2>6. CASE g = h /\ h > PageSize
    <3>1. h # 0
      BY <2>1, <2>6
    <3> QED BY <2>1, <2>3, <2>6, <3>1, HugePages
  <2> QED BY <2>4, <2>5, <2>6
<1>3. PICK rounded : rounded = AlignUp(bytes, g)
  OBVIOUS
<1>4. PICK reserved : reserved = Wrapped(rounded + g * 2)
  OBVIOUS
<1>5. PICK mapping \in mmap(reserved) :
        /\ range' = [kind |-> "overlay_mapped", mapping |-> mapping, reserved |-> reserved,
                     base |-> OverlayPayload(mapping, g), size |-> bytes,
                     rounded |-> rounded, alignment |-> g]
        /\ mapped' = Bytes(mapping, Pages(reserved))
  BY <1>1, <1>3, <1>4 DEF OverlayMap
<1>6. range = NoRange /\ writable' = writable /\ OverlayRepresentable(bytes, g)
  BY <1>1 DEF OverlayMap
<1>7. bytes \in Nat /\ bytes >= 1 /\ WordMax \in Nat
  BY MappingAssumption, Constants
<1>8. bytes + g - 1 <= WordMax /\ rounded <= WordMax - g * 2
  BY <1>2, <1>3, <1>6, <1>7 DEF OverlayRepresentable
<1>9. rounded \in Nat /\ bytes <= rounded
  BY <1>2, <1>3, <1>7, <1>8, AlignedUp
<1>10. reserved = rounded + g * 2 /\ reserved \in Nat
  <2>1. PICK s : s = rounded + g * 2
    OBVIOUS
  <2>2. s \in Nat /\ s <= WordMax
    BY <1>2, <1>7, <1>8, <1>9, <2>1
  <2> QED BY <1>4, <2>1, <2>2, NoWrap
<1>11. /\ mapping \in Nat /\ mapping >= 1 /\ mapping % PageSize = 0
       /\ mapping + reserved <= WordMax + 1
       /\ Pages(reserved) \in Nat /\ reserved <= Pages(reserved)
  BY <1>5, <1>10, PlacedBySystem, WholePages
<1>12. PICK base : base = OverlayPayload(mapping, g)
  OBVIOUS
<1>13. base \in Nat /\ base % g = 0 /\ mapping + 1 <= base /\ base <= mapping + g
  <2>1. mapping + 1 \in Nat /\ (mapping + 1) + g - 1 <= WordMax
    BY <1>2, <1>7, <1>9, <1>10, <1>11
  <2>2. base = AlignUp(mapping + 1, g)
    BY <1>12 DEF OverlayPayload
  <2>3. PICK m : m = mapping + 1
    OBVIOUS
  <2>4. base % g = 0 /\ base \in Nat /\ m <= base /\ base <= m + g - 1
    BY <1>2, <2>1, <2>2, <2>3, AlignedUp
  <2> QED BY <1>2, <1>11, <2>3, <2>4
<1>14. mapping + PageSize <= base
  <2>1. base \in Int /\ mapping \in Int /\ PageSize \in Nat /\ PageSize >= 1
    BY <1>11, <1>13, Constants
  <2>2. base % PageSize = 0
    BY <1>2, <1>13, <2>1, MultipleTrans
  <2>3. mapping < base
    BY <1>11, <1>13
  <2> QED BY <1>11, <2>1, <2>2, <2>3, MultipleGap
<1>15. OverlayOK(range')
  <2>1. base + rounded + PageSize <= mapping + Pages(reserved)
    BY <1>2, <1>9, <1>10, <1>11, <1>13, Constants
  <2>2. base + bytes <= mapping + Pages(reserved)
    BY <1>7, <1>9, <1>11, <1>13, <2>1, Constants
  <2> QED BY <1>2, <1>5, <1>7, <1>9, <1>10, <1>11, <1>12, <1>13, <1>14, <2>1, <2>2, Constants
          DEF OverlayOK, RangeOK
<1>16. writable' = {}
  BY <1>6, NoRangeKind DEF MappingInv, RangeInv
<1> QED BY <1>5, <1>15, <1>16 DEF RangeInv, Reservation

LEMMA OverlayProtectInv ==
    ASSUME MappingInv, OverlayProtect
    PROVE  RangeInv'
<1>1. /\ range.kind = "overlay_mapped" /\ OverlayOK(range) /\ mapped = Reservation
  BY NoRangeKind DEF OverlayProtect, MappingInv, RangeInv
<1>2. /\ range' = [range EXCEPT !.kind = "overlay"] /\ mapped' = mapped
      /\ writable' = Bytes(range.base, range.rounded)
  BY DEF OverlayProtect
<1> QED BY <1>1, <1>2 DEF RangeInv, Reservation, OverlayOK, RangeOK

-----------------------------------------------------------------------------
(***************************************************************************)
(* The arena.                                                               *)
(***************************************************************************)
LEMMA ReserveArenaInv ==
    ASSUME MappingInv, NEW t \in Threads, NEW size \in Sizes, ReserveArena(t, size)
    PROVE  RangeInv'
<1>1. PICK a : a = CommitGranularity(size, value[t])
  OBVIOUS
<1>2. /\ range = NoRange /\ size % SpanSize = 0 /\ size <= WordMax - a /\ writable' = writable
  BY <1>1 DEF ReserveArena
<1>3. size \in Nat /\ size >= 1 /\ WordMax \in Nat /\ PageSize \in Nat /\ PageSize >= 1
  BY MappingAssumption, Constants
<1>4. a \in Nat /\ a >= 1 /\ a % PageSize = 0 /\ size % a = 0
  <2>1. PICK h : h = value[t]
    OBVIOUS
  <2>2. h \in Huge
    BY <2>1 DEF MappingInv, ProbeInv
  <2>3. a = SpanSize \/ (a = h /\ h > SpanSize /\ size % h = 0)
    BY <1>1, <2>1 DEF CommitGranularity
  <2>4. CASE a = SpanSize
    BY <1>2, <2>4, Constants
  <2>5. CASE a = h /\ h > SpanSize /\ size % h = 0
    <3>1. h # 0
      BY <2>5, Constants
    <3> QED BY <2>2, <2>5, <3>1, HugePages
  <2> QED BY <2>3, <2>4, <2>5
<1>5. PICK request : request = Wrapped(size + a)
  OBVIOUS
<1>6. request = size + a /\ request \in Nat
  <2>1. PICK s : s = size + a
    OBVIOUS
  <2>2. s \in Nat /\ s <= WordMax
    BY <1>2, <1>3, <1>4, <2>1
  <2> QED BY <1>5, <2>1, <2>2, NoWrap
<1>7. PICK mapping \in mmap(request) :
        LET aligned == AlignUp(mapping, a)
            prefix == aligned - mapping
            suffix == request - prefix - size
            all == Bytes(mapping, Pages(request))
            trimmed == IF prefix # 0 THEN munmap(all, mapping, prefix) ELSE all
        IN  /\ range' = [kind |-> "arena", mapping |-> aligned, reserved |-> size,
                         base |-> aligned, size |-> size, rounded |-> 0, alignment |-> a]
            /\ mapped' = IF suffix # 0 THEN munmap(trimmed, aligned + size, suffix)
                         ELSE trimmed
  BY <1>1, <1>5 DEF ReserveArena
<1>8. /\ mapping \in Nat /\ mapping % PageSize = 0
      /\ mapping + request <= WordMax + 1
  BY <1>6, <1>7, PlacedBySystem
<1>9. PICK aligned : aligned = AlignUp(mapping, a)
  OBVIOUS
<1>10. aligned \in Nat /\ aligned % a = 0 /\ mapping <= aligned /\ aligned <= mapping + a - 1
  <2>1. mapping + a - 1 <= WordMax
    BY <1>3, <1>4, <1>6, <1>8
  <2> QED BY <1>4, <1>8, <1>9, <2>1, AlignedUp
<1>11. PICK prefix : prefix = aligned - mapping
  OBVIOUS
<1>12. PICK suffix : suffix = request - prefix - size
  OBVIOUS
<1>13. /\ prefix \in Nat /\ suffix \in Nat /\ suffix # 0 /\ suffix = a - prefix
       /\ aligned = mapping + prefix
  BY <1>3, <1>4, <1>6, <1>8, <1>10, <1>11, <1>12
<1>14. /\ aligned % PageSize = 0 /\ size % PageSize = 0 /\ prefix % PageSize = 0
       /\ suffix % PageSize = 0 /\ (aligned + size) % PageSize = 0 /\ request % PageSize = 0
  <2>1. /\ aligned \in Int /\ mapping \in Int /\ size \in Int /\ a \in Int /\ prefix \in Int
    BY <1>3, <1>4, <1>8, <1>10, <1>13
  <2>2. aligned % PageSize = 0
    BY <1>3, <1>4, <1>10, <2>1, MultipleTrans
  <2>3. size % PageSize = 0
    BY <1>3, <1>4, <2>1, MultipleTrans
  <2>4. prefix % PageSize = 0
    BY <1>3, <1>8, <1>11, <2>1, <2>2, MultipleSum
  <2>5. suffix % PageSize = 0
    BY <1>3, <1>4, <1>13, <2>1, <2>4, MultipleSum
  <2>6. (aligned + size) % PageSize = 0
    BY <1>3, <2>1, <2>2, <2>3, MultipleSum
  <2>7. (size + a) % PageSize = 0
    BY <1>3, <1>4, <2>1, <2>3, MultipleSum
  <2> QED BY <1>6, <2>2, <2>3, <2>4, <2>5, <2>6, <2>7
<1>15. /\ Pages(prefix) = prefix /\ Pages(suffix) = suffix /\ Pages(size) = size
       /\ Pages(request) = request
  BY <1>3, <1>6, <1>13, <1>14, WholePages
<1>16. mapped' = Bytes(aligned, size)
  <2>1. PICK all : all = Bytes(mapping, request)
    OBVIOUS
  <2>2. PICK trimmed : trimmed = IF prefix # 0 THEN munmap(all, mapping, prefix) ELSE all
    OBVIOUS
  <2>3. mapped' = munmap(trimmed, aligned + size, suffix)
    BY <1>7, <1>9, <1>11, <1>12, <1>13, <1>15, <2>1, <2>2
  <2>4. trimmed = Bytes(aligned, size + suffix)
    <3>1. request = prefix + (size + suffix) /\ size + suffix \in Nat
      BY <1>3, <1>4, <1>6, <1>13
    <3>2. CASE prefix = 0
      <4>1. trimmed = Bytes(mapping, request) /\ aligned = mapping /\ request = size + suffix
        BY <1>3, <1>8, <1>13, <2>1, <2>2, <3>1, <3>2
      <4> QED BY <4>1
    <3>3. CASE prefix # 0
      <4>1. trimmed = all \ Bytes(mapping, prefix)
        BY <1>8, <1>15, <2>2, <3>3 DEF munmap
      <4>2. PICK rest \in Nat : rest = size + suffix
        BY <3>1
      <4>3. Bytes(mapping, prefix + rest) \ Bytes(mapping, prefix) = Bytes(mapping + prefix, rest)
        BY <1>8, <1>13, ByteRuns
      <4> QED BY <1>13, <2>1, <3>1, <4>1, <4>2, <4>3
    <3> QED BY <3>2, <3>3
  <2>5. mapped' = trimmed \ Bytes(aligned + size, suffix)
    BY <1>14, <1>15, <2>3 DEF munmap
  <2>6. Bytes(aligned, size + suffix) \ Bytes(aligned + size, suffix) = Bytes(aligned, size)
    <3>1. aligned \in Nat /\ size \in Nat /\ suffix \in Nat
      BY <1>3, <1>10, <1>13
    <3> QED BY <3>1, ByteRuns
  <2> QED BY <2>4, <2>5, <2>6
<1>17. range' = [kind |-> "arena", mapping |-> aligned, reserved |-> size,
                 base |-> aligned, size |-> size, rounded |-> 0, alignment |-> a]
  BY <1>7, <1>9
<1>18. ArenaOK(range')
  <2>1. 0 % a = 0
    BY <1>4
  <2> QED BY <1>2, <1>3, <1>4, <1>10, <1>14, <1>15, <1>17, <2>1 DEF ArenaOK, RangeOK
<1>19. writable' = {} /\ Bytes(aligned, 0) = {}
  <2>1. writable' = {}
    BY <1>2, NoRangeKind DEF MappingInv, RangeInv
  <2> QED BY <1>10, <2>1 DEF Bytes
<1> QED BY <1>15, <1>16, <1>17, <1>18, <1>19 DEF RangeInv, Reservation

LEMMA CommitThroughInv ==
    ASSUME MappingInv, NEW required \in Words, CommitThrough(required)
    PROVE  RangeInv'
<1>1. /\ range.kind = "arena" /\ ArenaOK(range) /\ mapped = Reservation
      /\ writable = Bytes(range.base, range.rounded)
  BY NoRangeKind DEF CommitThrough, MappingInv, RangeInv
<1>2. PICK target : target = CommitTarget(required)
  OBVIOUS
<1>3. /\ range' = [range EXCEPT !.rounded = target] /\ mapped' = mapped
      /\ writable' = writable \cup Bytes(range.base + range.rounded, target - range.rounded)
      /\ required \in range.rounded + 1 .. range.size
  BY <1>2 DEF CommitThrough
<1>4. /\ range.size \in Nat /\ range.rounded \in Nat /\ range.alignment \in Nat
      /\ range.alignment >= 1 /\ range.size % range.alignment = 0
      /\ range.size + range.alignment <= WordMax /\ range.base \in Nat
  BY <1>1 DEF ArenaOK, RangeOK
<1>5. required \in Nat /\ required + range.alignment - 1 <= WordMax
  BY <1>3, <1>4, Constants DEF Words
<1>6. PICK up : up = AlignUp(required, range.alignment)
  OBVIOUS
<1>7. up \in Nat /\ up % range.alignment = 0 /\ required <= up
  BY <1>4, <1>5, <1>6, AlignedUp
<1>8. target = IF up = 0 \/ up > range.size THEN range.size ELSE up
  BY <1>2, <1>6 DEF CommitTarget
<1>9. /\ target \in Nat /\ target <= range.size /\ range.rounded <= target
      /\ target % range.alignment = 0
  BY <1>3, <1>4, <1>7, <1>8
<1>10. writable' = Bytes(range.base, target)
  <2>1. PICK more \in Nat : more = target - range.rounded
    BY <1>4, <1>9
  <2>2. target = range.rounded + more
    BY <1>4, <1>9, <2>1
  <2>3. Bytes(range.base, range.rounded) \cup Bytes(range.base + range.rounded, more)
            = Bytes(range.base, range.rounded + more)
    BY <1>4, ByteRuns
  <2> QED BY <1>1, <1>3, <2>1, <2>2, <2>3
<1>11. /\ range'.kind = "arena" /\ range'.mapping = range.mapping
       /\ range'.reserved = range.reserved /\ range'.base = range.base
       /\ range'.size = range.size /\ range'.alignment = range.alignment
  BY <1>1, <1>3
<1>12. range'.rounded = target
  BY <1>1, <1>3
<1>13. ArenaOK(range')
  BY <1>1, <1>9, <1>11, <1>12 DEF ArenaOK, RangeOK
<1> QED BY <1>1, <1>3, <1>10, <1>11, <1>12, <1>13 DEF RangeInv, Reservation

-----------------------------------------------------------------------------
(***************************************************************************)
(* Large allocations, and the end of a range.                               *)
(***************************************************************************)
LEMMA LargeAllocateInv ==
    ASSUME MappingInv, NEW size \in Sizes, NEW alignment \in Alignments,
           LargeAllocate(size, alignment)
    PROVE  RangeInv'
<1>1. PICK e : e = IF alignment < PageSize THEN PageSize ELSE alignment
  OBVIOUS
<1>2. /\ alignment \in Nat /\ alignment >= 1 /\ PageSize \in Nat /\ PageSize >= 1
      /\ size \in Nat /\ WordMax \in Nat
  BY MappingAssumption, Constants
<1>3. e \in Nat /\ e >= 1 /\ e % alignment = 0
  <2>1. CASE alignment < PageSize
    <3>1. alignment <= PageSize /\ alignment \in PowersOfTwo /\ PageSize \in PowersOfTwo
      BY <1>2, <2>1, MappingAssumption
    <3>2. PageSize % alignment = 0
      BY <3>1, PowersDivide
    <3> QED BY <1>1, <1>2, <2>1, <3>2
  <2>2. CASE ~(alignment < PageSize)
    BY <1>1, <1>2, <2>2
  <2> QED BY <2>1, <2>2
<1>4. PICK request : request = Wrapped(size + e)
  OBVIOUS
<1>5. request = size + e /\ request \in Nat
  <2>1. PICK s : s = size + e
    OBVIOUS
  <2>2. size <= WordMax - e
    BY <1>1 DEF LargeAllocate
  <2>3. s \in Nat /\ s <= WordMax
    BY <1>2, <1>3, <2>1, <2>2
  <2> QED BY <1>4, <2>1, <2>3, NoWrap
<1>6. PICK mapping \in mmap(request) :
        /\ range' = [kind |-> "large", mapping |-> mapping, reserved |-> request,
                     base |-> AlignUp(mapping, e), size |-> size, rounded |-> 0,
                     alignment |-> alignment]
        /\ mapped' = Bytes(mapping, Pages(request))
        /\ writable' = Bytes(mapping, Pages(request))
  BY <1>1, <1>4 DEF LargeAllocate
<1>7. /\ mapping \in Nat /\ mapping % PageSize = 0 /\ mapping + request <= WordMax + 1
      /\ Pages(request) \in Nat /\ request <= Pages(request) /\ mapping >= 1
  BY <1>5, <1>6, PlacedBySystem, WholePages
<1>8. PICK base : base = AlignUp(mapping, e)
  OBVIOUS
<1>9. base \in Nat /\ base % e = 0 /\ mapping <= base /\ base <= mapping + e - 1
  <2>1. mapping + e - 1 <= WordMax
    BY <1>2, <1>3, <1>5, <1>7
  <2> QED BY <1>3, <1>7, <1>8, <2>1, AlignedUp
<1>10. base % alignment = 0
  <2>1. base \in Int
    BY <1>9
  <2> QED BY <1>2, <1>3, <1>9, <2>1, MultipleTrans
<1>11. base + size <= mapping + Pages(request)
  BY <1>2, <1>3, <1>5, <1>7, <1>9
<1>12. RangeOK(range')
  BY <1>2, <1>5, <1>6, <1>7, <1>8, <1>9, <1>10, <1>11 DEF RangeOK
<1> QED BY <1>6, <1>12 DEF RangeInv, Reservation

LEMMA EndInv ==
    ASSUME MappingInv, OverlayProtectFails \/ Release
    PROVE  RangeInv'
<1>1. range' = NoRange /\ mapped' = munmap(mapped, range.mapping, range.reserved)
  BY DEF OverlayProtectFails, Release
<1>2. range # NoRange /\ RangeOK(range) /\ mapped = Reservation
  BY NoRangeKind DEF OverlayProtectFails, Release, MappingInv, RangeInv, OverlayOK, ArenaOK
<1>3. range.mapping \in Nat /\ range.reserved \in Nat /\ range.mapping % PageSize = 0
  BY <1>2 DEF RangeOK
<1>4. mapped' = {}
  BY <1>1, <1>2, <1>3, AllUnmapped DEF Reservation
<1>5. writable' = {}
  <2>1. CASE OverlayProtectFails
    BY <2>1, NoRangeKind DEF OverlayProtectFails, MappingInv, RangeInv
  <2>2. CASE Release
    <3>1. writable \subseteq Reservation
      <4>1. CASE range.kind = "large"
        BY <1>2, <4>1, NoRangeKind DEF MappingInv, RangeInv
      <4>2. CASE range.kind = "overlay"
        <5>1. OverlayOK(range) /\ writable = Bytes(range.base, range.rounded)
          BY <1>2, <4>2, NoRangeKind DEF MappingInv, RangeInv
        <5>2. /\ range.base \in Nat /\ range.rounded \in Nat /\ range.mapping <= range.base
              /\ range.base + range.rounded <= range.mapping + Pages(range.reserved)
              /\ Pages(range.reserved) \in Nat
          BY <1>3, <5>1, WholePages, Constants DEF OverlayOK, RangeOK
        <5> QED BY <1>3, <5>1, <5>2, ByteRuns DEF Reservation
      <4>3. CASE range.kind = "arena"
        <5>1. ArenaOK(range) /\ writable = Bytes(range.base, range.rounded)
          BY <1>2, <4>3, NoRangeKind DEF MappingInv, RangeInv
        <5>2. /\ range.base \in Nat /\ range.rounded \in Nat /\ range.mapping <= range.base
              /\ range.base + range.rounded <= range.mapping + Pages(range.reserved)
              /\ Pages(range.reserved) \in Nat
          BY <1>3, <5>1, WholePages, Constants DEF ArenaOK, RangeOK
        <5> QED BY <1>3, <5>1, <5>2, ByteRuns DEF Reservation
      <4> QED BY <2>2, <4>1, <4>2, <4>3 DEF Release
    <3>2. writable' = munmap(writable, range.mapping, range.reserved)
      BY <2>2 DEF Release
    <3> QED BY <1>3, <3>1, <3>2, AllUnmapped DEF Reservation
  <2> QED BY <2>1, <2>2
<1> QED BY <1>1, <1>4, <1>5 DEF RangeInv

-----------------------------------------------------------------------------
(***************************************************************************)
(* The specification.                                                       *)
(***************************************************************************)
LEMMA MappingInvNext ==
    ASSUME MappingInv, [Next]_vars
    PROVE  MappingInv'
<1>1. CASE UNCHANGED vars
  BY <1>1 DEF vars, probe, MappingInv, ProbeInv, RangeInv, Reservation
<1>2. ASSUME range' = range, mapped' = mapped, writable' = writable
      PROVE  RangeInv'
  BY <1>2 DEF MappingInv, RangeInv, Reservation
<1>3. ASSUME UNCHANGED probe
      PROVE  ProbeInv'
  BY <1>3 DEF probe, MappingInv, ProbeInv
<1>4. CASE Next
  <2>1. CASE \E t \in Threads, v \in FileValues : ProbeRead(t, v)
    <3>1. PICK t \in Threads, v \in FileValues : ProbeRead(t, v)
      BY <2>1
    <3>2. ProbeInv' /\ range' = range /\ mapped' = mapped /\ writable' = writable
      BY <3>1, ProbeReadInv DEF MappingInv
    <3> QED BY <1>2, <3>2 DEF MappingInv
  <2>2. CASE \E t \in Threads : ProbePublish(t) \/ ProbeReturn(t)
    <3>1. PICK t \in Threads : ProbePublish(t) \/ ProbeReturn(t)
      BY <2>2
    <3>2. ProbeInv' /\ range' = range /\ mapped' = mapped /\ writable' = writable
      BY <3>1, ProbeEndInv DEF MappingInv
    <3> QED BY <1>2, <3>2 DEF MappingInv
  <2>3. CASE \E t \in Threads, bytes \in Sizes, huge \in BOOLEAN : OverlayMap(t, bytes, huge)
    <3>1. UNCHANGED probe
      BY <2>3 DEF OverlayMap
    <3> QED BY <1>3, <2>3, <3>1, OverlayMapInv DEF MappingInv
  <2>4. CASE OverlayProtect
    <3>1. UNCHANGED probe
      BY <2>4 DEF OverlayProtect
    <3> QED BY <1>3, <2>4, <3>1, OverlayProtectInv DEF MappingInv
  <2>5. CASE OverlayProtectFails \/ Release
    <3>1. UNCHANGED probe
      BY <2>5 DEF OverlayProtectFails, Release
    <3> QED BY <1>3, <2>5, <3>1, EndInv DEF MappingInv
  <2>6. CASE \E t \in Threads, size \in Sizes : ReserveArena(t, size)
    <3>1. UNCHANGED probe
      BY <2>6 DEF ReserveArena
    <3> QED BY <1>3, <2>6, <3>1, ReserveArenaInv DEF MappingInv
  <2>7. CASE \E required \in Words : CommitThrough(required)
    <3>1. UNCHANGED probe
      BY <2>7 DEF CommitThrough
    <3> QED BY <1>3, <2>7, <3>1, CommitThroughInv DEF MappingInv
  <2>8. CASE \E size \in Sizes, alignment \in Alignments : LargeAllocate(size, alignment)
    <3>1. UNCHANGED probe
      BY <2>8 DEF LargeAllocate
    <3> QED BY <1>3, <2>8, <3>1, LargeAllocateInv DEF MappingInv
  <2> QED BY <1>4, <2>1, <2>2, <2>3, <2>4, <2>5, <2>6, <2>7, <2>8 DEF Next
<1> QED BY <1>1, <1>4

\* The inductive invariant: the huge-page size is published once, and a range
\* lies in its mapping with everything its kind promises.
THEOREM MappingInvariant == Spec => []MappingInv
<1>1. MappingInv /\ [Next]_vars => MappingInv'
  BY MappingInvNext
<1> QED BY <1>1, MappingInvInit, PTL DEF Spec

LEMMA SoundPlacement == MappingInv => PlacementSound
<1> SUFFICES ASSUME MappingInv, range # NoRange PROVE PlacementSound
  BY DEF PlacementSound
<1>1. RangeOK(range) /\ mapped = Reservation
  BY DEF MappingInv, RangeInv, OverlayOK, ArenaOK
<1>2. /\ range.mapping \in Nat /\ range.reserved \in Nat /\ range.base \in Nat
      /\ range.size \in Nat /\ range.rounded \in Nat
      /\ range.base % range.alignment = 0 /\ range.mapping <= range.base
      /\ range.base + range.size <= range.mapping + Pages(range.reserved)
  BY <1>1 DEF RangeOK
<1>3. Pages(range.reserved) \in Nat /\ PageSize \in Nat
  BY <1>2, WholePages, Constants
<1>4. Bytes(range.base, range.size) \subseteq mapped
  BY <1>1, <1>2, <1>3, ByteRuns DEF Reservation
<1>5. CASE range.kind = "overlay_mapped"
  <2>1. writable = {}
    BY <1>5, NoRangeKind DEF MappingInv, RangeInv
  <2> QED BY <1>2, <1>4, <1>5, <2>1 DEF PlacementSound
<1>6. CASE range.kind = "overlay"
  <2>1. OverlayOK(range) /\ writable = Bytes(range.base, range.rounded)
    BY <1>6, NoRangeKind DEF MappingInv, RangeInv
  <2>2. /\ range.mapping + PageSize <= range.base /\ range.size <= range.rounded
        /\ range.base + range.rounded + PageSize <= range.mapping + Pages(range.reserved)
    BY <2>1 DEF OverlayOK
  <2>3. writable \subseteq mapped
    <3>1. range.base + range.rounded <= range.mapping + Pages(range.reserved)
      BY <1>2, <1>3, <2>2
    <3> QED BY <1>1, <1>2, <1>3, <2>1, <3>1, ByteRuns DEF Reservation
  <2>4. Bytes(range.base, range.size) \subseteq writable
    <3>1. range.base <= range.base /\ range.base + range.size <= range.base + range.rounded
      BY <1>2, <2>2
    <3> QED BY <1>2, <2>1, <3>1, ByteRuns
  <2>5. PICK low \in Nat : low = range.base - PageSize
    BY <1>2, <1>3, <2>2
  <2>6. PICK high \in Nat : high = range.base + range.rounded
    BY <1>2
  <2>7. Bytes(low, PageSize) \subseteq mapped
    <3>1. range.mapping <= low /\ low + PageSize <= range.mapping + Pages(range.reserved)
      BY <1>2, <1>3, <2>2, <2>5
    <3> QED BY <1>1, <1>2, <1>3, <3>1, ByteRuns DEF Reservation
  <2>8. Bytes(high, PageSize) \subseteq mapped
    <3>1. range.mapping <= high /\ high + PageSize <= range.mapping + Pages(range.reserved)
      BY <1>2, <1>3, <2>2, <2>6
    <3> QED BY <1>1, <1>2, <1>3, <3>1, ByteRuns DEF Reservation
  <2>9. \A x \in Bytes(low, PageSize) \cup Bytes(high, PageSize) : x \notin writable
    BY <1>2, <1>3, <2>1, <2>5, <2>6 DEF Bytes
  <2>10. Bytes(range.base - PageSize, PageSize)
             \cup Bytes(range.base + range.rounded, PageSize) \subseteq mapped \ writable
    BY <2>5, <2>6, <2>7, <2>8, <2>9
  <2> QED BY <1>2, <1>4, <1>6, <2>3, <2>4, <2>10 DEF PlacementSound
<1>7. CASE range.kind = "arena"
  <2>1. ArenaOK(range) /\ writable = Bytes(range.base, range.rounded)
    BY <1>7, NoRangeKind DEF MappingInv, RangeInv
  <2>2. range.rounded <= range.size /\ range.rounded % range.alignment = 0
    BY <2>1 DEF ArenaOK
  <2>3. writable \subseteq mapped
    <3>1. range.base + range.rounded <= range.mapping + Pages(range.reserved)
      BY <1>2, <1>3, <2>2
    <3> QED BY <1>1, <1>2, <1>3, <2>1, <3>1, ByteRuns DEF Reservation
  <2> QED BY <1>2, <1>4, <1>7, <2>1, <2>2, <2>3 DEF PlacementSound
<1>8. CASE range.kind = "large"
  <2>1. writable = Reservation
    BY <1>8, NoRangeKind DEF MappingInv, RangeInv
  <2> QED BY <1>1, <1>2, <1>4, <1>8, <2>1 DEF PlacementSound
<1> QED BY <1>5, <1>6, <1>7, <1>8 DEF MappingInv, RangeInv

\* Wherever mmap puts a mapping, what memx_overlay_allocate,
\* memx_os_reserve_aligned and memx_os_large_allocate give is aligned, in
\* it and writable, the overlay is guarded on both sides, and an arena is
\* committed in whole granules.
THEOREM MappingPlacementSound == Spec => []PlacementSound
BY MappingInvariant, SoundPlacement, PTL

\* The trimming of memx_os_reserve_aligned leaves exactly the arena mapped; a
\* failed mprotect of the overlay and memx_os_release leave nothing.
THEOREM MappingNothingLeft == Spec => []NothingLeftMapped
<1>1. MappingInv => NothingLeftMapped
  BY NoRangeKind DEF MappingInv, RangeInv, NothingLeftMapped, Reservation
<1> QED BY <1>1, MappingInvariant, PTL

\* Threads that race in memx_host_huge_page_size, each reading the file by
\* itself, all use the size that was published first.
THEOREM MappingProbesAgree == Spec => []ProbesAgree
<1>1. MappingInv => ProbesAgree
  BY DEF MappingInv, ProbeInv, ProbesAgree
<1> QED BY <1>1, MappingInvariant, PTL
=============================================================================
