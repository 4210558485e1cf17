--------------------------- MODULE MemxIndexProofs ---------------------------
(***************************************************************************)
(* Proofs about the ownership index: MemxIndex implements MemxMap for every *)
(* geometry that memx_validate_config accepts and every set of handles, the *)
(* descriptors keep the two facts the loops rely on, the unchecked lookups  *)
(* agree with the checked one, and memx_index_stats tells the truth.        *)
(*                                                                          *)
(* The arguments are about cells (the granules the index covers, counted    *)
(* from 0) and not about addresses: the first part carries the code's       *)
(* address arithmetic over to cells, once.                                  *)
(***************************************************************************)
EXTENDS MemxIndex, MemxArithmetic

G == GranulesPerRegion
CellCount == RegionCount * G

\* The address of a cell, and what a lookup there returns.
Addr(p) == BaseAddress + p * GranuleSize
Lookup(p) == memx_lookup_address(Addr(p))

-----------------------------------------------------------------------------
(***************************************************************************)
(* Arithmetic.                                                              *)
(***************************************************************************)
\* Multiplication by a natural number is monotone.
LEMMA TimesMonotone ==
    ASSUME NEW a \in Int, NEW b \in Int, NEW n \in Nat, a <= b
    PROVE  a * n <= b * n
<1>1. PICK d \in Nat : b = a + d
  BY b - a \in Nat
<1>2. b * n = a * n + d * n
  BY <1>1
<1>3. a * n \in Int /\ d * n \in Nat
  OBVIOUS
<1> QED BY <1>2, <1>3

\* ... and strictly so when the number is not zero.
LEMMA TimesStrict ==
    ASSUME NEW a \in Int, NEW b \in Int, NEW n \in Nat \ {0}
    PROVE  /\ a * n \in Int
           /\ a < b <=> a * n < b * n
           /\ a <= b <=> a * n <= b * n
           /\ a = b <=> a * n = b * n
           /\ (a + 1) * n = a * n + n
<1>1. a * n \in Int /\ b * n \in Int /\ (a + 1) * n = a * n + n
      /\ (b + 1) * n = b * n + n
  OBVIOUS
<1>2. a < b => a * n + n <= b * n
  BY <1>1, TimesMonotone, a + 1 \in Int
<1>3. b < a => b * n + n <= a * n
  BY <1>1, TimesMonotone, b + 1 \in Int
<1> QED BY <1>1, <1>2, <1>3

\* Quotient and remainder.
LEMMA DivideWithRest ==
    ASSUME NEW a \in Nat, NEW n \in Nat \ {0}
    PROVE  /\ a \div n \in Nat
           /\ a % n \in 0 .. n - 1
           /\ a = (a \div n) * n + (a % n)
OBVIOUS

\* ... are the only pair of numbers that fit.
LEMMA DivideUnique ==
    ASSUME NEW q \in Nat, NEW n \in Nat \ {0}, NEW s \in 0 .. n - 1
    PROVE  /\ q * n + s \in Nat
           /\ (q * n + s) \div n = q
           /\ (q * n + s) % n = s
<1> DEFINE a == q * n + s
           u == a \div n
           v == a % n
<1>1. a \in Nat /\ q * n \in Nat
  BY TimesStrict
<1>3. a = q * n + s
  OBVIOUS
<1> HIDE DEF a
<1>2a. a = u * n + v /\ u \in Nat /\ v \in 0 .. n - 1
  BY <1>1, DivideWithRest
<1> HIDE DEF u, v
<1>2. a = u * n + v /\ u \in Nat /\ v \in 0 .. n - 1 /\ u * n \in Nat
  BY <1>2a
<1>4. (q + 1) * n = q * n + n /\ (u + 1) * n = u * n + n
  BY <1>2
<1>5. ASSUME q < u PROVE FALSE
  <2>1. q + 1 <= u /\ q + 1 \in Int /\ u \in Int
    BY <1>2, <1>5
  <2>2. (q + 1) * n <= u * n
    BY <2>1, TimesMonotone
  <2> QED BY <1>1, <1>2, <1>3, <1>4, <2>2
<1>6. ASSUME u < q PROVE FALSE
  <2>1. u + 1 <= q /\ u + 1 \in Int /\ q \in Int
    BY <1>2, <1>6
  <2>2. (u + 1) * n <= q * n
    BY <2>1, TimesMonotone
  <2> QED BY <1>1, <1>2, <1>3, <1>4, <2>2
<1>7. u = q
  BY <1>2, <1>5, <1>6
<1>8. v = s
  BY <1>1, <1>2, <1>3, <1>7
<1> QED BY <1>1, <1>7, <1>8 DEF a, u, v

\* Which row of n a number is in.
LEMMA DivideWhere ==
    ASSUME NEW a \in Nat, NEW q \in Nat, NEW n \in Nat \ {0}
    PROVE  /\ a \div n = q <=> q * n <= a /\ a < (q + 1) * n
           /\ a \div n < q <=> a < q * n
           /\ a % n = 0 <=> a = (a \div n) * n
<1>1. a = (a \div n) * n + (a % n) /\ a \div n \in Nat /\ a % n \in 0 .. n - 1
  BY DivideWithRest
<1>2. q * n \in Nat /\ (q + 1) * n = q * n + n /\ (a \div n) * n \in Nat
      /\ (a \div n + 1) * n = (a \div n) * n + n
  BY <1>1
<1>3. /\ q < a \div n <=> q * n < (a \div n) * n
      /\ q + 1 <= a \div n <=> (q + 1) * n <= (a \div n) * n
      /\ (a \div n) + 1 <= q <=> ((a \div n) + 1) * n <= q * n
  <2>1. q \in Int /\ q + 1 \in Int /\ a \div n \in Int /\ (a \div n) + 1 \in Int
    BY <1>1
  <2> QED BY <2>1, TimesStrict
<1> QED BY <1>1, <1>2, <1>3

\* Rows of m rows of n: dividing twice.
LEMMA DivideTwice ==
    ASSUME NEW a \in Nat, NEW n \in Nat \ {0}, NEW m \in Nat \ {0}
    PROVE  /\ m * n \in Nat \ {0}
           /\ a \div (m * n) = (a \div n) \div m
           /\ a % n = 0 => (a % (m * n) = 0 <=> (a \div n) % m = 0)
<1> DEFINE b == a \div n
           q == b \div m
<1>1. m * n \in Nat \ {0}
  OBVIOUS
<1>2. b \in Nat /\ b * n <= a /\ a < (b + 1) * n /\ b * n \in Nat /\ (b + 1) * n \in Nat
  BY DivideWithRest, DivideWhere
<1> HIDE DEF b
<1>3. q \in Nat /\ q * m <= b /\ b < (q + 1) * m /\ q * m \in Nat /\ (q + 1) * m \in Nat
  BY <1>2, DivideWithRest, DivideWhere
<1> HIDE DEF q
<1>4. q * (m * n) = (q * m) * n /\ (q + 1) * (m * n) = ((q + 1) * m) * n
  BY <1>3
<1>5. (q * m) * n <= b * n
  BY <1>2, <1>3, TimesMonotone, q * m \in Int, b \in Int
<1>6. (b + 1) * n <= ((q + 1) * m) * n
  BY <1>2, <1>3, TimesMonotone, b + 1 \in Int, (q + 1) * m \in Int
<1>7. q * (m * n) <= a /\ a < (q + 1) * (m * n)
  <2>1. (q * m) * n \in Nat /\ ((q + 1) * m) * n \in Nat
    BY <1>3
  <2> QED BY <1>2, <1>4, <1>5, <1>6, <2>1
<1>8. a \div (m * n) = q
  BY <1>1, <1>3, <1>7, DivideWhere
<1>9. ASSUME a % n = 0
      PROVE  a % (m * n) = 0 <=> b % m = 0
  <2>1. a = b * n
    BY <1>9, DivideWhere, <1>2 DEF b
  <2>2. b % m = 0 <=> b = q * m
    BY <1>2, <1>3, DivideWhere DEF q
  <2>3. a % (m * n) = 0 <=> a = q * (m * n)
    BY <1>1, <1>3, <1>8, DivideWhere
  <2>4. b = q * m <=> b * n = (q * m) * n
    BY <1>2, <1>3, TimesStrict, b \in Int, q * m \in Int
  <2> QED BY <2>1, <2>2, <2>3, <2>4, <1>4
<1> QED BY <1>1, <1>8, <1>9 DEF b, q

-----------------------------------------------------------------------------
(***************************************************************************)
(* Addresses and cells.                                                     *)
(***************************************************************************)
\* The sizes in granules: what UsableConfig says of the constants.
LEMMA Geometry ==
    /\ GranuleSize \in Nat \ {0} /\ G \in Nat \ {0} /\ RegionSize \in Nat \ {0}
    /\ RegionCount \in Nat \ {0} /\ CellCount \in Nat \ {0}
    /\ BaseAddress \in Nat /\ WordMax \in Nat
    /\ RegionSize = G * GranuleSize
    /\ CoveredSize = RegionCount * RegionSize
    /\ CoveredSize = CellCount * GranuleSize
    /\ BaseAddress % RegionSize = 0
    /\ BaseAddress % GranuleSize = 0
    /\ BaseAddress + CoveredSize <= WordMax + 1
<1>1. /\ WordMax \in Nat /\ BaseAddress \in Nat
      /\ CoveredSize \in Nat \ {0} /\ GranuleSize \in Nat \ {0}
      /\ RegionSize \in Nat \ {0}
      /\ RegionSize % GranuleSize = 0
      /\ BaseAddress % RegionSize = 0
      /\ CoveredSize % RegionSize = 0
      /\ BaseAddress + CoveredSize <= WordMax + 1
  BY ConfigAssumption DEF UsableConfig
<1>2. G \in Nat /\ RegionSize = G * GranuleSize
  BY <1>1, DivideWithRest, DivideWhere DEF G, GranulesPerRegion
<1>3. G # 0
  BY <1>1, <1>2
<1>4. RegionCount \in Nat /\ CoveredSize = RegionCount * RegionSize
  BY <1>1, DivideWithRest, DivideWhere DEF RegionCount
<1>5. RegionCount # 0
  BY <1>1, <1>4
<1>6. CellCount \in Nat /\ CoveredSize = CellCount * GranuleSize
  <2> HIDE DEF G, RegionCount
  <2>1. RegionCount * (G * GranuleSize) = (RegionCount * G) * GranuleSize
    BY <1>1, <1>2, <1>4
  <2> QED BY <1>1, <1>2, <1>4, <2>1 DEF CellCount
<1>7. CellCount # 0
  BY <1>1, <1>6
<1>8. BaseAddress % GranuleSize = 0
  <2> DEFINE b == BaseAddress \div RegionSize
  <2>1. b \in Nat /\ BaseAddress = b * RegionSize
    BY <1>1, DivideWithRest, DivideWhere
  <2> HIDE DEF b
  <2>2. BaseAddress = (b * G) * GranuleSize + 0 /\ b * G \in Nat
    BY <1>1, <1>2, <2>1
  <2>3. 0 \in 0 .. GranuleSize - 1
    BY <1>1
  <2> QED BY <1>1, <2>2, <2>3, DivideUnique
<1> QED BY <1>1, <1>2, <1>3, <1>4, <1>5, <1>6, <1>7, <1>8

\* Cells and their addresses are in the same order, and a cell is where the
\* address arithmetic of the code finds it.
LEMMA CellAddress ==
    ASSUME NEW p \in Nat, NEW q \in Nat
    PROVE  /\ Addr(p) \in Nat
           /\ Addr(p) < Addr(q) <=> p < q
           /\ Addr(p) <= Addr(q) <=> p <= q
           /\ Addr(p) = Addr(q) <=> p = q
           /\ Addr(p) % GranuleSize = 0
           /\ Position(Addr(p)) = p
           /\ Relative(Addr(p)) = p * GranuleSize
<1> USE Geometry
<1>1. p * GranuleSize \in Nat /\ q * GranuleSize \in Nat
  OBVIOUS
<1>2. /\ p < q <=> p * GranuleSize < q * GranuleSize
      /\ p <= q <=> p * GranuleSize <= q * GranuleSize
      /\ p = q <=> p * GranuleSize = q * GranuleSize
  BY TimesStrict
<1>3. Addr(p) \in Nat /\ Relative(Addr(p)) = p * GranuleSize
  BY <1>1 DEF Addr, Relative
<1>4. Position(Addr(p)) = p
  <2>1. 0 \in 0 .. GranuleSize - 1 /\ p * GranuleSize + 0 = p * GranuleSize
    BY <1>1
  <2> QED BY <2>1, <1>3, DivideUnique DEF Position
<1>5. Addr(p) % GranuleSize = 0
  <2> DEFINE b == BaseAddress \div GranuleSize
  <2>1. b \in Nat /\ BaseAddress = b * GranuleSize
    BY DivideWithRest, DivideWhere
  <2> HIDE DEF b
  <2>2. Addr(p) = (b + p) * GranuleSize + 0 /\ b + p \in Nat
    BY <2>1, <1>1 DEF Addr
  <2>3. 0 \in 0 .. GranuleSize - 1
    OBVIOUS
  <2> QED BY <2>2, <2>3, DivideUnique
<1> QED BY <1>1, <1>2, <1>3, <1>4, <1>5 DEF Addr

\* The coordinates of a cell.
LEMMA CellPlace ==
    ASSUME NEW p \in Positions
    PROVE  /\ p \in Nat /\ p < CellCount
           /\ p \div G \in Regions /\ p % G \in Granules
           /\ Addr(p) \in Words
           /\ Covered(Addr(p))
           /\ RegionIndex(Addr(p)) = p \div G
           /\ GranuleIndex(Addr(p)) = p % G
<1> USE Geometry
<1>1. p \in Nat /\ p < CellCount
  BY DEF Positions, CellCount, G
<1>2. p \div G \in Regions /\ p % G \in Granules
  <2>1. p \div G \in Nat /\ p % G \in 0 .. G - 1
    BY <1>1, DivideWithRest
  <2>2. p \div G < RegionCount
    BY <1>1, DivideWhere DEF CellCount
  <2> QED BY <2>1, <2>2 DEF Regions, Granules, G
<1>3. p * GranuleSize \in Nat /\ p * GranuleSize < CoveredSize
  BY <1>1, TimesStrict
<1>4. Addr(p) \in Words /\ Covered(Addr(p))
  <2>1. Directory # "BOUNDED" => BaseAddress = 0
    BY ConfigAssumption DEF UsableConfig
  <2> QED BY <1>3, <2>1 DEF Addr, Words, Covered
<1>5. Relative(Addr(p)) = p * GranuleSize /\ Position(Addr(p)) = p
  BY <1>1, CellAddress
<1>6. RegionIndex(Addr(p)) = p \div G
  <2> DEFINE a == p * GranuleSize
  <2>1. a \in Nat /\ a \div GranuleSize = p
    BY <1>3, <1>5 DEF Position
  <2> HIDE DEF a
  <2>2. a \div (G * GranuleSize) = (a \div GranuleSize) \div G
    BY <2>1, DivideTwice
  <2> QED BY <2>1, <2>2, <1>5 DEF RegionIndex, a
<1>7. GranuleIndex(Addr(p)) = p % G
  BY <1>5 DEF GranuleIndex, Position, G
<1> QED BY <1>1, <1>2, <1>4, <1>6, <1>7

\* Where the part of a range that lies in the region of its first cell ends.
RowEnd(p) == (p \div G + 1) * G
Stop(p, e) == IF RowEnd(p) < e THEN RowEnd(p) ELSE e

\* The region of a cell, in cells and in addresses.
LEMMA RowOfCell ==
    ASSUME NEW p \in Positions
    PROVE  /\ (p \div G) * G \in Nat /\ RowEnd(p) \in Nat
           /\ RowEnd(p) = (p \div G) * G + G
           /\ (p \div G) * G <= p /\ p < RowEnd(p) /\ RowEnd(p) <= CellCount
           /\ p % G = p - (p \div G) * G
           /\ Addr(p) - (Addr(p) % RegionSize) = Addr((p \div G) * G)
           /\ Addr(p) % RegionSize = 0 <=> p = (p \div G) * G
           /\ Addr(RowEnd(p)) = Addr((p \div G) * G) + RegionSize
<1> DEFINE r == p \div G
           s == p % G
           b == BaseAddress \div RegionSize
<1> USE Geometry
<1>1. p \in Nat /\ r \in Nat /\ s \in 0 .. G - 1 /\ p = r * G + s /\ r \in Regions
  BY CellPlace, DivideWithRest
<1>2. b \in Nat /\ BaseAddress = b * RegionSize
  BY DivideWithRest, DivideWhere
<1> HIDE DEF r, s, b
<1>3. r * G \in Nat /\ (r + 1) * G = r * G + G /\ r + 1 <= RegionCount
  BY <1>1 DEF Regions
<1>4. (r + 1) * G <= CellCount
  BY <1>1, <1>3, r + 1 \in Int, RegionCount \in Int, TimesMonotone DEF CellCount
<1>5. /\ s * GranuleSize \in 0 .. RegionSize - 1
      /\ s * GranuleSize = 0 <=> s = 0
  BY <1>1, TimesStrict
<1>6. /\ Addr(r * G) = BaseAddress + r * RegionSize
      /\ Addr((r + 1) * G) = Addr(r * G) + RegionSize
      /\ Addr(p) = Addr(r * G) + s * GranuleSize
      /\ Addr(r * G) \in Nat
  <2>1. (r * G) * GranuleSize = r * RegionSize
    BY <1>1
  <2>2. (r * G + G) * GranuleSize = r * RegionSize + RegionSize
    BY <1>1
  <2>3. p * GranuleSize = (r * G) * GranuleSize + s * GranuleSize
    BY <1>1, <1>3
  <2>4. r * RegionSize \in Nat
    BY <1>1
  <2> QED BY <1>3, <1>5, <2>1, <2>2, <2>3, <2>4 DEF Addr
<1>7. Addr(p) % RegionSize = s * GranuleSize
  <2>1. Addr(p) = (b + r) * RegionSize + s * GranuleSize /\ b + r \in Nat
    <3>1. (b + r) * RegionSize = b * RegionSize + r * RegionSize
      BY <1>1, <1>2
    <3> QED BY <1>1, <1>2, <1>6, <3>1
  <2>2. \A c \in Nat, t \in 0 .. RegionSize - 1 : (c * RegionSize + t) % RegionSize = t
    BY DivideUnique
  <2> QED BY <1>5, <2>1, <2>2
<1>8. p = r * G <=> s = 0
  BY <1>1, <1>3
<1>9. RowEnd(p) = (r + 1) * G
  BY DEF RowEnd, r
<1>10. Addr(p) - (Addr(p) % RegionSize) = Addr(r * G)
  BY <1>5, <1>6, <1>7
<1>11. Addr(p) % RegionSize = 0 <=> p = r * G
  BY <1>5, <1>7, <1>8
<1>12. /\ r * G <= p /\ p < (r + 1) * G
       /\ s = p - r * G
  BY <1>1, <1>3
<1> QED BY <1>3, <1>4, <1>6, <1>9, <1>10, <1>11, <1>12 DEF r, s

\* The part of a range that an iteration of a loop works on.
LEMMA PartOfRange ==
    ASSUME NEW p \in Positions, NEW e \in Nat, p < e, e <= CellCount,
           Addr(e) <= WordMax
    PROVE  /\ Stop(p, e) \in Nat /\ p < Stop(p, e) /\ Stop(p, e) <= e
           /\ Stop(p, e) <= RowEnd(p)
           /\ PartEnd(Addr(p), Addr(e)) = Addr(Stop(p, e))
           /\ PartGranules(Addr(p), Addr(e))
                = (p % G) .. (p % G) + (Stop(p, e) - p) - 1
           /\ WholeRegion(Addr(p), Addr(e))
                <=> p = (p \div G) * G /\ RowEnd(p) <= e
           /\ ReachesBoundary(Addr(p), Addr(e))
                <=> /\ p = (p \div G) * G
                    /\ RowEnd(p) <= e \/ WordMax < Addr(RowEnd(p))
<1> USE Geometry
<1> DEFINE row == (p \div G) * G
           last == RowEnd(p)
           m == Stop(p, e)
<1>1. /\ row \in Nat /\ last \in Nat /\ last = row + G /\ row <= p /\ p < last
      /\ last <= CellCount /\ p % G = p - row
      /\ Addr(p) - (Addr(p) % RegionSize) = Addr(row)
      /\ Addr(p) % RegionSize = 0 <=> p = row
      /\ Addr(last) = Addr(row) + RegionSize
  BY RowOfCell
<1>2. p \in Nat /\ GranuleIndex(Addr(p)) = p % G
  BY CellPlace
<1>3. m = (IF last < e THEN last ELSE e)
  BY DEF Stop
<1> HIDE DEF row, last, m
<1>4. m \in Nat /\ p < m /\ m <= e /\ m <= last
  BY <1>1, <1>3
<1>5. /\ Addr(e) \in Nat /\ Addr(p) \in Nat /\ Addr(row) \in Nat /\ Addr(last) \in Nat
      /\ Addr(m) \in Nat
      /\ Addr(last) < Addr(e) <=> last < e
      /\ Addr(e) < Addr(last) <=> e < last
      /\ Addr(p) < Addr(m)
      /\ Addr(m) = Addr(last) <=> m = last
      /\ Addr(m) = Addr(e) <=> m = e
      /\ Addr(p) = Addr(row) <=> p = row
  BY <1>1, <1>2, <1>4, CellAddress
<1>6. memx_region_boundary(Addr(p), Addr(e))
        = IF Addr(last) > WordMax THEN Addr(e) ELSE Addr(last)
  BY <1>1, <1>5 DEF memx_region_boundary
<1>7. PartEnd(Addr(p), Addr(e)) = Addr(m)
  BY <1>3, <1>5, <1>6 DEF PartEnd
<1>8. WholeRegion(Addr(p), Addr(e)) <=> p = row /\ last <= e
  <2>1. p = row => (Addr(m) - Addr(p) = RegionSize <=> Addr(m) = Addr(last))
    <3>1. ASSUME p = row PROVE Addr(m) - Addr(p) = RegionSize <=> Addr(m) = Addr(last)
      <4>1. Addr(last) = Addr(p) + RegionSize
        BY <1>1, <3>1
      <4> QED BY <4>1, <1>5
    <3> QED BY <3>1
  <2>2. m = last <=> last <= e
    BY <1>1, <1>3
  <2> QED BY <1>1, <1>5, <1>7, <2>1, <2>2 DEF WholeRegion
<1>9. ReachesBoundary(Addr(p), Addr(e))
        <=> p = row /\ (last <= e \/ WordMax < Addr(last))
  <2>1. Addr(m) = (IF Addr(last) > WordMax THEN Addr(e) ELSE Addr(last))
            <=> last <= e \/ WordMax < Addr(last)
    BY <1>1, <1>3, <1>5
  <2> QED BY <1>1, <1>6, <1>7, <2>1 DEF ReachesBoundary
<1>10. (Addr(m) - Addr(p)) \div GranuleSize = m - p
  <2>1. m - p \in Nat /\ 0 \in 0 .. GranuleSize - 1
    BY <1>2, <1>4
  <2>2. Addr(m) - Addr(p) = (m - p) * GranuleSize + 0
    <3>1. m * GranuleSize \in Nat /\ p * GranuleSize \in Nat
          /\ (m - p) * GranuleSize = m * GranuleSize - p * GranuleSize
      BY <1>2, <1>4
    <3> QED BY <3>1 DEF Addr
  <2> QED BY <2>1, <2>2, DivideUnique
<1>11. PartGranules(Addr(p), Addr(e)) = (p % G) .. (p % G) + (m - p) - 1
  BY <1>2, <1>7, <1>10 DEF PartGranules
<1> QED BY <1>4, <1>7, <1>8, <1>9, <1>11 DEF row, last, m

\* Which cells an iteration writes, and which regions it leaves alone.
LEMMA PartCells ==
    ASSUME NEW p \in Positions, NEW e \in Nat, p < e, e <= CellCount,
           Addr(e) <= WordMax
    PROVE  /\ \A q \in p .. Stop(p, e) - 1 : q \in Positions /\ q \div G = p \div G
           /\ \A q \in Stop(p, e) .. e - 1 : q \in Positions /\ q \div G # p \div G
           /\ p = (p \div G) * G => \A q \in 0 .. p - 1 : q \div G # p \div G
           /\ Stop(p, e) < e => /\ Stop(p, e) = RowEnd(p) /\ Stop(p, e) \in Positions
                                /\ Stop(p, e) % G = 0
           /\ \A q \in Positions : q \div G = p \div G =>
                (q \in p .. Stop(p, e) - 1 <=> q % G \in PartGranules(Addr(p), Addr(e)))
<1> USE Geometry
<1> DEFINE r == p \div G
           m == Stop(p, e)
<1>1. /\ r * G \in Nat /\ RowEnd(p) \in Nat /\ RowEnd(p) = (r + 1) * G
      /\ r * G <= p /\ p < RowEnd(p) /\ RowEnd(p) <= CellCount
      /\ p % G = p - r * G /\ p \in Nat /\ r \in Nat
  BY RowOfCell, CellPlace DEF RowEnd, Regions
<1>2. /\ m \in Nat /\ p < m /\ m <= e /\ m <= RowEnd(p)
      /\ PartGranules(Addr(p), Addr(e)) = (p % G) .. (p % G) + (m - p) - 1
  BY PartOfRange
<1>3. m = (IF RowEnd(p) < e THEN RowEnd(p) ELSE e)
  BY DEF Stop
<1>4. ASSUME NEW q \in Nat
      PROVE  q \div G = r <=> r * G <= q /\ q < RowEnd(p)
  <2> HIDE DEF r
  <2>1. q \div G = r <=> r * G <= q /\ q < (r + 1) * G
    BY <1>1, DivideWhere
  <2> QED BY <1>1, <2>1
<1>5. Positions = 0 .. CellCount - 1
  BY DEF Positions, CellCount, G
<1> HIDE DEF r, m
<1>6. \A q \in p .. m - 1 : q \in Positions /\ q \div G = r
  <2>1. SUFFICES ASSUME NEW q \in p .. m - 1 PROVE q \in Positions /\ q \div G = r
    OBVIOUS
  <2>2. q \in Nat /\ r * G <= q /\ q < RowEnd(p) /\ q < CellCount
    BY <1>1, <1>2
  <2>3. q \div G = r
    BY <2>2, <1>4
  <2>4. q \in Positions
    BY <2>2, <1>5
  <2> QED BY <2>3, <2>4
<1>7. \A q \in m .. e - 1 : q \in Positions /\ q \div G # r
  <2>1. SUFFICES ASSUME NEW q \in m .. e - 1 PROVE q \in Positions /\ q \div G # r
    OBVIOUS
  <2>2. q \in Nat /\ RowEnd(p) <= q /\ q < CellCount
    BY <1>1, <1>2, <1>3
  <2>3. q \div G = r <=> r * G <= q /\ q < RowEnd(p)
    BY <2>2, <1>4
  <2>4. q \in Positions
    BY <2>2, <1>5
  <2>5. ~(q < RowEnd(p))
    BY <1>1, <2>2
  <2> QED BY <2>3, <2>4, <2>5
<1>8. p = r * G => \A q \in 0 .. p - 1 : q \div G # r
  BY <1>1, <1>4
<1>9. ASSUME m < e PROVE m = RowEnd(p) /\ m \in Positions /\ m % G = 0
  <2>1. m = (r + 1) * G + 0 /\ m = RowEnd(p) /\ 0 \in 0 .. G - 1 /\ r + 1 \in Nat
    BY <1>1, <1>2, <1>3, <1>9
  <2>2. m % G = 0
    BY <2>1, DivideUnique
  <2> QED BY <1>2, <1>5, <1>9, <2>1, <2>2
<1>10. ASSUME NEW q \in Positions, q \div G = r
       PROVE  q \in p .. m - 1 <=> q % G \in PartGranules(Addr(p), Addr(e))
  <2>1. q \in Nat /\ q % G = q - r * G
    BY <1>10, RowOfCell, CellPlace
  <2> QED BY <1>1, <1>2, <2>1
<1> QED BY <1>6, <1>7, <1>8, <1>9, <1>10 DEF r, m

\* A range that memx_validate_range accepts is a range of cells, its end is a
\* word, and the addresses looked up are those of its cells.
LEMMA ValidRange ==
    ASSUME NEW base \in Words, NEW size \in Words,
           memx_validate_range(base, size) = "OK"
    PROVE  \E lo \in Positions, e \in Nat :
              /\ base = Addr(lo) /\ base + size = Addr(e)
              /\ lo < e /\ e <= CellCount /\ Addr(e) <= WordMax
              /\ \A q \in Nat : q < e /\ lo <= q => Addr(q) \in Targets(base, base + size)
              /\ \A a \in Targets(base, base + size) :
                    \E q \in lo .. e - 1 : a = Addr(q)
<1> USE Geometry
<1>1. /\ base \in Nat /\ size \in Nat /\ size # 0
      /\ base % GranuleSize = 0 /\ size % GranuleSize = 0
      /\ base + size <= WordMax
      /\ Covered(base) /\ Covered(base + size - 1)
  BY DEF memx_validate_range, memx_add_overflows, Words
<1>2. BaseAddress <= base /\ base + size <= BaseAddress + CoveredSize
  <2>1. Directory # "BOUNDED" => BaseAddress = 0
    BY ConfigAssumption DEF UsableConfig
  <2> QED BY <1>1, <2>1 DEF Covered
<1> DEFINE b == BaseAddress \div GranuleSize
           Cells(a) == (a \div GranuleSize) - b
<1>3. b \in Nat /\ BaseAddress = b * GranuleSize
  BY DivideWithRest, DivideWhere
<1>4. ASSUME NEW a \in Nat, a % GranuleSize = 0, BaseAddress <= a
      PROVE  Cells(a) \in Nat /\ a = Addr(Cells(a))
  <2> DEFINE k == a \div GranuleSize
  <2>1. k \in Nat /\ a = k * GranuleSize
    BY <1>4, DivideWithRest, DivideWhere
  <2> HIDE DEF b, k
  <2>2. b <= k
    BY <1>3, <1>4, <2>1, TimesStrict
  <2>3. (k - b) * GranuleSize = k * GranuleSize - b * GranuleSize
    BY <1>3, <2>1
  <2>4. k * GranuleSize \in Nat /\ b * GranuleSize \in Nat
    BY <1>3, <2>1
  <2> QED BY <1>3, <2>1, <2>2, <2>3, <2>4 DEF Addr, k
<1> DEFINE lo == Cells(base)
           n == size \div GranuleSize
           e == lo + n
<1>5. lo \in Nat /\ base = Addr(lo)
  BY <1>1, <1>2, <1>4
<1>6a. n \in Nat /\ size = n * GranuleSize
  BY <1>1, DivideWithRest, DivideWhere
<1> HIDE DEF lo, n, b
<1>6. n \in Nat /\ size = n * GranuleSize /\ n # 0
  BY <1>1, <1>6a
<1>7. e \in Nat /\ base + size = Addr(e) /\ lo < e
  <2>1. (lo + n) * GranuleSize = lo * GranuleSize + n * GranuleSize
        /\ lo * GranuleSize \in Nat /\ n * GranuleSize \in Nat
    BY <1>5, <1>6
  <2> QED BY <1>5, <1>6, <2>1 DEF Addr
<1>8. e <= CellCount
  <2>1. Addr(e) <= Addr(CellCount)
    BY <1>2, <1>7 DEF Addr
  <2> QED BY <1>7, <2>1, CellAddress
<1>9. lo \in Positions
  BY <1>5, <1>7, <1>8 DEF Positions, CellCount, G
<1>10. ASSUME NEW q \in Nat, q < e, lo <= q
       PROVE  Addr(q) \in Targets(base, base + size)
  <2>1. Addr(q) \in Nat /\ Addr(q) % GranuleSize = 0
    BY CellAddress
  <2>2. Addr(lo) <= Addr(q) /\ Addr(q) < Addr(e)
    BY <1>5, <1>7, <1>10, CellAddress
  <2> QED BY <1>1, <1>5, <1>7, <2>1, <2>2 DEF Targets
<1>11. ASSUME NEW a \in Targets(base, base + size)
       PROVE  \E q \in lo .. e - 1 : a = Addr(q)
  <2>1. a \in Nat /\ a % GranuleSize = 0 /\ base <= a /\ a < base + size
    BY <1>1 DEF Targets
  <2>2. Cells(a) \in Nat /\ a = Addr(Cells(a))
    BY <1>2, <1>1, <2>1, <1>4
  <2>3. PICK q \in Nat : a = Addr(q)
    BY <2>2
  <2>4. lo <= q /\ q < e
    BY <1>5, <1>7, <2>1, <2>3, CellAddress
  <2> QED BY <1>5, <1>7, <2>3, <2>4
<1> HIDE DEF e
<1>12. Addr(e) <= WordMax
  BY <1>1, <1>7
<1> QED BY <1>5, <1>7, <1>8, <1>9, <1>10, <1>11, <1>12

-----------------------------------------------------------------------------
(***************************************************************************)
(* Descriptors.                                                             *)
(***************************************************************************)
\* The three kinds of descriptor.
LEMMA DescriptorKinds ==
    ASSUME NEW d \in Descriptors
    PROVE  /\ d.type \in {"EMPTY", "UNIFORM", "DENSE"}
           /\ d.type = "EMPTY" => d = Empty
           /\ d.type = "UNIFORM" => d.handle \in InlineHandles
           /\ d.type = "DENSE" => d.entries \in Tables \cup {Null}
<1>1. CASE d = Empty
  BY <1>1 DEF Empty
<1>2. CASE \E h \in InlineHandles : d = Uniform(h)
  BY <1>2 DEF Uniform
<1>3. CASE \E t \in Tables \cup {Null} : d = Dense(t)
  BY <1>3 DEF Dense
<1> QED BY <1>1, <1>2, <1>3 DEF Descriptors

\* What the constructors make, and what a lookup in it returns.
LEMMA EmptyDescriptor ==
    /\ Empty \in Descriptors /\ Empty.type = "EMPTY"
    /\ \A g : memx_region_lookup(Empty, g) = Invalid
BY DEF Empty, Descriptors, memx_region_lookup

LEMMA UniformDescriptor ==
    ASSUME NEW h \in InlineHandles
    PROVE  /\ Uniform(h) \in Descriptors /\ Uniform(h).type = "UNIFORM"
           /\ Uniform(h).handle = h
           /\ \A g : memx_region_lookup(Uniform(h), g) = h
BY DEF Uniform, Descriptors, memx_region_lookup

LEMMA DenseDescriptor ==
    ASSUME NEW t \in Tables \cup {Null}
    PROVE  /\ Dense(t) \in Descriptors /\ Dense(t).type = "DENSE"
           /\ Dense(t).entries = t
           /\ \A g : memx_region_lookup(Dense(t), g) = t[g]
BY DEF Dense, Descriptors, memx_region_lookup

\* A lookup in a descriptor, by kind.
LEMMA LookupKinds ==
    ASSUME NEW d, NEW g
    PROVE  /\ d.type = "EMPTY" => memx_region_lookup(d, g) = Invalid
           /\ d.type = "UNIFORM" => memx_region_lookup(d, g) = d.handle
           /\ d.type = "DENSE" => memx_region_lookup(d, g) = d.entries[g]
BY DEF memx_region_lookup

\* memx_region_reclassify changes the form of a table and no entry of it.
LEMMA ReclassifyKeepsTable ==
    ASSUME NEW t \in Tables
    PROVE  LET result == memx_region_reclassify(t)
           IN  /\ result.descriptor \in Descriptors
               /\ result.descriptor.type = "DENSE" =>
                    result.descriptor.entries \in Tables
               /\ \A g \in Granules :
                    memx_region_lookup(result.descriptor, g) = t[g]
               /\ result.tables = IF result.descriptor.type = "DENSE" THEN 0 ELSE -1
               /\ result.uniform = IF result.descriptor.type = "UNIFORM" THEN 1 ELSE 0
<1> DEFINE result == memx_region_reclassify(t)
<1>1. CASE (\A g \in Granules : t[g] = t[0]) /\ t[0] = Invalid
  <2>1. result = [descriptor |-> Empty, uniform |-> 0, tables |-> -1]
    BY <1>1, HandleAssumption DEF memx_region_reclassify
  <2> HIDE DEF result
  <2>2. result.descriptor = Empty /\ result.uniform = 0 /\ result.tables = -1
    BY <2>1
  <2> QED BY <1>1, <2>2, EmptyDescriptor DEF result
<1>2. CASE (\A g \in Granules : t[g] = t[0]) /\ t[0] # Invalid /\ t[0] \in InlineHandles
  <2>1. result = [descriptor |-> Uniform(t[0]), uniform |-> 1, tables |-> -1]
    BY <1>2 DEF memx_region_reclassify
  <2> HIDE DEF result
  <2>2. result.descriptor = Uniform(t[0]) /\ result.uniform = 1 /\ result.tables = -1
    BY <2>1
  <2> QED BY <1>2, <2>2, UniformDescriptor DEF result
<1>3. CASE ~(\A g \in Granules : t[g] = t[0]) \/ t[0] \notin InlineHandles \cup {Invalid}
  <2>1. result = [descriptor |-> Dense(t), uniform |-> 0, tables |-> 0]
    BY <1>3 DEF memx_region_reclassify
  <2> HIDE DEF result
  <2>2. result.descriptor = Dense(t) /\ result.uniform = 0 /\ result.tables = 0
    BY <2>1
  <2> QED BY <2>2, DenseDescriptor DEF result
<1> QED BY <1>1, <1>2, <1>3

\* How many descriptors have a given kind after one of them has been replaced.
Count(f, kind) == Cardinality({q \in Regions : f[q].type = kind})

LEMMA CountAfter ==
    ASSUME NEW f \in [Regions -> Descriptors], NEW r \in Regions, NEW d, NEW kind,
           NEW f2, \A q \in Regions : f2[q] = IF q = r THEN d ELSE f[q]
    PROVE  /\ Count(f, kind) \in Nat
           /\ Count(f2, kind)
                = Count(f, kind) + (IF d.type = kind THEN 1 ELSE 0)
                                 - (IF f[r].type = kind THEN 1 ELSE 0)
<1> DEFINE S == {q \in Regions : f[q].type = kind}
           T == {q \in Regions : f2[q].type = kind}
<1>1. IsFiniteSet(Regions)
  BY FS_Interval, Geometry DEF Regions
<1>2. IsFiniteSet(S) /\ Cardinality(S) \in Nat
  BY <1>1, FS_Subset, FS_CardinalityType
<1>3. CASE d.type = kind <=> f[r].type = kind
  <2>1. T = S
    BY <1>3
  <2>2. Cardinality(T) = Cardinality(S)
    BY <2>1
  <2>3. CASE d.type = kind
    BY <1>2, <1>3, <2>2, <2>3 DEF Count
  <2>4. CASE d.type # kind
    BY <1>2, <1>3, <2>2, <2>4 DEF Count
  <2> QED BY <2>3, <2>4
<1>4. CASE d.type = kind /\ f[r].type # kind
  <2>1. T = S \cup {r} /\ r \notin S
    BY <1>4
  <2>2. Cardinality(T) = Cardinality(S) + 1
    BY <1>2, <2>1, FS_AddElement
  <2> QED BY <1>2, <1>4, <2>2 DEF Count
<1>5. CASE d.type # kind /\ f[r].type = kind
  <2>1. T = S \ {r} /\ r \in S
    BY <1>5
  <2>2. Cardinality(T) = Cardinality(S) - 1
    BY <1>2, <2>1, FS_RemoveElement
  <2> QED BY <1>2, <1>5, <2>2 DEF Count
<1> QED BY <1>3, <1>4, <1>5

-----------------------------------------------------------------------------
(***************************************************************************)
(* The invariant.                                                           *)
(***************************************************************************)
\* The handle the descriptor of its region gives a cell, and the cells of the
\* running call: its first, the one under the cursor, and the one after its last.
Cell(p) == memx_region_lookup(region[p \div G], p % G)
Lo == Position(req.base)
Cur == Position(cursor)
End == Position(req.end)

IndexType ==
    /\ life \in {"none", "creating", "live"}
    /\ mode \in {"ADAPTIVE", "FLAT", "OVERLAY"}
    /\ region \in [Regions -> Descriptors]
    /\ leaf \in [Roots -> BOOLEAN]
    /\ flat_entries \in [Positions -> Slots] \cup {Null}
    /\ overlay_entries \in [Positions -> Slots] \cup {Null}
    /\ pc \in {"idle", "insert_prepare", "insert_write",
               "remove_prepare", "remove_clear"}
    /\ req \in Requests
    /\ cursor \in Words

\* Only a live bounded index is ever optimised, and never during a call; while
\* it is adaptive, a DENSE descriptor has its table.
ModeInv ==
    /\ life # "live" => /\ region = AllEmpty /\ leaf = NoLeaves
                        /\ mode = "ADAPTIVE" /\ pc = "idle"
    /\ mode # "ADAPTIVE" => Directory = "BOUNDED" /\ pc = "idle"
    /\ mode = "FLAT" => flat_entries \in [Positions -> Slots]
    /\ mode = "OVERLAY" => overlay_entries \in [Positions -> Slots]
    /\ mode = "ADAPTIVE" => \A r \in Regions :
            region[r].type = "DENSE" => region[r].entries \in Tables

\* A loop has whole granules before it, and stands at the start of its range or
\* of a region.
LoopInv == pc # "idle" =>
    /\ req.base = Addr(Lo) /\ req.end = Addr(End) /\ cursor = Addr(Cur)
    /\ Lo \in Nat /\ Cur \in Nat /\ End \in Nat
    /\ Lo <= Cur /\ Cur < End /\ End <= CellCount
    /\ Cur = Lo \/ Cur % G = 0
    /\ req.handle \in Handles

\* What the preflight found stays true in front of the loop.
ContentInv ==
    /\ pc = "insert_prepare" => \A p \in Lo .. End - 1 : Cell(p) = Invalid
    /\ pc = "insert_write" => \A p \in Cur .. End - 1 : Cell(p) = Invalid
    /\ pc = "remove_prepare" => \A p \in Lo .. End - 1 : Cell(p) = req.handle
    /\ pc = "remove_clear" => \A p \in Cur .. End - 1 : Cell(p) = req.handle

\* What a prepare loop has made of the regions behind it, and a commit loop
\* therefore finds: nothing is left to allocate.
Within(r) == Lo <= r * G /\ (r + 1) * G <= End
InsertReady(r) ==
    /\ HasRegion(r)
    /\ region[r].type = "EMPTY" => Within(r) /\ req.handle \in InlineHandles
RemoveReady(r) == region[r].type = "UNIFORM" => Within(r)
ReadyInv ==
    /\ pc = "insert_prepare" => \A p \in Lo .. Cur - 1 : InsertReady(p \div G)
    /\ pc = "insert_write" => \A p \in Cur .. End - 1 : InsertReady(p \div G)
    /\ pc = "remove_prepare" => \A p \in Lo .. Cur - 1 : RemoveReady(p \div G)
    /\ pc = "remove_clear" => \A p \in Cur .. End - 1 : RemoveReady(p \div G)

\* The granule whose end is not a word is never mapped.
EdgeInv == \A p \in Positions :
    mode = "ADAPTIVE" /\ Addr(p + 1) > WordMax => Cell(p) = Invalid

CountInv ==
    /\ dense_regions = Count(region, "DENSE")
    /\ uniform_regions = Count(region, "UNIFORM")

IndexInv ==
    /\ IndexType /\ ModeInv /\ LoopInv /\ ContentInv /\ ReadyInv
    /\ EdgeInv /\ DescriptorsSound /\ CountInv

\* In an adaptive index the checked lookup is the lookup in the descriptor: a
\* leaf that is not there stands for EMPTY descriptors.
CellsLookup == mode = "ADAPTIVE" => \A p \in Positions : Lookup(p) = Cell(p)

LEMMA LookupIsCell == DescriptorsSound => CellsLookup
<1> SUFFICES ASSUME DescriptorsSound, mode = "ADAPTIVE", NEW p \in Positions
             PROVE  Lookup(p) = Cell(p)
  BY DEF CellsLookup
<1>1. /\ Covered(Addr(p)) /\ RegionIndex(Addr(p)) = p \div G
      /\ GranuleIndex(Addr(p)) = p % G /\ p \div G \in Regions
  BY CellPlace
<1>2. ~HasRegion(p \div G) => region[p \div G] = Empty
  BY <1>1 DEF DescriptorsSound
<1>3. CASE HasRegion(p \div G)
  BY <1>1, <1>3 DEF Lookup, Cell, memx_lookup_address
<1>4. CASE ~HasRegion(p \div G)
  BY <1>1, <1>2, <1>4, EmptyDescriptor DEF Lookup, Cell, memx_lookup_address
<1> QED BY <1>3, <1>4

LEMMA LookupIsCellNext == DescriptorsSound' => CellsLookup'
BY LookupIsCell, PTL

\* The geometry of one iteration of a loop.
LoopGeometry ==
    /\ mode = "ADAPTIVE" /\ life = "live"
    /\ Cur \in Positions /\ Cur \in Nat /\ Lo \in Nat /\ End \in Nat
    /\ Lo <= Cur /\ Cur < End /\ End <= CellCount
    /\ req.base = Addr(Lo) /\ req.end = Addr(End) /\ cursor = Addr(Cur)
    /\ Addr(End) <= WordMax
    /\ Here = Cur \div G /\ Here \in Regions /\ Here \in Nat
    /\ HereEnd = Addr(Stop(Cur, End))
    /\ Stop(Cur, End) \in Nat /\ Cur < Stop(Cur, End) /\ Stop(Cur, End) <= End
    /\ HereEnd < req.end <=> Stop(Cur, End) < End

LEMMA LoopFacts == IndexInv /\ pc # "idle" => LoopGeometry
<1> SUFFICES ASSUME IndexInv, pc # "idle" PROVE LoopGeometry
  OBVIOUS
<1> USE Geometry
<1>1. /\ req.base = Addr(Lo) /\ req.end = Addr(End) /\ cursor = Addr(Cur)
      /\ Lo \in Nat /\ Cur \in Nat /\ End \in Nat
      /\ Lo <= Cur /\ Cur < End /\ End <= CellCount
  BY DEF IndexInv, LoopInv
<1>2. mode = "ADAPTIVE" /\ life = "live"
  BY DEF IndexInv, ModeInv
<1>3. Addr(End) <= WordMax
  BY <1>1 DEF IndexInv, IndexType, Requests, Words
<1>4. Cur \in Positions
  BY <1>1 DEF Positions, CellCount, G
<1>5. Here = Cur \div G /\ Here \in Regions
  BY <1>1, <1>4, CellPlace DEF Here
<1>6. Here \in Nat
  BY <1>5 DEF Regions
<1>7. /\ HereEnd = Addr(Stop(Cur, End))
      /\ Stop(Cur, End) \in Nat /\ Cur < Stop(Cur, End) /\ Stop(Cur, End) <= End
  BY <1>1, <1>3, <1>4, PartOfRange DEF HereEnd
<1>8. HereEnd < req.end <=> Stop(Cur, End) < End
  BY <1>1, <1>7, CellAddress
<1> QED BY <1>1, <1>2, <1>3, <1>4, <1>5, <1>6, <1>7, <1>8 DEF LoopGeometry

\* A region of a sparse directory has its slot in sparse_root.
LEMMA RootOfRegion ==
    ASSUME Directory = "SPARSE", NEW r \in Regions
    PROVE  RootIndex(r) \in Roots
<1> USE Geometry
<1> DEFINE L == LeafRegions
           k == CoveredSize \div (RegionSize * L)
<1>1. L \in Nat \ {0} /\ CoveredSize % (RegionSize * L) = 0 /\ CoveredSize \in Nat
  BY ConfigAssumption DEF UsableConfig
<1>2. RegionSize * L \in Nat \ {0}
  BY <1>1
<1>3. k \in Nat /\ CoveredSize = k * (RegionSize * L)
  BY <1>1, <1>2, DivideWithRest, DivideWhere
<1> HIDE DEF k, L
<1>4. k * (RegionSize * L) = (k * L) * RegionSize /\ k * L \in Nat
  BY <1>1, <1>3
<1>5. RegionCount = k * L
  BY <1>1, <1>3, <1>4, TimesStrict
<1>6. RegionCount \div L = k
  <2>1. RegionCount = k * L + 0 /\ 0 \in 0 .. L - 1
    BY <1>1, <1>4, <1>5
  <2> QED BY <1>1, <1>3, <2>1, DivideUnique
<1>7. r \in Nat /\ r < k * L
  BY <1>5 DEF Regions
<1>8. r \div L \in Nat /\ r \div L < k
  BY <1>1, <1>3, <1>7, DivideWithRest, DivideWhere
<1> QED BY <1>3, <1>6, <1>8 DEF RootIndex, Roots, L

-----------------------------------------------------------------------------
(***************************************************************************)
(* One iteration.                                                           *)
(***************************************************************************)
\* Writing h to the part of a region writes the cells from the cursor on.
LEMMA PartWritten ==
    ASSUME LoopGeometry, IndexType, NEW d, NEW h,
           region' = [region EXCEPT ![Here] = d],
           \A g \in Granules : memx_region_lookup(d, g) =
                IF g \in PartGranules(cursor, req.end)
                THEN h ELSE memx_region_lookup(region[Here], g)
    PROVE  \A p \in Positions : Cell(p)' =
                IF p \in Cur .. Stop(Cur, End) - 1 THEN h ELSE Cell(p)
<1>1. /\ Cur \in Positions /\ End \in Nat /\ Cur < End /\ End <= CellCount
      /\ Addr(End) <= WordMax /\ cursor = Addr(Cur) /\ req.end = Addr(End)
      /\ Here = Cur \div G /\ Here \in Regions
  BY DEF LoopGeometry
<1>2. SUFFICES ASSUME NEW p \in Positions
               PROVE  Cell(p)' =
                        IF p \in Cur .. Stop(Cur, End) - 1 THEN h ELSE Cell(p)
  OBVIOUS
<1>3. p \div G \in Regions /\ p % G \in Granules
  BY CellPlace
<1>4. /\ p \in Cur .. Stop(Cur, End) - 1 => p \div G = Here
      /\ p \div G = Here =>
            (p \in Cur .. Stop(Cur, End) - 1 <=> p % G \in PartGranules(cursor, req.end))
  BY <1>1, PartCells
<1>5. region'[p \div G] = IF p \div G = Here THEN d ELSE region[p \div G]
  BY <1>3 DEF IndexType
<1>6. Cell(p)' = memx_region_lookup(region'[p \div G], p % G)
  BY DEF Cell, memx_region_lookup
<1>7. CASE p \div G = Here
  BY <1>3, <1>4, <1>5, <1>6, <1>7 DEF Cell
<1>8. CASE p \div G # Here
  BY <1>4, <1>5, <1>6, <1>8 DEF Cell
<1> QED BY <1>7, <1>8

\* Changing the form of a descriptor changes no cell.
LEMMA FormChanged ==
    ASSUME IndexType, NEW r \in Regions, NEW d,
           region' = [region EXCEPT ![r] = d],
           \A g \in Granules : memx_region_lookup(d, g) = memx_region_lookup(region[r], g)
    PROVE  \A p \in Positions : Cell(p)' = Cell(p)
<1>2. SUFFICES ASSUME NEW p \in Positions
               PROVE  Cell(p)' = Cell(p)
  OBVIOUS
<1>3. p \div G \in Regions /\ p % G \in Granules
  BY CellPlace
<1>5. region'[p \div G] = IF p \div G = r THEN d ELSE region[p \div G]
  BY <1>3 DEF IndexType
<1>6. Cell(p)' = memx_region_lookup(region'[p \div G], p % G)
  BY DEF Cell, memx_region_lookup
<1> QED BY <1>3, <1>5, <1>6 DEF Cell

\* Where the cursor stands after an iteration of a prepare loop ...
LEMMA PrepareMoves ==
    ASSUME LoopGeometry, NEW commit, AdvancePrepare(commit)
    PROVE  /\ req' = req /\ Lo' = Lo /\ End' = End
           /\ \/ /\ Stop(Cur, End) < End /\ pc' = pc
                 /\ Cur' = Stop(Cur, End) /\ cursor' = Addr(Stop(Cur, End))
              \/ /\ Stop(Cur, End) = End /\ pc' = commit
                 /\ Cur' = Lo /\ cursor' = Addr(Lo)
<1>1. /\ Lo \in Nat /\ End \in Nat /\ req.base = Addr(Lo)
      /\ HereEnd = Addr(Stop(Cur, End)) /\ Stop(Cur, End) \in Nat
      /\ Stop(Cur, End) <= End
      /\ HereEnd < req.end <=> Stop(Cur, End) < End
  BY DEF LoopGeometry
<1>2. req' = req /\ Lo' = Lo /\ End' = End
  BY DEF AdvancePrepare, Lo, End, Position, Relative
<1>3. Cur' = Position(cursor')
  BY DEF Cur, Position, Relative
<1>4. CASE HereEnd < req.end
  <2>1. cursor' = Addr(Stop(Cur, End)) /\ pc' = pc
    BY <1>1, <1>4 DEF AdvancePrepare
  <2> QED BY <1>1, <1>2, <1>3, <1>4, <2>1, CellAddress
<1>5. CASE ~(HereEnd < req.end)
  <2>1. cursor' = Addr(Lo) /\ pc' = commit
    BY <1>1, <1>5 DEF AdvancePrepare
  <2> QED BY <1>1, <1>2, <1>3, <1>5, <2>1, CellAddress
<1> QED BY <1>4, <1>5

\* ... and of a commit loop.
LEMMA CommitMoves ==
    ASSUME LoopGeometry, AdvanceCommit
    PROVE  \/ /\ Stop(Cur, End) < End /\ pc' = pc
              /\ req' = req /\ Lo' = Lo /\ End' = End /\ status' = status
              /\ Cur' = Stop(Cur, End) /\ cursor' = Addr(Stop(Cur, End))
           \/ Stop(Cur, End) = End /\ Return("OK")
<1>1. /\ HereEnd = Addr(Stop(Cur, End)) /\ Stop(Cur, End) \in Nat /\ End \in Nat
      /\ Stop(Cur, End) <= End
      /\ HereEnd < req.end <=> Stop(Cur, End) < End
  BY DEF LoopGeometry
<1>3. Cur' = Position(cursor')
  BY DEF Cur, Position, Relative
<1>4. CASE HereEnd < req.end
  <2>1. cursor' = Addr(Stop(Cur, End)) /\ pc' = pc /\ req' = req /\ status' = status
    BY <1>1, <1>4 DEF AdvanceCommit
  <2>2. Lo' = Lo /\ End' = End
    BY <2>1 DEF Lo, End, Position, Relative
  <2> QED BY <1>1, <1>3, <1>4, <2>1, <2>2, CellAddress
<1>5. CASE ~(HereEnd < req.end)
  BY <1>1, <1>5 DEF AdvanceCommit
<1> QED BY <1>4, <1>5

\* A call that returns leaves no request.
LEMMA ReturnMoves ==
    ASSUME NEW result, Return(result)
    PROVE  pc' = "idle" /\ req' \in Requests /\ cursor' \in Words
BY Geometry DEF Return, NoRequest, Requests, Words, Slots

\* The loop's own invariant and types after an iteration.
LEMMA LoopAfterPrepare ==
    ASSUME IndexInv, pc # "idle", LoopGeometry, NEW commit,
           commit \in {"insert_write", "remove_clear"}, AdvancePrepare(commit)
    PROVE  /\ LoopInv' /\ req' \in Requests /\ cursor' \in Words /\ pc' # "idle"
           /\ pc' \in {pc, commit}
<1> DEFINE m == Stop(Cur, End)
<1>1. /\ Cur \in Positions /\ Cur \in Nat /\ Lo \in Nat /\ End \in Nat
      /\ Lo <= Cur /\ Cur < End /\ End <= CellCount
      /\ req.base = Addr(Lo) /\ req.end = Addr(End) /\ Addr(End) <= WordMax
      /\ m \in Nat /\ Cur < m /\ m <= End
  BY DEF LoopGeometry
<1>2. /\ req' = req /\ Lo' = Lo /\ End' = End
      /\ \/ m < End /\ pc' = pc /\ Cur' = m /\ cursor' = Addr(m)
         \/ m = End /\ pc' = commit /\ Cur' = Lo /\ cursor' = Addr(Lo)
  BY PrepareMoves
<1>3. m < End => m % G = 0
  BY <1>1, PartCells
<1>4. req \in Requests /\ req.handle \in Handles /\ pc' # "idle"
  BY <1>2 DEF IndexInv, IndexType, LoopInv
<1> HIDE DEF m
<1>5. Addr(m) <= Addr(End) /\ Addr(Lo) <= Addr(End) /\ Addr(m) \in Nat /\ Addr(Lo) \in Nat
  BY <1>1, CellAddress
<1>6. cursor' \in Words
  BY <1>1, <1>2, <1>5, Geometry, CellAddress DEF Words
<1>7. LoopInv'
  BY <1>1, <1>2, <1>3, <1>4 DEF LoopInv
<1> QED BY <1>2, <1>4, <1>6, <1>7

LEMMA LoopAfterCommit ==
    ASSUME IndexInv, pc # "idle", LoopGeometry, AdvanceCommit
    PROVE  /\ LoopInv' /\ req' \in Requests /\ cursor' \in Words
           /\ pc' \in {pc, "idle"}
<1> DEFINE m == Stop(Cur, End)
<1>1. /\ Cur \in Positions /\ Cur \in Nat /\ Lo \in Nat /\ End \in Nat
      /\ Lo <= Cur /\ Cur < End /\ End <= CellCount
      /\ req.base = Addr(Lo) /\ req.end = Addr(End) /\ Addr(End) <= WordMax
      /\ m \in Nat /\ Cur < m /\ m <= End
  BY DEF LoopGeometry
<1>2. m < End => m % G = 0
  BY <1>1, PartCells
<1>3. req \in Requests /\ req.handle \in Handles
  BY DEF IndexInv, IndexType, LoopInv
<1>4. CASE /\ m < End /\ pc' = pc /\ Cur' = m /\ cursor' = Addr(m)
           /\ req' = req /\ Lo' = Lo /\ End' = End
  <2> HIDE DEF m
  <2>1. Addr(m) <= Addr(End) /\ Addr(m) \in Nat /\ Addr(End) \in Nat
    BY <1>1, CellAddress
  <2>2. cursor' \in Words
    BY <1>1, <1>4, <2>1, Geometry DEF Words
  <2>3. LoopInv'
    BY <1>1, <1>2, <1>3, <1>4 DEF LoopInv
  <2> QED BY <1>3, <1>4, <2>2, <2>3
<1>5. CASE Return("OK")
  BY <1>5, ReturnMoves DEF LoopInv
<1> QED BY <1>4, <1>5, CommitMoves

\* The region whose end is not a word holds a granule whose end is not one, so
\* EdgeInv keeps its descriptor from being UNIFORM.
EdgeRegions == mode = "ADAPTIVE" => \A r \in Regions :
    BaseAddress + (r + 1) * RegionSize > WordMax => region[r].type # "UNIFORM"

LEMMA EdgeKeepsRegions == IndexType /\ EdgeInv => EdgeRegions
<1> SUFFICES ASSUME IndexType, EdgeInv, mode = "ADAPTIVE", NEW r \in Regions,
                    BaseAddress + (r + 1) * RegionSize > WordMax,
                    region[r].type = "UNIFORM"
             PROVE  FALSE
  BY DEF EdgeRegions
<1> USE Geometry
<1> DEFINE p == r * G + (G - 1)
<1>1. r \in Nat /\ r + 1 <= RegionCount /\ r * G \in Nat /\ (r + 1) * G = r * G + G
  BY DEF Regions
<1>2. (r + 1) * G <= CellCount
  BY <1>1, TimesMonotone, r + 1 \in Int, RegionCount \in Int DEF CellCount
<1>3. G - 1 \in 0 .. G - 1
  OBVIOUS
<1>4. p \div G = r /\ p % G = G - 1 /\ p \in Nat
  BY <1>1, <1>3, DivideUnique
<1>5. p + 1 = (r + 1) * G /\ p \in Positions
  <2>1. p + 1 = (r + 1) * G
    BY <1>1
  <2> HIDE DEF p
  <2>2. p < CellCount
    BY <1>2, <1>4, <2>1
  <2> QED BY <1>4, <2>1, <2>2 DEF Positions, CellCount, G
<1> HIDE DEF p
<1>6. Addr(p + 1) = BaseAddress + (r + 1) * RegionSize
  <2>1. ((r + 1) * G) * GranuleSize = (r + 1) * RegionSize
    BY <1>1
  <2> QED BY <1>5, <2>1 DEF Addr
<1>7. Cell(p) = Invalid
  BY <1>5, <1>6 DEF EdgeInv
<1>8. region[r] \in Descriptors
  BY DEF IndexType
<1>9. region[r].handle \in InlineHandles
  BY <1>8, DescriptorKinds
<1>10. Cell(p) = region[r].handle
  BY <1>4, LookupKinds DEF Cell
<1> QED BY <1>7, <1>9, <1>10, HandleAssumption

LEMMA EdgeKeepsRegionsNext == IndexType' /\ EdgeInv' => EdgeRegions'
BY EdgeKeepsRegions, PTL

\* Everything but the loop's own invariants, after the descriptor of one region
\* has been replaced.
LEMMA DirectoryAfter ==
    ASSUME IndexInv, LoopGeometry, NEW d \in Descriptors,
           d.type = "DENSE" => d.entries \in Tables,
           region' = [region EXCEPT ![Here] = d],
           leaf' \in [Roots -> BOOLEAN],
           UNCHANGED <<life, optimized>>,
           req' \in Requests, cursor' \in Words,
           pc' \in {"idle", "insert_prepare", "insert_write",
                    "remove_prepare", "remove_clear"},
           dense_regions' = dense_regions + (IF d.type = "DENSE" THEN 1 ELSE 0)
                                - (IF region[Here].type = "DENSE" THEN 1 ELSE 0),
           uniform_regions' = uniform_regions + (IF d.type = "UNIFORM" THEN 1 ELSE 0)
                                - (IF region[Here].type = "UNIFORM" THEN 1 ELSE 0),
           \A r \in Regions : ~HasRegion(r)' => region'[r] = Empty,
           EdgeInv'
    PROVE  IndexType' /\ ModeInv' /\ DescriptorsSound' /\ CountInv'
<1>1. Here \in Regions /\ mode = "ADAPTIVE" /\ life = "live"
  BY DEF LoopGeometry
<1>2. IndexType /\ ModeInv /\ CountInv
  BY DEF IndexInv
<1>3. region \in [Regions -> Descriptors]
  BY <1>2 DEF IndexType
<1>4. IndexType'
  <2>1. region' \in [Regions -> Descriptors]
    BY <1>1, <1>3
  <2> QED BY <1>2, <2>1 DEF IndexType, optimized
<1>5. ModeInv'
  <2>1. \A r \in Regions : region'[r].type = "DENSE" => region'[r].entries \in Tables
    BY <1>1, <1>2, <1>3 DEF ModeInv
  <2> QED BY <1>1, <2>1 DEF ModeInv, optimized
<1>6. CountInv'
  <2>1. /\ Count(region', "DENSE") = dense_regions'
        /\ Count(region', "UNIFORM") = uniform_regions'
    <3>1. /\ Count(region', "DENSE") = Count(region, "DENSE")
                + (IF d.type = "DENSE" THEN 1 ELSE 0)
                - (IF region[Here].type = "DENSE" THEN 1 ELSE 0)
          /\ Count(region', "UNIFORM") = Count(region, "UNIFORM")
                + (IF d.type = "UNIFORM" THEN 1 ELSE 0)
                - (IF region[Here].type = "UNIFORM" THEN 1 ELSE 0)
      <4>1. \A q \in Regions : region'[q] = IF q = Here THEN d ELSE region[q]
        BY <1>1, <1>3
      <4>2. PICK old : old = region
        OBVIOUS
      <4>3. PICK new : new = region'
        OBVIOUS
      <4>4. PICK r \in Regions : r = Here
        BY <1>1
      <4>5. old \in [Regions -> Descriptors]
        BY <1>3, <4>2
      <4>6. \A q \in Regions : new[q] = IF q = r THEN d ELSE old[q]
        BY <4>1, <4>2, <4>3, <4>4
      <4>7. /\ Count(new, "DENSE") = Count(old, "DENSE")
                + (IF d.type = "DENSE" THEN 1 ELSE 0)
                - (IF old[r].type = "DENSE" THEN 1 ELSE 0)
            /\ Count(new, "UNIFORM") = Count(old, "UNIFORM")
                + (IF d.type = "UNIFORM" THEN 1 ELSE 0)
                - (IF old[r].type = "UNIFORM" THEN 1 ELSE 0)
        BY <4>5, <4>6, CountAfter
      <4> QED BY <4>2, <4>3, <4>4, <4>7
    <3> QED BY <1>2, <3>1 DEF CountInv
  <2> QED BY <2>1 DEF CountInv, Count
<1>7. EdgeRegions'
  BY <1>4, EdgeKeepsRegionsNext
<1>8. DescriptorsSound'
  BY <1>1, <1>7 DEF DescriptorsSound, EdgeRegions, optimized
<1> QED BY <1>4, <1>5, <1>6, <1>8

-----------------------------------------------------------------------------
(***************************************************************************)
(* The prepare loops change no cell.                                        *)
(***************************************************************************)
\* A new leaf replaces nothing but EMPTY descriptors.
LEMMA LeafIsBlank ==
    ASSUME IndexType, DescriptorsSound, NEW r \in Regions
    PROVE  /\ RegionsWithLeaf(r) = region
           /\ LeavesWithLeaf(r) \in [Roots -> BOOLEAN]
           /\ leaf' = LeavesWithLeaf(r) =>
                \A q \in Regions : HasRegion(q) \/ q = r => HasRegion(q)'
<1>1. region \in [Regions -> Descriptors] /\ leaf \in [Roots -> BOOLEAN]
  BY DEF IndexType
<1>2. ASSUME NEW q \in Regions, ~HasRegion(r), RootIndex(q) = RootIndex(r)
      PROVE  region[q] = Empty
  BY <1>2 DEF DescriptorsSound, HasRegion
<1>3. RegionsWithLeaf(r) = region
  BY <1>1, <1>2 DEF RegionsWithLeaf
<1>4. LeavesWithLeaf(r) \in [Roots -> BOOLEAN]
  BY <1>1 DEF LeavesWithLeaf
<1>5. ASSUME leaf' = LeavesWithLeaf(r)
      PROVE  \A q \in Regions : HasRegion(q) \/ q = r => HasRegion(q)'
  <2>1. CASE Directory = "BOUNDED"
    BY <2>1 DEF HasRegion
  <2>2. CASE Directory = "SPARSE"
    BY <2>2, <1>5, RootOfRegion DEF HasRegion, LeavesWithLeaf
  <2> QED BY <2>1, <2>2, ConfigAssumption DEF UsableConfig
<1> QED BY <1>3, <1>4, <1>5

\* One iteration of memx_prepare_insert_regions.
LEMMA InsertPrepareEffect ==
    ASSUME IndexInv, InsertPrepare
    PROVE  \E d \in Descriptors :
              /\ d.type = "DENSE" => d.entries \in Tables
              /\ region' = [region EXCEPT ![Here] = d]
              /\ \A g \in Granules :
                    memx_region_lookup(d, g) = memx_region_lookup(region[Here], g)
              /\ d.type = "EMPTY" => /\ WholeRegion(cursor, req.end)
                                     /\ req.handle \in InlineHandles
              /\ leaf' \in [Roots -> BOOLEAN]
              /\ \A q \in Regions : HasRegion(q) \/ q = Here => HasRegion(q)'
              /\ dense_regions' = dense_regions + (IF d.type = "DENSE" THEN 1 ELSE 0)
                                   - (IF region[Here].type = "DENSE" THEN 1 ELSE 0)
              /\ uniform_regions' = uniform_regions
              /\ d.type = "UNIFORM" <=> region[Here].type = "UNIFORM"
              /\ UNCHANGED <<life, optimized>> /\ AdvancePrepare("insert_write")
<1> DEFINE r == Here
           fresh == Dense(FreshTable(Invalid))
           d == IF InsertNeedsTable(r) THEN fresh ELSE region[r]
<1>1. pc = "insert_prepare" /\ LoopGeometry
  BY LoopFacts DEF InsertPrepare
<1>2. r \in Regions /\ IndexType /\ DescriptorsSound /\ mode = "ADAPTIVE" /\ ModeInv /\ CountInv
  BY <1>1 DEF LoopGeometry, IndexInv
<1>3. /\ RegionsWithLeaf(r) = region
      /\ LeavesWithLeaf(r) \in [Roots -> BOOLEAN]
      /\ leaf' = LeavesWithLeaf(r) =>
           \A q \in Regions : HasRegion(q) \/ q = r => HasRegion(q)'
  BY <1>2, LeafIsBlank
<1>4. /\ leaf' = LeavesWithLeaf(r)
      /\ region' = [RegionsWithLeaf(r) EXCEPT ![r] = IF InsertNeedsTable(r)
                        THEN Dense(FreshTable(Invalid)) ELSE @]
      /\ dense_regions' = dense_regions + (IF InsertNeedsTable(r) THEN 1 ELSE 0)
      /\ AdvancePrepare("insert_write")
      /\ UNCHANGED <<life, optimized, uniform_regions>>
  BY DEF InsertPrepare
<1>5. FreshTable(Invalid) \in Tables /\ \A g \in Granules : FreshTable(Invalid)[g] = Invalid
  BY DEF FreshTable, Tables, Slots
<1>6. /\ fresh \in Descriptors /\ fresh.type = "DENSE" /\ fresh.entries \in Tables
      /\ \A g \in Granules : memx_region_lookup(fresh, g) = Invalid
  BY <1>5, DenseDescriptor
<1>7. InsertNeedsTable(r) <=> /\ region[r].type = "EMPTY"
                              /\ \/ ~WholeRegion(cursor, req.end)
                                 \/ req.handle \notin InlineHandles
  BY <1>3 DEF InsertNeedsTable
<1>8. region[r] \in Descriptors /\ (region[r].type = "DENSE" => region[r].entries \in Tables)
  BY <1>2 DEF IndexType, ModeInv
<1>9. region' = [region EXCEPT ![r] = d]
  BY <1>2, <1>3, <1>4 DEF IndexType
<1>10. \A g \in Granules : memx_region_lookup(d, g) = memx_region_lookup(region[r], g)
  BY <1>6, <1>7, LookupKinds
<1>11. dense_regions \in Nat
  BY <1>2, CountAfter DEF CountInv, IndexType
<1>12. dense_regions' = dense_regions + (IF d.type = "DENSE" THEN 1 ELSE 0)
                                   - (IF region[r].type = "DENSE" THEN 1 ELSE 0)
  BY <1>4, <1>6, <1>7, <1>11
<1>13. d \in Descriptors /\ (d.type = "DENSE" => d.entries \in Tables)
       /\ (d.type = "UNIFORM" <=> region[r].type = "UNIFORM")
       /\ (d.type = "EMPTY" => /\ WholeRegion(cursor, req.end)
                               /\ req.handle \in InlineHandles)
  BY <1>6, <1>7, <1>8
<1> HIDE DEF d
<1> QED BY <1>3, <1>4, <1>9, <1>10, <1>12, <1>13

\* Cells that do not change keep the edge free.
LEMMA EdgeKept ==
    ASSUME IndexInv, UNCHANGED optimized, \A p \in Positions : Cell(p)' = Cell(p)
    PROVE  EdgeInv'
BY DEF IndexInv, EdgeInv, optimized

\* The cells behind the cursor are in other regions than the one under it.
LEMMA BehindCursor ==
    ASSUME IndexInv, pc # "idle", LoopGeometry, NEW p \in Lo .. Cur - 1
    PROVE  p \in Positions /\ p \div G \in Regions /\ p \div G # Here
<1>1. /\ Cur \in Positions /\ End \in Nat /\ Cur < End /\ End <= CellCount
      /\ Addr(End) <= WordMax /\ Here = Cur \div G /\ Lo \in Nat /\ Cur \in Nat
  BY DEF LoopGeometry
<1>2. p \in Nat /\ p < Cur /\ Cur # Lo
  BY <1>1
<1>3. Cur % G = 0
  BY <1>2 DEF IndexInv, LoopInv
<1>4. Cur = (Cur \div G) * G
  BY <1>1, <1>3, DivideWhere, Geometry
<1>5. p \div G # Here
  BY <1>1, <1>2, <1>4, PartCells
<1>6. p \in Positions
  BY <1>1, <1>2, Geometry DEF Positions, CellCount, G
<1> QED BY <1>5, <1>6, CellPlace

LEMMA InsertPrepareInv ==
    ASSUME IndexInv, InsertPrepare
    PROVE  /\ IndexInv' /\ \A p \in Positions : Cell(p)' = Cell(p)
           /\ AdvancePrepare("insert_write") /\ UNCHANGED <<life, optimized>>
<1>1. pc = "insert_prepare" /\ LoopGeometry
  BY LoopFacts DEF InsertPrepare
<1>2. PICK d \in Descriptors :
              /\ d.type = "DENSE" => d.entries \in Tables
              /\ region' = [region EXCEPT ![Here] = d]
              /\ \A g \in Granules :
                    memx_region_lookup(d, g) = memx_region_lookup(region[Here], g)
              /\ d.type = "EMPTY" => /\ WholeRegion(cursor, req.end)
                                     /\ req.handle \in InlineHandles
              /\ leaf' \in [Roots -> BOOLEAN]
              /\ \A q \in Regions : HasRegion(q) \/ q = Here => HasRegion(q)'
              /\ dense_regions' = dense_regions + (IF d.type = "DENSE" THEN 1 ELSE 0)
                                   - (IF region[Here].type = "DENSE" THEN 1 ELSE 0)
              /\ uniform_regions' = uniform_regions
              /\ d.type = "UNIFORM" <=> region[Here].type = "UNIFORM"
              /\ UNCHANGED <<life, optimized>> /\ AdvancePrepare("insert_write")
  BY InsertPrepareEffect
<1>3. /\ IndexType /\ DescriptorsSound /\ CountInv /\ ContentInv /\ ReadyInv
      /\ region \in [Regions -> Descriptors]
      /\ Here \in Regions /\ mode = "ADAPTIVE"
  BY <1>1 DEF IndexInv, IndexType, LoopGeometry
<1>4. \A p \in Positions : Cell(p)' = Cell(p)
  BY <1>2, <1>3, FormChanged
<1>5. EdgeInv'
  BY <1>2, <1>4, EdgeKept
<1>6. /\ LoopInv' /\ req' \in Requests /\ cursor' \in Words
      /\ pc' \in {"insert_prepare", "insert_write"}
  BY <1>1, <1>2, LoopAfterPrepare
<1>7. \A q \in Regions : ~HasRegion(q)' => region'[q] = Empty
  BY <1>2, <1>3 DEF DescriptorsSound
<1>8. uniform_regions \in Nat
  BY <1>3, CountAfter DEF CountInv
<1>9. IndexType' /\ ModeInv' /\ DescriptorsSound' /\ CountInv'
  <2>1. uniform_regions' = uniform_regions + (IF d.type = "UNIFORM" THEN 1 ELSE 0)
                                - (IF region[Here].type = "UNIFORM" THEN 1 ELSE 0)
    BY <1>2, <1>8
  <2> QED BY <1>1, <1>2, <1>5, <1>6, <1>7, <2>1, DirectoryAfter
<1> DEFINE m == Stop(Cur, End)
<1>10. /\ req' = req /\ Lo' = Lo /\ End' = End
       /\ \/ m < End /\ pc' = pc /\ Cur' = m
          \/ m = End /\ pc' = "insert_write" /\ Cur' = Lo
  BY <1>1, <1>2, PrepareMoves
<1>11. /\ Lo \in Nat /\ End \in Nat /\ Cur \in Nat /\ m \in Nat /\ Lo <= Cur /\ Cur < m
       /\ m <= End /\ End <= CellCount /\ Cur \in Positions /\ Cur < End
       /\ Addr(End) <= WordMax /\ Here = Cur \div G
       /\ cursor = Addr(Cur) /\ req.end = Addr(End)
  BY <1>1 DEF LoopGeometry
<1>12. \A p \in Lo .. End - 1 : Cell(p)' = Invalid
  <2>1. SUFFICES ASSUME NEW p \in Lo .. End - 1 PROVE Cell(p)' = Invalid
    OBVIOUS
  <2>2. p \in Positions
    BY <1>11, Geometry DEF Positions, CellCount, G
  <2> QED BY <1>1, <1>3, <1>4, <2>2 DEF ContentInv
<1>13. ContentInv'
  BY <1>1, <1>6, <1>10, <1>12 DEF ContentInv
<1>14. ASSUME NEW p \in Lo .. m - 1
       PROVE  InsertReady(p \div G)'
  <2>1. CASE p \in Lo .. Cur - 1
    <3>1. p \div G \in Regions /\ p \div G # Here
      BY <1>1, <2>1, BehindCursor
    <3>2. InsertReady(p \div G)
      BY <1>1, <1>3, <2>1 DEF ReadyInv
    <3>3. HasRegion(p \div G)' /\ region'[p \div G] = region[p \div G]
      BY <1>2, <1>3, <3>1, <3>2 DEF InsertReady
    <3> QED BY <1>10, <3>2, <3>3 DEF InsertReady, Within
  <2>2. CASE p \in Cur .. m - 1
    <3>1. p \div G = Here
      BY <1>11, <2>2, PartCells
    <3>2. HasRegion(p \div G)' /\ region'[p \div G] = d
      BY <1>2, <1>3, <3>1
    <3>3. WholeRegion(cursor, req.end) =>
              Cur = (Cur \div G) * G /\ (Cur \div G + 1) * G <= End
      BY <1>11, PartOfRange DEF RowEnd
    <3>4. WholeRegion(cursor, req.end) => Within(p \div G)
      BY <1>11, <3>1, <3>3 DEF Within
    <3> QED BY <1>2, <1>10, <3>2, <3>4 DEF InsertReady, Within
  <2> QED BY <1>11, <2>1, <2>2
<1>15. ReadyInv'
  BY <1>1, <1>6, <1>10, <1>14 DEF ReadyInv
<1> QED BY <1>2, <1>4, <1>5, <1>6, <1>9, <1>13, <1>15 DEF IndexInv

\* The region under the cursor of a removal holds its handle: it has a leaf.
LEMMA RemoveFindsRegion ==
    ASSUME IndexInv, LoopGeometry, pc \in {"remove_prepare", "remove_clear"}
    PROVE  HasRegion(Here) /\ region[Here].type # "EMPTY"
<1>1. Cur \in Positions /\ Here = Cur \div G /\ Here \in Regions /\ Lo \in Nat
      /\ End \in Nat /\ Cur \in Nat /\ Lo <= Cur /\ Cur < End
  BY DEF LoopGeometry
<1>2. Cell(Cur) = req.handle /\ req.handle # Invalid
  BY <1>1, HandleAssumption DEF IndexInv, ContentInv, LoopInv
<1>3. memx_region_lookup(region[Here], Cur % G) # Invalid
  BY <1>1, <1>2 DEF Cell
<1>4. region[Here].type # "EMPTY"
  BY <1>3, LookupKinds
<1>5. region[Here] # Empty
  BY <1>4, EmptyDescriptor
<1> QED BY <1>1, <1>4, <1>5 DEF IndexInv, DescriptorsSound

\* Under a boundary test that succeeds a UNIFORM region is wholly in the range.
LEMMA BoundaryOfUniform ==
    ASSUME IndexInv, LoopGeometry, ReachesBoundary(cursor, req.end),
           region[Here].type = "UNIFORM"
    PROVE  Within(Here) /\ Cur = Here * G /\ (Here + 1) * G <= End
<1>1. /\ Cur \in Positions /\ Here = Cur \div G /\ Here \in Regions /\ Lo \in Nat
      /\ End \in Nat /\ Cur \in Nat /\ Lo <= Cur /\ Cur < End /\ End <= CellCount
      /\ Addr(End) <= WordMax /\ cursor = Addr(Cur) /\ req.end = Addr(End)
  BY DEF LoopGeometry
<1>2. /\ Cur = Here * G
      /\ (Here + 1) * G <= End \/ WordMax < Addr(RowEnd(Cur))
  BY <1>1, PartOfRange DEF RowEnd
<1>3. Addr(RowEnd(Cur)) = BaseAddress + (Here + 1) * RegionSize
  <2>1. Here \in Nat /\ ((Here + 1) * G) * GranuleSize = (Here + 1) * RegionSize
    BY <1>1, Geometry DEF Regions
  <2> QED BY <1>1, <2>1 DEF Addr, RowEnd
<1>4. ~(WordMax < Addr(RowEnd(Cur)))
  <2>1. Addr(RowEnd(Cur)) \in Nat
    BY <1>1, RowOfCell, CellAddress
  <2> QED BY <1>1, <1>3, <2>1, Geometry DEF IndexInv, DescriptorsSound
<1> QED BY <1>1, <1>2, <1>4 DEF Within

\* One iteration of the first loop of memx_remove.
LEMMA RemovePrepareEffect ==
    ASSUME IndexInv, RemovePrepare
    PROVE  \E d \in Descriptors :
              /\ d.type = "DENSE" => d.entries \in Tables
              /\ region' = [region EXCEPT ![Here] = d]
              /\ \A g \in Granules :
                    memx_region_lookup(d, g) = memx_region_lookup(region[Here], g)
              /\ d.type = "UNIFORM" => Within(Here)
              /\ d.type # "EMPTY"
              /\ leaf' = leaf
              /\ dense_regions' = dense_regions + (IF d.type = "DENSE" THEN 1 ELSE 0)
                                   - (IF region[Here].type = "DENSE" THEN 1 ELSE 0)
              /\ uniform_regions' = uniform_regions
                                   + (IF d.type = "UNIFORM" THEN 1 ELSE 0)
                                   - (IF region[Here].type = "UNIFORM" THEN 1 ELSE 0)
              /\ UNCHANGED <<life, optimized>> /\ AdvancePrepare("remove_clear")
<1> DEFINE r == Here
           h == region[r].handle
           fresh == Dense(FreshTable(h))
           d == IF RemoveNeedsTable(r) THEN fresh ELSE region[r]
<1>1. pc = "remove_prepare" /\ LoopGeometry
  BY LoopFacts DEF RemovePrepare
<1>2. r \in Regions /\ IndexType /\ ModeInv /\ CountInv /\ mode = "ADAPTIVE"
  BY <1>1 DEF LoopGeometry, IndexInv
<1>3. HasRegion(r) /\ region[r].type # "EMPTY"
  BY <1>1, RemoveFindsRegion
<1>4. /\ IF RemoveNeedsTable(r)
         THEN /\ region' = [region EXCEPT ![r] = Dense(FreshTable(region[r].handle))]
              /\ uniform_regions' = uniform_regions - 1
              /\ dense_regions' = dense_regions + 1
         ELSE UNCHANGED <<region, uniform_regions, dense_regions>>
      /\ AdvancePrepare("remove_clear")
      /\ UNCHANGED <<life, leaf, optimized>>
  BY <1>3 DEF RemovePrepare
<1>5. RemoveNeedsTable(r) <=> /\ region[r].type = "UNIFORM"
                              /\ ~ReachesBoundary(cursor, req.end)
  BY <1>3 DEF RemoveNeedsTable
<1>6. /\ region[r] \in Descriptors
      /\ region[r].type = "DENSE" => region[r].entries \in Tables
      /\ region[r].type \in {"EMPTY", "UNIFORM", "DENSE"}
      /\ region[r].type = "UNIFORM" => h \in InlineHandles
  BY <1>2, DescriptorKinds DEF IndexType, ModeInv
<1>7. ASSUME RemoveNeedsTable(r)
      PROVE  /\ fresh \in Descriptors /\ fresh.type = "DENSE" /\ fresh.entries \in Tables
             /\ \A g \in Granules : memx_region_lookup(fresh, g) = h
  <2>1. h \in Slots
    BY <1>5, <1>6, <1>7, HandleAssumption DEF Slots
  <2>2. FreshTable(h) \in Tables /\ \A g \in Granules : FreshTable(h)[g] = h
    BY <2>1 DEF FreshTable, Tables
  <2> QED BY <2>2, DenseDescriptor
<1>8. region' = [region EXCEPT ![r] = d]
  BY <1>2, <1>4 DEF IndexType
<1>9. \A g \in Granules : memx_region_lookup(d, g) = memx_region_lookup(region[r], g)
  BY <1>5, <1>7, LookupKinds
<1>10. dense_regions \in Nat /\ uniform_regions \in Nat
  BY <1>2, CountAfter DEF CountInv, IndexType
<1>11. /\ d \in Descriptors
       /\ d.type = "DENSE" => d.entries \in Tables
       /\ d.type # "EMPTY"
       /\ d.type = "UNIFORM" => region[r].type = "UNIFORM" /\ ReachesBoundary(cursor, req.end)
  BY <1>3, <1>5, <1>6, <1>7
<1>12. dense_regions' = dense_regions + (IF d.type = "DENSE" THEN 1 ELSE 0)
                                   - (IF region[r].type = "DENSE" THEN 1 ELSE 0)
       /\ uniform_regions' = uniform_regions + (IF d.type = "UNIFORM" THEN 1 ELSE 0)
                                   - (IF region[r].type = "UNIFORM" THEN 1 ELSE 0)
  <2>1. CASE RemoveNeedsTable(r)
    BY <1>4, <1>5, <1>7, <1>10, <2>1
  <2>2. CASE ~RemoveNeedsTable(r)
    BY <1>4, <1>10, <2>2
  <2> QED BY <2>1, <2>2
<1>13. d.type = "UNIFORM" => Within(r)
  BY <1>1, <1>11, BoundaryOfUniform
<1> HIDE DEF d
<1> QED BY <1>4, <1>8, <1>9, <1>11, <1>12, <1>13

LEMMA RemovePrepareInv ==
    ASSUME IndexInv, RemovePrepare
    PROVE  /\ IndexInv' /\ \A p \in Positions : Cell(p)' = Cell(p)
           /\ AdvancePrepare("remove_clear") /\ UNCHANGED <<life, optimized>>
<1>1. pc = "remove_prepare" /\ LoopGeometry
  BY LoopFacts DEF RemovePrepare
<1>2. PICK d \in Descriptors :
              /\ d.type = "DENSE" => d.entries \in Tables
              /\ region' = [region EXCEPT ![Here] = d]
              /\ \A g \in Granules :
                    memx_region_lookup(d, g) = memx_region_lookup(region[Here], g)
              /\ d.type = "UNIFORM" => Within(Here)
              /\ d.type # "EMPTY"
              /\ leaf' = leaf
              /\ dense_regions' = dense_regions + (IF d.type = "DENSE" THEN 1 ELSE 0)
                                   - (IF region[Here].type = "DENSE" THEN 1 ELSE 0)
              /\ uniform_regions' = uniform_regions
                                   + (IF d.type = "UNIFORM" THEN 1 ELSE 0)
                                   - (IF region[Here].type = "UNIFORM" THEN 1 ELSE 0)
              /\ UNCHANGED <<life, optimized>> /\ AdvancePrepare("remove_clear")
  BY RemovePrepareEffect
<1>3. /\ IndexType /\ DescriptorsSound /\ CountInv /\ ContentInv /\ ReadyInv
      /\ region \in [Regions -> Descriptors] /\ leaf \in [Roots -> BOOLEAN]
      /\ Here \in Regions /\ mode = "ADAPTIVE"
  BY <1>1 DEF IndexInv, IndexType, LoopGeometry
<1>4. \A p \in Positions : Cell(p)' = Cell(p)
  BY <1>2, <1>3, FormChanged
<1>5. EdgeInv'
  BY <1>2, <1>4, EdgeKept
<1>6. /\ LoopInv' /\ req' \in Requests /\ cursor' \in Words
      /\ pc' \in {"remove_prepare", "remove_clear"}
  BY <1>1, <1>2, LoopAfterPrepare
<1>7. \A q \in Regions : ~HasRegion(q)' => region'[q] = Empty
  <2>1. HasRegion(Here)
    BY <1>1, RemoveFindsRegion
  <2>2. \A q \in Regions : ~HasRegion(q)' => ~HasRegion(q)
    BY <1>2 DEF HasRegion
  <2> QED BY <1>2, <1>3, <2>1, <2>2 DEF DescriptorsSound
<1>9. IndexType' /\ ModeInv' /\ DescriptorsSound' /\ CountInv'
  BY <1>1, <1>2, <1>3, <1>5, <1>6, <1>7, DirectoryAfter
<1> DEFINE m == Stop(Cur, End)
<1>10. /\ req' = req /\ Lo' = Lo /\ End' = End
       /\ \/ m < End /\ pc' = pc /\ Cur' = m
          \/ m = End /\ pc' = "remove_clear" /\ Cur' = Lo
  BY <1>1, <1>2, PrepareMoves
<1>11. /\ Lo \in Nat /\ End \in Nat /\ Cur \in Nat /\ m \in Nat /\ Lo <= Cur /\ Cur < m
       /\ m <= End /\ End <= CellCount /\ Cur \in Positions /\ Cur < End
       /\ Addr(End) <= WordMax /\ Here = Cur \div G
  BY <1>1 DEF LoopGeometry
<1>12. \A p \in Lo .. End - 1 : Cell(p)' = req.handle
  <2>1. SUFFICES ASSUME NEW p \in Lo .. End - 1 PROVE Cell(p)' = req.handle
    OBVIOUS
  <2>2. p \in Positions
    BY <1>11, Geometry DEF Positions, CellCount, G
  <2> QED BY <1>1, <1>3, <1>4, <2>2 DEF ContentInv
<1>13. ContentInv'
  BY <1>1, <1>6, <1>10, <1>12 DEF ContentInv
<1>14. ASSUME NEW p \in Lo .. m - 1
       PROVE  RemoveReady(p \div G)'
  <2>1. CASE p \in Lo .. Cur - 1
    <3>1. p \div G \in Regions /\ p \div G # Here
      BY <1>1, <2>1, BehindCursor
    <3>2. RemoveReady(p \div G)
      BY <1>1, <1>3, <2>1 DEF ReadyInv
    <3>3. region'[p \div G] = region[p \div G]
      BY <1>2, <1>3, <3>1
    <3> QED BY <1>10, <3>2, <3>3 DEF RemoveReady, Within
  <2>2. CASE p \in Cur .. m - 1
    <3>1. p \div G = Here
      BY <1>11, <2>2, PartCells
    <3>2. region'[p \div G] = d
      BY <1>2, <1>3, <3>1
    <3>3. d.type = "UNIFORM" => Within(p \div G)
      BY <1>2, <3>1
    <3> QED BY <1>10, <3>2, <3>3 DEF RemoveReady, Within
  <2> QED BY <1>11, <2>1, <2>2
<1>15. ReadyInv'
  BY <1>1, <1>6, <1>10, <1>14 DEF ReadyInv
<1> QED BY <1>2, <1>4, <1>5, <1>6, <1>9, <1>13, <1>15 DEF IndexInv

-----------------------------------------------------------------------------
(***************************************************************************)
(* The commit loops write the cells of their part, and find nothing left to *)
(* allocate.                                                                *)
(***************************************************************************)
\* A region that is wholly in the range is written from its first granule to
\* its last.
LEMMA WithinIsWhole ==
    ASSUME IndexInv, pc # "idle", LoopGeometry, Within(Here)
    PROVE  /\ ReachesBoundary(cursor, req.end)
           /\ \A g \in Granules : g \in PartGranules(cursor, req.end)
<1>1. /\ Cur \in Positions /\ Here = Cur \div G /\ Here \in Nat /\ Lo \in Nat
      /\ End \in Nat /\ Cur \in Nat /\ Lo <= Cur /\ Cur < End /\ End <= CellCount
      /\ Addr(End) <= WordMax /\ cursor = Addr(Cur) /\ req.end = Addr(End)
  BY DEF LoopGeometry
<1>2. /\ Here * G \in Nat /\ Here * G <= Cur /\ RowEnd(Cur) = Here * G + G
      /\ Cur % G = Cur - Here * G /\ RowEnd(Cur) \in Nat
  BY <1>1, RowOfCell
<1>3. Lo <= Here * G /\ RowEnd(Cur) <= End
  BY <1>1 DEF Within, RowEnd
<1>4. Cur = Here * G
  <2>1. CASE Cur = Lo
    BY <1>1, <1>2, <1>3, <2>1
  <2>2. CASE Cur # Lo
    BY <1>1, <1>2, <2>2 DEF IndexInv, LoopInv
  <2> QED BY <2>1, <2>2
<1>5. ReachesBoundary(cursor, req.end)
  BY <1>1, <1>3, <1>4, PartOfRange
<1>6. Stop(Cur, End) = RowEnd(Cur)
  BY <1>1, <1>2, <1>3 DEF Stop
<1>7. PartGranules(cursor, req.end) = 0 .. G - 1
  <2>1. PartGranules(cursor, req.end)
            = (Cur % G) .. (Cur % G) + (Stop(Cur, End) - Cur) - 1
    BY <1>1, PartOfRange
  <2>2. Cur % G = 0 /\ (Cur % G) + (Stop(Cur, End) - Cur) - 1 = G - 1
    BY <1>1, <1>2, <1>4, <1>6, Geometry
  <2> QED BY <2>1, <2>2
<1> QED BY <1>5, <1>7 DEF Granules, G

\* A table that has been written in part.
LEMMA WrittenTable ==
    ASSUME NEW t \in Tables, NEW h \in Slots
    PROVE  /\ Written(t, h) \in Tables
           /\ \A g \in Granules : Written(t, h)[g] =
                IF g \in PartGranules(cursor, req.end) THEN h ELSE t[g]
BY DEF Written, Tables

\* What an iteration of a commit loop that writes h makes of its region.
Commits(d, h) ==
    /\ d \in Descriptors
    /\ d.type = "DENSE" => d.entries \in Tables
    /\ region' = [region EXCEPT ![Here] = d]
    /\ \A g \in Granules : memx_region_lookup(d, g) =
            IF g \in PartGranules(cursor, req.end)
            THEN h ELSE memx_region_lookup(region[Here], g)
    /\ dense_regions' = dense_regions + (IF d.type = "DENSE" THEN 1 ELSE 0)
                            - (IF region[Here].type = "DENSE" THEN 1 ELSE 0)
    /\ uniform_regions' = uniform_regions + (IF d.type = "UNIFORM" THEN 1 ELSE 0)
                            - (IF region[Here].type = "UNIFORM" THEN 1 ELSE 0)
    /\ UNCHANGED <<life, optimized>> /\ AdvanceCommit

\* One iteration of the write loop of memx_insert: its error returns are not
\* reached.
LEMMA InsertWriteEffect ==
    ASSUME IndexInv, InsertWrite
    PROVE  leaf' = leaf /\ HasRegion(Here) /\ \E d : Commits(d, req.handle)
<1> DEFINE r == Here
           h == req.handle
<1>1. pc = "insert_write" /\ LoopGeometry
  BY LoopFacts DEF InsertWrite
<1>2. /\ r \in Regions /\ IndexType /\ ModeInv /\ CountInv /\ mode = "ADAPTIVE"
      /\ Cur \in Positions /\ Cur \in Nat /\ End \in Nat /\ Cur < End /\ r = Cur \div G
      /\ h \in Handles
  BY <1>1 DEF LoopGeometry, IndexInv, LoopInv
<1>3. InsertReady(r) /\ Cell(Cur) = Invalid
  BY <1>1, <1>2 DEF IndexInv, ReadyInv, ContentInv
<1>4. /\ region[r] \in Descriptors
      /\ region[r].type = "DENSE" => region[r].entries \in Tables
      /\ region[r].type \in {"EMPTY", "UNIFORM", "DENSE"}
      /\ region[r].type = "UNIFORM" => region[r].handle \in InlineHandles
  BY <1>2, DescriptorKinds DEF IndexType, ModeInv
<1>5. region[r].type # "UNIFORM"
  BY <1>2, <1>3, <1>4, LookupKinds, HandleAssumption DEF Cell
<1>6. HasRegion(r) /\ (region[r].type = "EMPTY" => Within(r) /\ h \in InlineHandles)
  BY <1>3 DEF InsertReady
<1>7. region[r].type = "EMPTY" => /\ ReachesBoundary(cursor, req.end)
                                  /\ \A g \in Granules : g \in PartGranules(cursor, req.end)
  BY <1>1, <1>6, WithinIsWhole
<1>8. dense_regions \in Nat /\ uniform_regions \in Nat
  BY <1>2, CountAfter DEF CountInv, IndexType
<1>9. leaf' = leaf /\ UNCHANGED <<life, optimized>> /\ AdvanceCommit
  BY <1>6, <1>7 DEF InsertWrite
<1>10. CASE region[r].type = "EMPTY"
  <2>1. /\ region' = [region EXCEPT ![r] = Uniform(h)]
        /\ uniform_regions' = uniform_regions + 1
        /\ dense_regions' = dense_regions
    BY <1>6, <1>7, <1>10 DEF InsertWrite
  <2>2. /\ Uniform(h) \in Descriptors /\ Uniform(h).type = "UNIFORM"
        /\ \A g \in Granules : memx_region_lookup(Uniform(h), g) = h
    BY <1>6, <1>10, UniformDescriptor
  <2>3. Commits(Uniform(h), h)
    BY <1>7, <1>8, <1>9, <1>10, <2>1, <2>2 DEF Commits
  <2> QED BY <1>6, <1>9, <2>3
<1>11. CASE region[r].type = "DENSE"
  <2> DEFINE t == Written(region[r].entries, h)
             d == memx_region_reclassify(t).descriptor
  <2>1. Publish(r, t, 0)
    BY <1>6, <1>11 DEF InsertWrite
  <2>2. h \in Slots /\ region[r].entries \in Tables
    BY <1>2, <1>4, <1>11 DEF Slots
  <2>3. t \in Tables /\ \A g \in Granules : t[g] =
            IF g \in PartGranules(cursor, req.end) THEN h ELSE region[r].entries[g]
    BY <2>2, WrittenTable
  <2> HIDE DEF t
  <2>4. /\ d \in Descriptors /\ (d.type = "DENSE" => d.entries \in Tables)
        /\ \A g \in Granules : memx_region_lookup(d, g) = t[g]
        /\ memx_region_reclassify(t).tables = IF d.type = "DENSE" THEN 0 ELSE -1
        /\ memx_region_reclassify(t).uniform = IF d.type = "UNIFORM" THEN 1 ELSE 0
    BY <2>3, ReclassifyKeepsTable
  <2>5. /\ region' = [region EXCEPT ![r] = d]
        /\ uniform_regions' = uniform_regions + memx_region_reclassify(t).uniform
        /\ dense_regions' = dense_regions + 0 + memx_region_reclassify(t).tables
    BY <2>1 DEF Publish
  <2> HIDE DEF d
  <2>6. \A g \in Granules : memx_region_lookup(region[r], g) = region[r].entries[g]
    BY <1>11, LookupKinds
  <2>7. Commits(d, h)
    BY <1>8, <1>9, <1>11, <2>3, <2>4, <2>5, <2>6 DEF Commits
  <2> QED BY <1>6, <1>9, <2>7
<1> QED BY <1>4, <1>5, <1>10, <1>11

\* One iteration of the second loop of memx_remove, which finds its region.
LEMMA RemoveClearEffect ==
    ASSUME IndexInv, RemoveClear
    PROVE  /\ HasRegion(Here) /\ (\E d : Commits(d, Invalid))
           /\ memx_sparse_prune_leaf(Here)
<1> DEFINE r == Here
           result == ClearRegion(r)
<1>1. pc = "remove_clear" /\ LoopGeometry
  BY LoopFacts DEF RemoveClear
<1>2. /\ r \in Regions /\ IndexType /\ ModeInv /\ CountInv /\ mode = "ADAPTIVE"
      /\ Cur \in Positions /\ Cur \in Nat /\ End \in Nat /\ Cur < End /\ r = Cur \div G
  BY <1>1 DEF LoopGeometry, IndexInv
<1>3. RemoveReady(r)
  BY <1>1, <1>2 DEF IndexInv, ReadyInv
<1>4. /\ region[r] \in Descriptors
      /\ region[r].type = "DENSE" => region[r].entries \in Tables
      /\ region[r].type \in {"EMPTY", "UNIFORM", "DENSE"}
  BY <1>2, DescriptorKinds DEF IndexType, ModeInv
<1>5. HasRegion(r) /\ region[r].type # "EMPTY"
  BY <1>1, RemoveFindsRegion
<1>6. dense_regions \in Nat /\ uniform_regions \in Nat
  BY <1>2, CountAfter DEF CountInv, IndexType
<1>7. /\ region' = [region EXCEPT ![r] = result.descriptor]
      /\ uniform_regions' = uniform_regions + result.uniform
      /\ dense_regions' = dense_regions + result.tables
      /\ memx_sparse_prune_leaf(r)
      /\ AdvanceCommit
      /\ UNCHANGED <<life, optimized>>
  BY <1>5 DEF RemoveClear
<1>10. CASE region[r].type = "UNIFORM"
  <2>1. /\ ReachesBoundary(cursor, req.end)
        /\ \A g \in Granules : g \in PartGranules(cursor, req.end)
    BY <1>1, <1>3, <1>10, WithinIsWhole DEF RemoveReady
  <2>2. result = [descriptor |-> Empty, uniform |-> -1, tables |-> 0]
    BY <1>10, <2>1 DEF ClearRegion
  <2> HIDE DEF result
  <2>3. result.descriptor = Empty /\ result.uniform = -1 /\ result.tables = 0
    BY <2>2
  <2>4. Commits(Empty, Invalid)
    BY <1>6, <1>7, <1>10, <2>1, <2>3, EmptyDescriptor DEF Commits
  <2> QED BY <1>5, <1>7, <2>4
<1>11. CASE region[r].type = "DENSE"
  <2> DEFINE t == Written(region[r].entries, Invalid)
             d == memx_region_reclassify(t).descriptor
  <2>1. result = memx_region_reclassify(t)
    BY <1>11 DEF ClearRegion
  <2>2. Invalid \in Slots /\ region[r].entries \in Tables
    BY <1>4, <1>11 DEF Slots
  <2>3. t \in Tables /\ \A g \in Granules : t[g] =
            IF g \in PartGranules(cursor, req.end) THEN Invalid ELSE region[r].entries[g]
    BY <2>2, WrittenTable
  <2> HIDE DEF t, result
  <2>4. /\ d \in Descriptors /\ (d.type = "DENSE" => d.entries \in Tables)
        /\ \A g \in Granules : memx_region_lookup(d, g) = t[g]
        /\ memx_region_reclassify(t).tables = IF d.type = "DENSE" THEN 0 ELSE -1
        /\ memx_region_reclassify(t).uniform = IF d.type = "UNIFORM" THEN 1 ELSE 0
    BY <2>3, ReclassifyKeepsTable
  <2>5. /\ region' = [region EXCEPT ![r] = d]
        /\ uniform_regions' = uniform_regions + memx_region_reclassify(t).uniform
        /\ dense_regions' = dense_regions + memx_region_reclassify(t).tables
    BY <1>7, <2>1
  <2> HIDE DEF d
  <2>6. \A g \in Granules : memx_region_lookup(region[r], g) = region[r].entries[g]
    BY <1>11, LookupKinds
  <2>7. Commits(d, Invalid)
    <3>1. dense_regions' = dense_regions + (IF d.type = "DENSE" THEN 1 ELSE 0) - 1
      BY <1>6, <2>4, <2>5
    <3>2. uniform_regions' = uniform_regions + (IF d.type = "UNIFORM" THEN 1 ELSE 0) - 0
      BY <1>6, <2>4, <2>5
    <3>3. \A g \in Granules : memx_region_lookup(d, g) =
            IF g \in PartGranules(cursor, req.end)
            THEN Invalid ELSE memx_region_lookup(region[r], g)
      BY <2>3, <2>4, <2>6
    <3> QED BY <1>7, <1>11, <2>4, <2>5, <3>1, <3>2, <3>3 DEF Commits
  <2> QED BY <1>5, <1>7, <2>7
<1> QED BY <1>4, <1>5, <1>10, <1>11

\* The handle the commit loop writes.
Committed == IF pc = "insert_write" THEN req.handle ELSE Invalid

\* The cells after an iteration of a commit loop: those of its part are written.
CommitCells == \A p \in Positions : Cell(p)' =
    IF p \in Cur .. Stop(Cur, End) - 1 THEN Committed ELSE Cell(p)

LEMMA CommitInv ==
    ASSUME IndexInv, pc \in {"insert_write", "remove_clear"}, LoopGeometry,
           NEW d, Commits(d, Committed),
           leaf' \in [Roots -> BOOLEAN],
           pc = "insert_write" => leaf' = leaf,
           \A r \in Regions : ~HasRegion(r)' => region'[r] = Empty
    PROVE  IndexInv' /\ CommitCells
<1> DEFINE m == Stop(Cur, End)
<1>1. /\ d \in Descriptors
      /\ d.type = "DENSE" => d.entries \in Tables
      /\ region' = [region EXCEPT ![Here] = d]
      /\ \A g \in Granules : memx_region_lookup(d, g) =
              IF g \in PartGranules(cursor, req.end)
              THEN Committed ELSE memx_region_lookup(region[Here], g)
      /\ dense_regions' = dense_regions + (IF d.type = "DENSE" THEN 1 ELSE 0)
                              - (IF region[Here].type = "DENSE" THEN 1 ELSE 0)
      /\ uniform_regions' = uniform_regions + (IF d.type = "UNIFORM" THEN 1 ELSE 0)
                              - (IF region[Here].type = "UNIFORM" THEN 1 ELSE 0)
      /\ UNCHANGED <<life, optimized>> /\ AdvanceCommit
  BY DEF Commits
<1>2. /\ IndexType /\ ContentInv /\ ReadyInv /\ EdgeInv
      /\ region \in [Regions -> Descriptors]
      /\ Here \in Regions /\ mode = "ADAPTIVE"
  BY DEF IndexInv, IndexType, LoopGeometry
<1>3. CommitCells
  BY <1>1, <1>2, PartWritten DEF CommitCells
<1>4. /\ Lo \in Nat /\ End \in Nat /\ Cur \in Nat /\ m \in Nat /\ Lo <= Cur /\ Cur < m
      /\ m <= End /\ End <= CellCount /\ Cur \in Positions /\ Cur < End
      /\ Addr(End) <= WordMax /\ Here = Cur \div G
  BY DEF LoopGeometry
<1>5. EdgeInv'
  <2>1. SUFFICES ASSUME NEW p \in Positions, Addr(p + 1) > WordMax
                 PROVE  Cell(p)' = Invalid
    BY DEF EdgeInv
  <2>2. p \notin Cur .. m - 1
    <3>1. SUFFICES ASSUME p \in Cur .. m - 1 PROVE FALSE
      OBVIOUS
    <3>2. p + 1 \in Nat /\ p + 1 <= End
      BY <1>4, <3>1
    <3>3. Addr(p + 1) <= Addr(End) /\ Addr(p + 1) \in Nat /\ Addr(End) \in Nat
      BY <1>4, <3>2, CellAddress
    <3> QED BY <1>4, <2>1, <3>3, Geometry
  <2>3. Cell(p) = Invalid
    BY <1>2, <2>1 DEF EdgeInv
  <2> QED BY <1>3, <2>2, <2>3 DEF CommitCells
<1>6. /\ LoopInv' /\ req' \in Requests /\ cursor' \in Words
      /\ pc' \in {pc, "idle"}
  BY <1>1, LoopAfterCommit
<1>7. IndexType' /\ ModeInv' /\ DescriptorsSound' /\ CountInv'
  BY <1>1, <1>5, <1>6, DirectoryAfter
<1>8. CASE pc' = "idle"
  <2>1. ContentInv' /\ ReadyInv'
    BY <1>8 DEF ContentInv, ReadyInv
  <2> QED BY <1>3, <1>5, <1>6, <1>7, <2>1 DEF IndexInv
<1>9. CASE pc' # "idle"
  <2>1. pc' = pc /\ req' = req /\ Lo' = Lo /\ End' = End /\ Cur' = m
    BY <1>1, <1>9, CommitMoves DEF Return
  <2>2. ASSUME NEW p \in m .. End - 1
        PROVE  /\ p \in Positions /\ p \div G \in Regions /\ p \div G # Here
               /\ p \in Cur .. End - 1 /\ Cell(p)' = Cell(p)
    <3>1. p \in Positions /\ p \div G # Here
      BY <1>4, <2>2, PartCells
    <3>2. p \in Cur .. End - 1 /\ p \notin Cur .. m - 1
      BY <1>4, <2>2
    <3> QED BY <1>3, <3>1, <3>2, CellPlace DEF CommitCells
  <2>3. ContentInv'
    BY <1>2, <2>1, <2>2 DEF ContentInv
  <2>4. ASSUME NEW p \in m .. End - 1, pc = "insert_write"
        PROVE  InsertReady(p \div G)'
    <3>1. InsertReady(p \div G)
      BY <1>2, <2>2, <2>4 DEF ReadyInv
    <3>2. region'[p \div G] = region[p \div G]
      BY <1>1, <1>2, <2>2
    <3> QED BY <2>1, <2>4, <3>1, <3>2 DEF InsertReady, HasRegion, Within
  <2>5. ASSUME NEW p \in m .. End - 1, pc = "remove_clear"
        PROVE  RemoveReady(p \div G)'
    <3>1. RemoveReady(p \div G)
      BY <1>2, <2>2, <2>5 DEF ReadyInv
    <3>2. region'[p \div G] = region[p \div G]
      BY <1>1, <1>2, <2>2
    <3> QED BY <2>1, <3>1, <3>2 DEF RemoveReady, Within
  <2>6. ReadyInv'
    BY <2>1, <2>4, <2>5 DEF ReadyInv
  <2> QED BY <1>3, <1>5, <1>6, <1>7, <2>3, <2>6 DEF IndexInv
<1> QED BY <1>8, <1>9

LEMMA InsertWriteInv ==
    ASSUME IndexInv, InsertWrite
    PROVE  /\ IndexInv' /\ CommitCells
           /\ AdvanceCommit /\ UNCHANGED <<life, optimized>>
<1>1. pc = "insert_write" /\ LoopGeometry
  BY LoopFacts DEF InsertWrite
<1>2. leaf' = leaf /\ HasRegion(Here)
  BY InsertWriteEffect
<1>3. PICK d : Commits(d, req.handle)
  BY InsertWriteEffect
<1>4. Commits(d, Committed)
  BY <1>1, <1>3 DEF Committed
<1>5. /\ region \in [Regions -> Descriptors] /\ leaf \in [Roots -> BOOLEAN]
      /\ region' = [region EXCEPT ![Here] = d] /\ DescriptorsSound
  BY <1>3 DEF IndexInv, IndexType, Commits
<1>6. \A r \in Regions : ~HasRegion(r)' => region'[r] = Empty
  <2>1. \A q \in Regions : ~HasRegion(q)' => ~HasRegion(q)
    BY <1>2 DEF HasRegion
  <2> QED BY <1>2, <1>5, <2>1 DEF DescriptorsSound
<1>7. IndexInv' /\ CommitCells
  BY <1>1, <1>2, <1>4, <1>5, <1>6, CommitInv
<1> QED BY <1>3, <1>7 DEF Commits

LEMMA RemoveClearInv ==
    ASSUME IndexInv, RemoveClear
    PROVE  /\ IndexInv' /\ CommitCells
           /\ AdvanceCommit /\ UNCHANGED <<life, optimized>>
<1>1. pc = "remove_clear" /\ LoopGeometry
  BY LoopFacts DEF RemoveClear
<1>2. HasRegion(Here) /\ memx_sparse_prune_leaf(Here) /\ Here \in Regions
  BY <1>1, RemoveClearEffect DEF LoopGeometry
<1>3. PICK d : Commits(d, Invalid)
  BY RemoveClearEffect
<1>4. Commits(d, Committed)
  BY <1>1, <1>3 DEF Committed
<1>5. /\ region \in [Regions -> Descriptors] /\ leaf \in [Roots -> BOOLEAN]
      /\ region' = [region EXCEPT ![Here] = d] /\ DescriptorsSound
  BY <1>3 DEF IndexInv, IndexType, Commits
<1>6. ASSUME NEW r \in Regions, HasRegion(r) \/ r = Here, ~HasRegion(r)'
      PROVE  region'[r] = Empty
  <2>1. HasRegion(r) /\ Directory # "BOUNDED" /\ leaf[RootIndex(r)] /\ ~leaf'[RootIndex(r)]
    BY <1>2, <1>6 DEF HasRegion
  <2>2. RootIndex(r) = RootIndex(Here)
        /\ \A q \in Regions : RootIndex(q) = RootIndex(Here) => region'[q] = Empty
    <3>1. RootIndex(r) \in Roots /\ leaf'[RootIndex(r)] # leaf[RootIndex(r)]
      BY <2>1, RootOfRegion, ConfigAssumption DEF UsableConfig
    <3>2. leaf' # leaf
      BY <3>1
    <3> QED BY <1>2, <1>5, <2>1, <3>1, <3>2 DEF memx_sparse_prune_leaf
  <2> QED BY <2>2
<1>7. \A r \in Regions : ~HasRegion(r)' => region'[r] = Empty
  <2>1. SUFFICES ASSUME NEW r \in Regions, ~HasRegion(r)' PROVE region'[r] = Empty
    OBVIOUS
  <2>2. CASE HasRegion(r) \/ r = Here
    BY <1>6, <2>1, <2>2
  <2>3. CASE ~HasRegion(r) /\ r # Here
    BY <1>5, <2>3 DEF DescriptorsSound
  <2> QED BY <2>2, <2>3
<1>8. leaf' \in [Roots -> BOOLEAN]
  BY <1>2, <1>5 DEF memx_sparse_prune_leaf
<1>9. IndexInv' /\ CommitCells
  BY <1>1, <1>4, <1>7, <1>8, CommitInv
<1> QED BY <1>3, <1>9 DEF Commits

-----------------------------------------------------------------------------
(***************************************************************************)
(* The other steps.                                                         *)
(***************************************************************************)
\* A bounded index ends below the last word.
LEMMA BoundedHasNoEdge ==
    ASSUME Directory = "BOUNDED"
    PROVE  /\ \A r \in Regions : ~(BaseAddress + (r + 1) * RegionSize > WordMax)
           /\ \A p \in Positions : ~(Addr(p + 1) > WordMax)
<1> USE Geometry
<1>1. BaseAddress + CoveredSize <= WordMax
  BY ConfigAssumption DEF UsableConfig
<1>2. ASSUME NEW r \in Regions PROVE (r + 1) * RegionSize <= CoveredSize
  <2>1. r + 1 \in Int /\ RegionCount \in Int /\ r + 1 <= RegionCount
    BY DEF Regions
  <2> QED BY <2>1, TimesMonotone
<1>3. ASSUME NEW p \in Positions PROVE (p + 1) * GranuleSize <= CoveredSize
  <2>1. p + 1 \in Int /\ CellCount \in Int /\ p + 1 <= CellCount
    BY DEF Positions, CellCount, G
  <2> QED BY <2>1, TimesMonotone
<1>4. \A r \in Regions : (r + 1) * RegionSize \in Nat
  BY DEF Regions
<1>5. \A p \in Positions : (p + 1) * GranuleSize \in Nat
  BY DEF Positions, CellCount, G
<1> QED BY <1>1, <1>2, <1>3, <1>4, <1>5 DEF Addr

\* An empty directory.
LEMMA EmptyDirectory ==
    /\ AllEmpty \in [Regions -> Descriptors]
    /\ \A r \in Regions : AllEmpty[r] = Empty /\ AllEmpty[r].type = "EMPTY"
    /\ Count(AllEmpty, "DENSE") = 0 /\ Count(AllEmpty, "UNIFORM") = 0
    /\ NoLeaves \in [Roots -> BOOLEAN]
<1>1. \A r \in Regions : AllEmpty[r] = Empty /\ AllEmpty[r].type = "EMPTY"
  BY EmptyDescriptor DEF AllEmpty
<1>2. {q \in Regions : AllEmpty[q].type = "DENSE"} = {}
      /\ {q \in Regions : AllEmpty[q].type = "UNIFORM"} = {}
  BY <1>1
<1> QED BY <1>1, <1>2, FS_EmptySet, EmptyDescriptor DEF AllEmpty, NoLeaves, Count

\* The invariant of an index whose directory is empty and that runs no call.
LEMMA EmptyIndexInv ==
    ASSUME region' = AllEmpty, leaf' = NoLeaves, mode' = "ADAPTIVE", pc' = "idle",
           dense_regions' = 0, uniform_regions' = 0,
           life' \in {"none", "creating", "live"},
           flat_entries' \in [Positions -> Slots] \cup {Null},
           overlay_entries' \in [Positions -> Slots] \cup {Null},
           req' \in Requests, cursor' \in Words
    PROVE  IndexInv'
<1>1. IndexType'
  BY EmptyDirectory DEF IndexType
<1>2. ModeInv' /\ LoopInv' /\ ContentInv' /\ ReadyInv'
  BY EmptyDirectory DEF ModeInv, LoopInv, ContentInv, ReadyInv
<1>3. EdgeInv'
  <2>1. SUFFICES ASSUME NEW p \in Positions PROVE Cell(p)' = Invalid
    BY DEF EdgeInv
  <2>2. region'[p \div G] = Empty
    BY CellPlace, EmptyDirectory
  <2>3. Cell(p)' = memx_region_lookup(region'[p \div G], p % G)
    BY DEF Cell, memx_region_lookup
  <2> QED BY <2>2, <2>3, EmptyDescriptor
<1>4. DescriptorsSound' /\ CountInv'
  <2>1. Count(region', "DENSE") = 0 /\ Count(region', "UNIFORM") = 0
    BY EmptyDirectory
  <2> QED BY <2>1, EmptyDirectory DEF DescriptorsSound, CountInv, Count
<1> QED BY <1>1, <1>2, <1>3, <1>4 DEF IndexInv

LEMMA InitInv == Init => IndexInv
<1> SUFFICES ASSUME Init PROVE IndexInv
  OBVIOUS
<1>1. /\ region = AllEmpty /\ leaf = NoLeaves /\ mode = "ADAPTIVE" /\ pc = "idle"
      /\ dense_regions = 0 /\ uniform_regions = 0 /\ life = "none"
      /\ flat_entries = Null /\ overlay_entries = Null /\ req = NoRequest /\ cursor = 0
  BY DEF Init
<1>2. IndexType
  BY <1>1, EmptyDirectory, Geometry
  DEF IndexType, NoRequest, Requests, Words, Slots
<1>3. ModeInv /\ LoopInv /\ ContentInv /\ ReadyInv
  BY <1>1, EmptyDirectory DEF ModeInv, LoopInv, ContentInv, ReadyInv
<1>4. EdgeInv
  <2>1. SUFFICES ASSUME NEW p \in Positions PROVE Cell(p) = Invalid
    BY DEF EdgeInv
  <2>2. region[p \div G] = Empty
    BY <1>1, CellPlace, EmptyDirectory
  <2> QED BY <2>2, EmptyDescriptor DEF Cell
<1>5. DescriptorsSound /\ CountInv
  BY <1>1, EmptyDirectory DEF DescriptorsSound, CountInv
<1> QED BY <1>2, <1>3, <1>4, <1>5 DEF IndexInv

\* A step that changes neither the directory nor the call.
LEMMA QuietInv ==
    ASSUME IndexInv, UNCHANGED <<life, directory, optimized, call>>,
           UNCHANGED <<dense_regions, uniform_regions>>
    PROVE  IndexInv' /\ \A p \in Positions : Cell(p)' = Cell(p)
<1>1. /\ life' = life /\ region' = region /\ leaf' = leaf /\ mode' = mode
      /\ flat_entries' = flat_entries /\ overlay_entries' = overlay_entries
      /\ pc' = pc /\ req' = req /\ cursor' = cursor
      /\ dense_regions' = dense_regions /\ uniform_regions' = uniform_regions
  BY DEF directory, optimized, call
<1>2. IndexType' /\ ModeInv'
  BY <1>1 DEF IndexInv, IndexType, ModeInv
<1>3. \A p \in Positions : Cell(p)' = Cell(p)
  BY <1>1 DEF Cell, memx_region_lookup
<1>4. Lo' = Lo /\ Cur' = Cur /\ End' = End
  BY <1>1 DEF Lo, Cur, End, Position, Relative
<1>5. LoopInv'
  BY <1>1, <1>4 DEF IndexInv, LoopInv
<1>6. EdgeInv'
  BY <1>1, <1>3 DEF IndexInv, EdgeInv
<1>7. ContentInv'
  BY <1>1, <1>4 DEF IndexInv, ContentInv, Cell, memx_region_lookup
<1>8. ReadyInv'
  BY <1>1, <1>4 DEF IndexInv, ReadyInv, InsertReady, RemoveReady, HasRegion, Within
<1>9. DescriptorsSound' /\ CountInv'
  BY <1>1 DEF IndexInv, DescriptorsSound, CountInv, HasRegion, Count
<1> QED BY <1>2, <1>3, <1>5, <1>6, <1>7, <1>8, <1>9 DEF IndexInv

\* A step that ends the call and leaves the descriptors: a prepare loop that
\* runs out of memory.
LEMMA AbandonInv ==
    ASSUME IndexInv, NEW result, Return(result), region' = region,
           leaf' \in [Roots -> BOOLEAN], mode = "ADAPTIVE", life = "live",
           \A q \in Regions : HasRegion(q) => HasRegion(q)',
           UNCHANGED <<life, optimized, dense_regions, uniform_regions>>
    PROVE  IndexInv' /\ \A p \in Positions : Cell(p)' = Cell(p)
<1>1. /\ life' = life /\ mode' = mode /\ region' = region
      /\ flat_entries' = flat_entries /\ overlay_entries' = overlay_entries
      /\ dense_regions' = dense_regions /\ uniform_regions' = uniform_regions
  BY DEF optimized
<1>2. pc' = "idle" /\ req' \in Requests /\ cursor' \in Words
  BY ReturnMoves
<1>3. IndexType' /\ ModeInv'
  BY <1>1, <1>2 DEF IndexInv, IndexType, ModeInv
<1>4. \A p \in Positions : Cell(p)' = Cell(p)
  BY <1>1 DEF Cell, memx_region_lookup
<1>5. LoopInv' /\ ContentInv' /\ ReadyInv'
  BY <1>2 DEF LoopInv, ContentInv, ReadyInv
<1>6. EdgeInv'
  BY <1>1, <1>4 DEF IndexInv, EdgeInv
<1>7. DescriptorsSound'
  BY <1>1 DEF IndexInv, DescriptorsSound
<1>8. CountInv'
  BY <1>1 DEF IndexInv, CountInv, Count
<1> QED BY <1>3, <1>4, <1>5, <1>6, <1>7, <1>8 DEF IndexInv

LEMMA CreateInv ==
    ASSUME IndexInv, CreateIndex \/ CreateDirectory
    PROVE  IndexInv'
<1>1. IndexType /\ ModeInv /\ CountInv
  BY DEF IndexInv
<1>2. /\ region = AllEmpty /\ leaf = NoLeaves /\ mode = "ADAPTIVE" /\ pc = "idle"
  BY <1>1 DEF CreateIndex, CreateDirectory, ModeInv
<1>3. dense_regions = 0 /\ uniform_regions = 0
  BY <1>1, <1>2, EmptyDirectory DEF CountInv
<1>4. /\ region' = AllEmpty /\ leaf' = NoLeaves /\ mode' = "ADAPTIVE" /\ pc' = "idle"
      /\ dense_regions' = 0 /\ uniform_regions' = 0
      /\ life' \in {"none", "creating", "live"}
      /\ flat_entries' = flat_entries /\ overlay_entries' = overlay_entries
      /\ req' = req /\ cursor' = cursor
  BY <1>2, <1>3 DEF CreateIndex, CreateDirectory, directory, optimized, call
<1>5. /\ flat_entries \in [Positions -> Slots] \cup {Null}
      /\ overlay_entries \in [Positions -> Slots] \cup {Null}
      /\ req \in Requests /\ cursor \in Words
  BY <1>1 DEF IndexType
<1> QED BY <1>4, <1>5, EmptyIndexInv

LEMMA DestroyInv ==
    ASSUME IndexInv, memx_index_destroy
    PROVE  IndexInv'
<1>1. /\ region' = AllEmpty /\ leaf' = NoLeaves /\ mode' = "ADAPTIVE" /\ pc' = "idle"
      /\ dense_regions' = 0 /\ uniform_regions' = 0 /\ life' = "none"
      /\ flat_entries' = Null /\ overlay_entries' = Null
      /\ req' = req /\ cursor' = cursor
  BY DEF memx_index_destroy, call, Idle
<1>2. req \in Requests /\ cursor \in Words
  BY DEF IndexInv, IndexType
<1> QED BY <1>1, <1>2, EmptyIndexInv

\* A mutation that starts: its range is a range of cells that all have the
\* content the preflight asked for.
LEMMA BeginInv ==
    ASSUME IndexInv, Idle, NEW base \in Words, NEW size \in Words, NEW h \in Handles,
           memx_validate_range(base, size) = "OK", NEW loop,
           \/ /\ loop = "insert_prepare"
              /\ \A a \in Targets(base, base + size) : memx_lookup_address(a) = Invalid
           \/ /\ loop = "remove_prepare"
              /\ \A a \in Targets(base, base + size) : memx_lookup_address(a) = h,
           Begin(loop, base, size, h)
    PROVE  /\ IndexInv' /\ \A p \in Positions : Cell(p)' = Cell(p)
           /\ Lo' \in Positions /\ Lo' < End' /\ End' <= CellCount /\ End' \in Nat
           /\ req'.end = Addr(End') /\ req'.handle = h
           /\ \A p \in Lo' .. End' - 1 :
                Lookup(p) = IF loop = "insert_prepare" THEN Invalid ELSE h
<1>1. /\ mode = "ADAPTIVE" /\ pc' = loop /\ cursor' = base
      /\ req' = [base |-> base, end |-> base + size, handle |-> h]
      /\ life' = life /\ region' = region /\ leaf' = leaf /\ mode' = mode
      /\ flat_entries' = flat_entries /\ overlay_entries' = overlay_entries
      /\ dense_regions' = dense_regions /\ uniform_regions' = uniform_regions
  BY DEF Begin, directory, optimized, counters
<1>2. life = "live" /\ pc = "idle"
  BY DEF Idle
<1>3. PICK lo \in Positions, e \in Nat :
              /\ base = Addr(lo) /\ base + size = Addr(e)
              /\ lo < e /\ e <= CellCount /\ Addr(e) <= WordMax
              /\ \A q \in Nat : q < e /\ lo <= q => Addr(q) \in Targets(base, base + size)
              /\ \A a \in Targets(base, base + size) :
                    \E q \in lo .. e - 1 : a = Addr(q)
  BY ValidRange
<1>4. lo \in Nat
  BY CellPlace
<1>5. Lo' = lo /\ Cur' = lo /\ End' = e
  <2>1. Position(Addr(lo)) = lo /\ Position(Addr(e)) = e
    BY <1>3, <1>4, CellAddress
  <2>2. req'.base = Addr(lo) /\ req'.end = Addr(e) /\ cursor' = Addr(lo)
    BY <1>1, <1>3
  <2>3. Lo' = Position(req'.base) /\ Cur' = Position(cursor') /\ End' = Position(req'.end)
    BY DEF Lo, Cur, End, Position, Relative
  <2> QED BY <2>1, <2>2, <2>3
<1>6. req' \in Requests /\ cursor' \in Words
  <2>1. base + size \in Words
    BY <1>3, Geometry DEF Words
  <2> QED BY <1>1, <2>1 DEF Requests, Slots
<1>7. IndexType' /\ ModeInv'
  BY <1>1, <1>2, <1>6 DEF IndexInv, IndexType, ModeInv
<1>8. \A p \in Positions : Cell(p)' = Cell(p)
  BY <1>1 DEF Cell, memx_region_lookup
<1>9. LoopInv'
  <2>1. req'.base = Addr(lo) /\ req'.end = Addr(e) /\ req'.handle = h
    BY <1>1, <1>3
  <2> QED BY <1>1, <1>3, <1>4, <1>5, <2>1 DEF LoopInv
<1>10. \A p \in lo .. e - 1 : p \in Positions
                /\ Lookup(p) = IF loop = "insert_prepare" THEN Invalid ELSE h
  <2>1. SUFFICES ASSUME NEW p \in lo .. e - 1
                 PROVE  /\ p \in Positions
                        /\ Lookup(p) = IF loop = "insert_prepare" THEN Invalid ELSE h
    OBVIOUS
  <2>2. p \in Positions /\ p \in Nat /\ p < e /\ lo <= p
    BY <1>3, <1>4, Geometry DEF Positions, CellCount, G
  <2>3. Addr(p) \in Targets(base, base + size)
    BY <1>3, <2>2
  <2> QED BY <2>2, <2>3 DEF Lookup
<1>11. \A p \in lo .. e - 1 :
            Cell(p)' = IF loop = "insert_prepare" THEN Invalid ELSE h
  <2>1. CellsLookup
    BY LookupIsCell DEF IndexInv
  <2> QED BY <1>1, <1>8, <1>10, <2>1 DEF CellsLookup
<1>12. ContentInv'
  <2>1. req'.handle = h
    BY <1>1
  <2> QED BY <1>1, <1>5, <1>11, <2>1 DEF ContentInv
<1>13. ReadyInv'
  <2>1. Lo' .. Cur' - 1 = {}
    BY <1>4, <1>5
  <2> QED BY <1>1, <2>1 DEF ReadyInv
<1>14. EdgeInv'
  BY <1>1, <1>8 DEF IndexInv, EdgeInv
<1>15. DescriptorsSound' /\ CountInv'
  BY <1>1 DEF IndexInv, DescriptorsSound, CountInv, HasRegion, Count
<1>16. IndexInv'
  BY <1>7, <1>9, <1>12, <1>13, <1>14, <1>15 DEF IndexInv
<1> QED BY <1>1, <1>3, <1>5, <1>8, <1>10, <1>16

\* A flat index keeps a handle or INVALID in every slot.
LEMMA FlatWriteInv ==
    ASSUME IndexInv, Idle, NEW base, NEW size, NEW h \in Slots, FlatWrite(base, size, h)
    PROVE  IndexInv'
<1>1. /\ mode = "FLAT" /\ mode' = mode /\ life' = life /\ region' = region /\ leaf' = leaf
      /\ overlay_entries' = overlay_entries /\ pc' = pc /\ req' = req /\ cursor' = cursor
      /\ dense_regions' = dense_regions /\ uniform_regions' = uniform_regions
      /\ flat_entries' = [p \in Positions |->
            IF \E a \in Targets(base, base + size) : Position(a) = p
            THEN h ELSE flat_entries[p]]
  BY DEF FlatWrite, directory, counters, call
<1>2. flat_entries \in [Positions -> Slots] /\ Directory = "BOUNDED" /\ pc = "idle"
  BY <1>1 DEF IndexInv, ModeInv, Idle
<1>3. flat_entries' \in [Positions -> Slots]
  BY <1>1, <1>2
<1>4. IndexType' /\ ModeInv'
  BY <1>1, <1>2, <1>3 DEF IndexInv, IndexType, ModeInv
<1>5. LoopInv' /\ ContentInv' /\ ReadyInv' /\ EdgeInv'
  BY <1>1, <1>2 DEF LoopInv, ContentInv, ReadyInv, EdgeInv
<1>6. DescriptorsSound' /\ CountInv'
  BY <1>1 DEF IndexInv, DescriptorsSound, CountInv, HasRegion, Count
<1> QED BY <1>4, <1>5, <1>6 DEF IndexInv

\* When the count of DENSE regions is the number of regions, all are DENSE.
LEMMA AllDense ==
    ASSUME IndexInv, dense_regions = RegionCount
    PROVE  /\ \A r \in Regions : region[r].type = "DENSE"
           /\ uniform_regions = 0
<1> DEFINE S == {q \in Regions : region[q].type = "DENSE"}
<1>1. Cardinality(S) = RegionCount
  BY DEF IndexInv, CountInv, Count
<1>2. IsFiniteSet(Regions) /\ Cardinality(Regions) = RegionCount
  BY FS_Interval, Geometry DEF Regions
<1>3. S = Regions
  <2>1. S \subseteq Regions
    OBVIOUS
  <2> HIDE DEF S
  <2> QED BY <1>1, <1>2, <2>1, FS_Subset
<1>4. \A r \in Regions : region[r].type = "DENSE"
  BY <1>3
<1>5. {q \in Regions : region[q].type = "UNIFORM"} = {}
  BY <1>4
<1>6. uniform_regions = 0
  BY <1>5, FS_EmptySet DEF IndexInv, CountInv, Count
<1> QED BY <1>4, <1>6

\* When memx_index_optimize and memx_index_optimize_overlay convert.
LEMMA ConvertStatus ==
    ASSUME IndexInv
    PROVE  /\ memx_index_optimize_status = "CONVERT" =>
                /\ mode = "ADAPTIVE" /\ Directory = "BOUNDED"
                /\ dense_regions = RegionCount
           /\ memx_index_optimize_overlay_status = "CONVERT" =>
                mode = "ADAPTIVE" /\ Directory = "BOUNDED"
<1>1. mode \in {"ADAPTIVE", "FLAT", "OVERLAY"}
  BY DEF IndexInv, IndexType
<1> QED BY <1>1 DEF memx_index_optimize_status, memx_index_optimize_overlay_status

LEMMA OptimizeInv ==
    ASSUME IndexInv, memx_index_optimize
    PROVE  /\ IndexInv'
           /\ \A p \in Positions : flat_entries'[p] = Cell(p)
<1>1. mode = "ADAPTIVE" /\ Directory = "BOUNDED" /\ dense_regions = RegionCount
      /\ life = "live" /\ pc = "idle"
  BY ConvertStatus DEF memx_index_optimize, Idle
<1>2. /\ \A r \in Regions : region[r].type = "DENSE"
      /\ uniform_regions = 0
  BY <1>1, AllDense
<1>3. /\ flat_entries' = [p \in Positions |-> TableSlot(p)]
      /\ mode' = "FLAT" /\ region' = AllEmpty /\ dense_regions' = 0
      /\ life' = life /\ leaf' = leaf /\ overlay_entries' = overlay_entries
      /\ uniform_regions' = uniform_regions
      /\ pc' = pc /\ req' = req /\ cursor' = cursor
  BY DEF memx_index_optimize, call
<1>4. ASSUME NEW p \in Positions PROVE TableSlot(p) = Cell(p) /\ TableSlot(p) \in Slots
  <2>1. p \div G \in Regions /\ p % G \in Granules
    BY CellPlace
  <2>2. region[p \div G].entries \in Tables
    BY <1>1, <1>2, <2>1 DEF IndexInv, ModeInv
  <2> QED BY <1>2, <2>1, <2>2, LookupKinds DEF TableSlot, Cell, G, Tables
<1>5. flat_entries' \in [Positions -> Slots]
  BY <1>3, <1>4
<1>6. IndexType' /\ ModeInv'
  BY <1>1, <1>3, <1>5, EmptyDirectory DEF IndexInv, IndexType, ModeInv
<1>7. LoopInv' /\ ContentInv' /\ ReadyInv' /\ EdgeInv'
  BY <1>1, <1>3 DEF LoopInv, ContentInv, ReadyInv, EdgeInv
<1>8. DescriptorsSound'
  BY <1>3, EmptyDirectory DEF DescriptorsSound
<1>9. CountInv'
  <2>1. Count(region', "DENSE") = 0 /\ Count(region', "UNIFORM") = 0
    BY <1>3, EmptyDirectory
  <2> QED BY <1>2, <1>3, <2>1 DEF CountInv, Count
<1> QED BY <1>3, <1>4, <1>6, <1>7, <1>8, <1>9 DEF IndexInv

LEMMA OptimizeOverlayInv ==
    ASSUME IndexInv, memx_index_optimize_overlay
    PROVE  /\ IndexInv' /\ mode' = "OVERLAY" /\ mode = "ADAPTIVE"
           /\ Directory = "BOUNDED"
           /\ \A p \in Positions :
                IF region[p \div G].type = "DENSE"
                THEN /\ region'[p \div G].type = "DENSE" /\ overlay_entries'[p] = Cell(p)
                ELSE region'[p \div G] = region[p \div G]
<1>1. mode = "ADAPTIVE" /\ Directory = "BOUNDED" /\ life = "live" /\ pc = "idle"
  BY ConvertStatus DEF memx_index_optimize_overlay, Idle
<1>2. /\ overlay_entries' = [p \in Positions |->
            IF region[p \div GranulesPerRegion].type = "DENSE"
            THEN TableSlot(p) ELSE ZeroHandle]
      /\ mode' = "OVERLAY"
      /\ region' = [r \in Regions |->
            IF region[r].type = "DENSE" THEN OverlayMarker ELSE region[r]]
      /\ life' = life /\ leaf' = leaf /\ flat_entries' = flat_entries
      /\ uniform_regions' = uniform_regions /\ dense_regions' = dense_regions
      /\ pc' = pc /\ req' = req /\ cursor' = cursor
  BY DEF memx_index_optimize_overlay, call
<1>3. OverlayMarker \in Descriptors /\ OverlayMarker.type = "DENSE"
  BY DenseDescriptor DEF OverlayMarker
<1>4. region \in [Regions -> Descriptors]
  BY DEF IndexInv, IndexType
<1>5. /\ region' \in [Regions -> Descriptors]
      /\ \A r \in Regions : region'[r].type = region[r].type
  BY <1>2, <1>3, <1>4
<1>6. ASSUME NEW p \in Positions
      PROVE  /\ p \div G \in Regions
             /\ region[p \div G].type = "DENSE" =>
                    TableSlot(p) = Cell(p) /\ TableSlot(p) \in Slots
  <2>1. p \div G \in Regions /\ p % G \in Granules
    BY CellPlace
  <2>2. region[p \div G].type = "DENSE" => region[p \div G].entries \in Tables
    BY <1>1, <2>1 DEF IndexInv, ModeInv
  <2> QED BY <2>1, <2>2, LookupKinds DEF TableSlot, Cell, G, Tables
<1>7. overlay_entries' \in [Positions -> Slots]
  <2>1. ZeroHandle \in Slots
    BY HandleAssumption DEF Slots
  <2> QED BY <1>2, <1>6, <2>1 DEF G
<1>8. IndexType' /\ ModeInv'
  BY <1>1, <1>2, <1>5, <1>7 DEF IndexInv, IndexType, ModeInv
<1>9. LoopInv' /\ ContentInv' /\ ReadyInv' /\ EdgeInv'
  BY <1>1, <1>2 DEF LoopInv, ContentInv, ReadyInv, EdgeInv
<1>10. DescriptorsSound'
  BY <1>1, BoundedHasNoEdge DEF DescriptorsSound, HasRegion
<1>11. CountInv'
  <2>1. /\ {q \in Regions : region'[q].type = "DENSE"}
                = {q \in Regions : region[q].type = "DENSE"}
        /\ {q \in Regions : region'[q].type = "UNIFORM"}
                = {q \in Regions : region[q].type = "UNIFORM"}
    BY <1>5
  <2> QED BY <1>2, <2>1 DEF IndexInv, CountInv, Count
<1>12. IndexInv'
  BY <1>8, <1>9, <1>10, <1>11 DEF IndexInv
<1>13. ASSUME NEW p \in Positions
       PROVE  IF region[p \div G].type = "DENSE"
              THEN /\ region'[p \div G].type = "DENSE" /\ overlay_entries'[p] = Cell(p)
              ELSE region'[p \div G] = region[p \div G]
  BY <1>2, <1>3, <1>6 DEF G
<1> QED BY <1>1, <1>2, <1>12, <1>13

\* A prepare loop that runs out of memory.
LEMMA PrepareFailsInv ==
    ASSUME IndexInv,
           InsertPrepareNoLeaf \/ InsertPrepareNoTable \/ RemovePrepareNoTable
    PROVE  /\ IndexInv' /\ \A p \in Positions : Cell(p)' = Cell(p)
           /\ Return("OUT_OF_MEMORY") /\ UNCHANGED <<life, optimized>>
           /\ pc \in {"insert_prepare", "remove_prepare"}
<1>1. /\ Return("OUT_OF_MEMORY") /\ pc \in {"insert_prepare", "remove_prepare"}
      /\ UNCHANGED <<life, optimized, dense_regions, uniform_regions>>
  BY DEF InsertPrepareNoLeaf, InsertPrepareNoTable, RemovePrepareNoTable, counters
<1>2. LoopGeometry /\ IndexType /\ DescriptorsSound
  BY <1>1, LoopFacts DEF IndexInv
<1>3. mode = "ADAPTIVE" /\ life = "live" /\ Here \in Regions
  BY <1>2 DEF LoopGeometry
<1>4. CASE InsertPrepareNoTable
  <2>1. region' = RegionsWithLeaf(Here) /\ leaf' = LeavesWithLeaf(Here)
    BY <1>4 DEF InsertPrepareNoTable
  <2>2. /\ RegionsWithLeaf(Here) = region /\ LeavesWithLeaf(Here) \in [Roots -> BOOLEAN]
        /\ leaf' = LeavesWithLeaf(Here) =>
             \A q \in Regions : HasRegion(q) \/ q = Here => HasRegion(q)'
    BY <1>2, <1>3, LeafIsBlank
  <2> QED BY <1>1, <1>3, <2>1, <2>2, AbandonInv
<1>5. CASE InsertPrepareNoLeaf \/ RemovePrepareNoTable
  <2>1. region' = region /\ leaf' = leaf
    BY <1>5 DEF InsertPrepareNoLeaf, RemovePrepareNoTable, directory
  <2>2. \A q \in Regions : HasRegion(q) => HasRegion(q)'
    BY <2>1 DEF HasRegion
  <2>3. leaf' \in [Roots -> BOOLEAN]
    BY <1>2, <2>1 DEF IndexType
  <2> QED BY <1>1, <1>3, <2>1, <2>2, <2>3, AbandonInv
<1> QED BY <1>4, <1>5

\* What the checks of a mutation that is not refused have established.
LEMMA AcceptedCall ==
    ASSUME NEW base \in Words, NEW size \in Words, NEW h \in Slots
    PROVE  /\ memx_insert_status(base, size, h) = "OK" =>
                /\ h \in Handles /\ mode # "OVERLAY"
                /\ memx_validate_range(base, size) = "OK"
                /\ \A a \in Targets(base, base + size) : memx_lookup_address(a) = Invalid
           /\ memx_remove_status(base, size, h) = "OK" =>
                /\ h \in Handles /\ mode # "OVERLAY"
                /\ memx_validate_range(base, size) = "OK"
                /\ \A a \in Targets(base, base + size) : memx_lookup_address(a) = h
BY DEF memx_insert_status, memx_remove_status, Slots

\* Every step preserves the invariant.
LEMMA StepInv == IndexInv /\ [Next]_vars => IndexInv'
<1> SUFFICES ASSUME IndexInv, [Next]_vars PROVE IndexInv'
  OBVIOUS
<1>1. CASE CreateIndex \/ CreateDirectory
  BY <1>1, CreateInv
<1>2. CASE memx_index_destroy
  BY <1>2, DestroyInv
<1>3. CASE \/ Reject \/ OptimizeReturn(memx_index_optimize_status)
           \/ OptimizeReturn(memx_index_optimize_overlay_status) \/ OptimizeNoMemory
           \/ UNCHANGED vars
  <2>1. UNCHANGED <<life, directory, optimized, call>>
        /\ UNCHANGED <<dense_regions, uniform_regions>>
    BY <1>3 DEF Reject, OptimizeReturn, OptimizeNoMemory, vars, counters
  <2> QED BY <2>1, QuietInv
<1>4. ASSUME NEW base \in Words, NEW size \in Words, NEW h \in Slots,
             memx_insert(base, size, h)
      PROVE  IndexInv'
  <2>1. /\ Idle /\ h \in Handles /\ memx_validate_range(base, size) = "OK"
        /\ \A a \in Targets(base, base + size) : memx_lookup_address(a) = Invalid
        /\ FlatWrite(base, size, h) \/ Begin("insert_prepare", base, size, h)
    BY <1>4, AcceptedCall DEF memx_insert
  <2>2. CASE FlatWrite(base, size, h)
    BY <2>1, <2>2, FlatWriteInv
  <2>3. CASE Begin("insert_prepare", base, size, h)
    BY <2>1, <2>3, BeginInv
  <2> QED BY <2>1, <2>2, <2>3
<1>5. ASSUME NEW base \in Words, NEW size \in Words, NEW h \in Slots,
             memx_remove(base, size, h)
      PROVE  IndexInv'
  <2>1. /\ Idle /\ h \in Handles /\ memx_validate_range(base, size) = "OK"
        /\ \A a \in Targets(base, base + size) : memx_lookup_address(a) = h
        /\ FlatWrite(base, size, Invalid) \/ Begin("remove_prepare", base, size, h)
    BY <1>5, AcceptedCall DEF memx_remove
  <2>2. CASE FlatWrite(base, size, Invalid)
    BY <2>1, <2>2, FlatWriteInv, Invalid \in Slots DEF Slots
  <2>3. CASE Begin("remove_prepare", base, size, h)
    BY <2>1, <2>3, BeginInv
  <2> QED BY <2>1, <2>2, <2>3
<1>6. CASE InsertPrepare
  BY <1>6, InsertPrepareInv
<1>7. CASE InsertPrepareNoLeaf \/ InsertPrepareNoTable \/ RemovePrepareNoTable
  BY <1>7, PrepareFailsInv
<1>8. CASE InsertWrite
  BY <1>8, InsertWriteInv
<1>9. CASE RemovePrepare
  BY <1>9, RemovePrepareInv
<1>10. CASE RemoveClear
  BY <1>10, RemoveClearInv
<1>11. CASE memx_index_optimize
  BY <1>11, OptimizeInv
<1>12. CASE memx_index_optimize_overlay
  BY <1>12, OptimizeOverlayInv
<1> QED BY <1>1, <1>2, <1>3, <1>4, <1>5, <1>6, <1>7, <1>8, <1>9, <1>10, <1>11, <1>12
        DEF Next

\* The invariant holds in every reachable state: in particular the commit loops
\* of memx_insert and memx_remove never find a region they would have to
\* allocate for.
THEOREM IndexInvariant == Spec => []IndexInv
BY InitInv, StepInv, PTL DEF Spec

\* A NULL sparse leaf stands for EMPTY descriptors only, and the last region of
\* the address space is never UNIFORM, for every geometry.
THEOREM IndexDescriptorsSound == Spec => []DescriptorsSound
<1>1. IndexInv => DescriptorsSound
  BY DEF IndexInv
<1> QED BY <1>1, IndexInvariant, PTL

-----------------------------------------------------------------------------
(***************************************************************************)
(* The unchecked lookups.                                                   *)
(***************************************************************************)
\* A covered address is in a region.
LEMMA CoveredAddress ==
    ASSUME NEW a \in Words, Covered(a)
    PROVE  RegionIndex(a) \in Regions /\ GranuleIndex(a) \in Granules
<1> USE Geometry
<1>1. a \in Nat /\ Relative(a) \in Nat /\ Relative(a) < RegionCount * RegionSize
  <2>1. Directory # "BOUNDED" => BaseAddress = 0
    BY ConfigAssumption DEF UsableConfig
  <2> QED BY <2>1 DEF Covered, Relative, Words
<1>2. RegionIndex(a) \in Nat /\ RegionIndex(a) < RegionCount
  BY <1>1, DivideWithRest, DivideWhere DEF RegionIndex
<1>3. Relative(a) \div GranuleSize \in Nat
  BY <1>1, DivideWithRest
<1>4. GranuleIndex(a) \in 0 .. G - 1
  BY <1>3, DivideWithRest DEF GranuleIndex, G
<1> QED BY <1>2, <1>4 DEF Regions, Granules, G

\* The lookups of memx.h and of the benchmark that skip the checks, one of them
\* without a branch, return what the checked lookup returns.
LEMMA InvViewsAgree == IndexInv => ViewsAgree
<1> SUFFICES ASSUME IndexInv, NEW a \in Words, life = "live", Covered(a),
                    memx_lookup_address(a) # Invalid
             PROVE  /\ memx_index_bounded_view =>
                        /\ memx_bounded_lookup_assume_mapped(a) = memx_lookup_address(a)
                        /\ lookup_memx_bounded_trusted(a) = memx_lookup_address(a)
                        /\ lookup_memx_bounded_branchless(a) = memx_lookup_address(a)
                    /\ memx_index_flat_view =>
                        memx_flat_lookup_assume_mapped(a) = memx_lookup_address(a)
                    /\ memx_index_overlay_view =>
                        memx_overlay_lookup_trusted(a) = memx_lookup_address(a)
  BY DEF ViewsAgree
<1> DEFINE d == region[RegionIndex(a)]
<1>1. d \in Descriptors
  BY CoveredAddress DEF IndexInv, IndexType
<1>2. d.type \in {"EMPTY", "UNIFORM", "DENSE"}
  BY <1>1, DescriptorKinds
<1>3. CASE memx_index_bounded_view
  <2>1. /\ memx_lookup_address(a) = memx_region_lookup(d, GranuleIndex(a))
        /\ mode = "ADAPTIVE"
    BY <1>3 DEF memx_index_bounded_view, memx_lookup_address, HasRegion
  <2>2. d.type \in {"UNIFORM", "DENSE"}
    BY <1>2, <2>1, LookupKinds
  <2>3. CASE d.type = "UNIFORM"
    <3>1. memx_lookup_address(a) = d.handle
      BY <2>1, <2>3, LookupKinds
    <3>2. lookup_memx_bounded_branchless(a) = d.handle
      BY <2>3 DEF lookup_memx_bounded_branchless, InlineHandle
    <3> QED BY <2>1, <2>3, <3>1, <3>2
            DEF memx_bounded_lookup_assume_mapped, lookup_memx_bounded_trusted,
                InlineHandle, memx_index_flat_view, memx_index_overlay_view
  <2>4. CASE d.type = "DENSE"
    <3>1. memx_lookup_address(a) = d.entries[GranuleIndex(a)]
      BY <2>1, <2>4, LookupKinds
    <3>2. lookup_memx_bounded_branchless(a) = d.entries[GranuleIndex(a)]
      BY <2>4 DEF lookup_memx_bounded_branchless
    <3> QED BY <2>1, <2>4, <3>1, <3>2
            DEF memx_bounded_lookup_assume_mapped, lookup_memx_bounded_trusted,
                memx_index_flat_view, memx_index_overlay_view
  <2> QED BY <2>2, <2>3, <2>4
<1>4. CASE memx_index_flat_view
  BY <1>4 DEF memx_index_bounded_view, memx_index_flat_view, memx_index_overlay_view,
              memx_lookup_address, memx_flat_lookup_assume_mapped
<1>5. CASE memx_index_overlay_view
  <2>1. mode = "OVERLAY" /\ HasRegion(RegionIndex(a))
    BY <1>5 DEF memx_index_overlay_view, HasRegion, IndexInv, ModeInv
  <2>2. memx_lookup_address(a) =
            IF d.type = "DENSE" THEN overlay_entries[Position(a)]
            ELSE memx_region_lookup(d, GranuleIndex(a))
    BY <2>1 DEF memx_lookup_address
  <2>3. memx_overlay_lookup_trusted(a) = memx_lookup_address(a)
    BY <1>2, <2>2, LookupKinds DEF memx_overlay_lookup_trusted, InlineHandle
  <2> QED BY <2>1, <2>3 DEF memx_index_bounded_view, memx_index_flat_view
<1> QED BY <1>3, <1>4, <1>5

\* On every address their contracts admit, the unchecked lookups of all three
\* views agree with memx_lookup_address.
THEOREM IndexViewsAgree == Spec => []ViewsAgree
BY IndexInvariant, InvViewsAgree, PTL

-----------------------------------------------------------------------------
(***************************************************************************)
(* MemxIndex implements MemxMap: every step of the index is a step of the   *)
(* abstract map or leaves its variables alone.  There is one lemma per      *)
(* group of actions; each says which abstract step the action is.  First    *)
(* the abstract variables, in cells.                                        *)
(***************************************************************************)
\* The last address of a range of cells is in its last cell.
LEMMA LastCell ==
    ASSUME NEW e \in Nat \ {0}
    PROVE  Position(Addr(e) - 1) = e - 1
<1> USE Geometry
<1>1. e - 1 \in Nat /\ GranuleSize - 1 \in 0 .. GranuleSize - 1
  OBVIOUS
<1>2. (e - 1) * GranuleSize = e * GranuleSize - GranuleSize
  BY <1>1
<1>3. Relative(Addr(e) - 1) = (e - 1) * GranuleSize + (GranuleSize - 1)
  <2>1. e * GranuleSize \in Nat
    OBVIOUS
  <2> QED BY <1>2, <2>1 DEF Relative, Addr
<1>4. \A k \in Nat, t \in 0 .. GranuleSize - 1 :
        (k * GranuleSize + t) \div GranuleSize = k
  BY DivideUnique
<1> QED BY <1>1, <1>3, <1>4 DEF Position

\* What callers see of each cell: the commit loop counts as done in front of
\* the cursor too.
SeenCells == \A p \in Positions : Mapping[p] =
    IF Committing /\ p \in Cur .. End - 1 THEN Committed ELSE Lookup(p)

\* The arguments of the running call, in cells.
SeenRequest == pc # "idle" =>
    MapRequest = [op |-> IF pc \in {"insert_prepare", "insert_write"}
                         THEN "insert" ELSE "remove",
                  lo |-> Lo, hi |-> End - 1, handle |-> req.handle]

Seen == SeenCells /\ SeenRequest /\ CellsLookup

LEMMA InvSeen == IndexInv => Seen
<1> SUFFICES ASSUME IndexInv PROVE Seen
  OBVIOUS
<1>1. SeenCells
  <2>1. SUFFICES ASSUME NEW p \in Positions
                 PROVE  Mapping[p] = IF Committing /\ p \in Cur .. End - 1
                                     THEN Committed ELSE Lookup(p)
    BY DEF SeenCells
  <2>2. Mapping[p] = IF Committing /\ cursor <= Addr(p) /\ Addr(p) < req.end
                     THEN Committed ELSE Lookup(p)
    BY DEF Mapping, Addr, Committed, Lookup
  <2>3. CASE Committing
    <3>1. LoopGeometry /\ p \in Nat
      BY <2>3, LoopFacts, CellPlace DEF Committing
    <3>2. cursor = Addr(Cur) /\ req.end = Addr(End) /\ Cur \in Nat /\ End \in Nat
      BY <3>1 DEF LoopGeometry
    <3>3. /\ cursor <= Addr(p) <=> Cur <= p
          /\ Addr(p) < req.end <=> p < End
      BY <3>1, <3>2, CellAddress
    <3> QED BY <2>2, <3>1, <3>2, <3>3
  <2>4. CASE ~Committing
    BY <2>2, <2>4
  <2> QED BY <2>3, <2>4
<1>2. SeenRequest
  <2>1. SUFFICES ASSUME pc # "idle"
                 PROVE  Position(req.end - 1) = End - 1
    BY DEF SeenRequest, MapRequest, Lo
  <2>2. req.end = Addr(End) /\ End \in Nat \ {0}
    BY <2>1, LoopFacts DEF LoopGeometry
  <2> QED BY <2>2, LastCell
<1>3. CellsLookup
  BY LookupIsCell DEF IndexInv
<1> QED BY <1>1, <1>2, <1>3 DEF Seen

LEMMA InvSeenNext == IndexInv' => Seen'
BY InvSeen, PTL

\* A map is the function of its cells.
LEMMA MappingIsFunction ==
    /\ Mapping = [p \in Positions |-> Mapping[p]]
    /\ Mapping' = [p \in Positions |-> Mapping'[p]]
BY DEF Mapping

\* Two states with the same cells have the same map.
LEMMA SameMapping ==
    ASSUME \A p \in Positions : Mapping'[p] = Mapping[p]
    PROVE  Mapping' = Mapping
BY MappingIsFunction

\* A step that touches neither the directory nor the call changes nothing that
\* callers see but the status.
LEMMA NothingSeen ==
    ASSUME UNCHANGED <<directory, optimized, call>>
    PROVE  /\ Mapping' = Mapping /\ MapPhase' = MapPhase /\ MapRequest' = MapRequest
           /\ (mode = "OVERLAY")' = (mode = "OVERLAY")
           /\ Committing' = Committing
<1>1. /\ region' = region /\ leaf' = leaf /\ mode' = mode
      /\ flat_entries' = flat_entries /\ overlay_entries' = overlay_entries
      /\ pc' = pc /\ req' = req /\ cursor' = cursor
  BY DEF directory, optimized, call
<1>2. ASSUME NEW a PROVE memx_lookup_address(a)' = memx_lookup_address(a)
  BY <1>1 DEF memx_lookup_address, HasRegion, memx_region_lookup
<1>3. Committing' = Committing
  BY <1>1 DEF Committing
<1>4. Mapping' = Mapping
  BY <1>1, <1>2, <1>3 DEF Mapping
<1> QED BY <1>1, <1>3, <1>4 DEF MapPhase, MapRequest, Position, Relative

-----------------------------------------------------------------------------
(***************************************************************************)
(* Which abstract step each action is.                                      *)
(***************************************************************************)
\* An index without a directory maps nothing.
LEMMA InitMap == Init => Map!Init
<1> SUFFICES ASSUME Init PROVE Map!Init
  OBVIOUS
<1>1. life = "none" /\ mode = "ADAPTIVE" /\ region = AllEmpty /\ pc = "idle" /\ status = "OK"
  BY DEF Init
<1>2. IndexInv
  BY InitInv
<1>3. SeenCells /\ CellsLookup
  BY <1>2, InvSeen DEF Seen
<1>4. ~Committing
  BY <1>1 DEF Committing
<1>5. ASSUME NEW p \in Positions PROVE Mapping[p] = Invalid
  <2>1. Mapping[p] = Cell(p)
    BY <1>1, <1>3, <1>4 DEF SeenCells, CellsLookup
  <2>2. region[p \div G] = Empty
    BY <1>1, CellPlace, EmptyDirectory
  <2> QED BY <2>1, <2>2, EmptyDescriptor DEF Cell
<1>6. Mapping = Map!Unmapped
  BY <1>5, MappingIsFunction DEF Map!Unmapped
<1> QED BY <1>1, <1>4, <1>6 DEF Map!Init, MapPhase, MapRequest, MapStatus, Map!NoRequest

\* A call that ends at once and is refused.
LEMMA RefusedIsReject ==
    ASSUME UNCHANGED <<directory, optimized, call>>, pc = "idle",
           life' = "live" <=> life = "live", status' \in Map!Errors
    PROVE  Map!Reject
<1>1. ~Committing /\ MapPhase = "idle"
  BY DEF Committing, MapPhase
<1>2. /\ Mapping' = Mapping /\ MapPhase' = MapPhase /\ MapRequest' = MapRequest
      /\ (mode = "OVERLAY")' = (mode = "OVERLAY") /\ Committing' = Committing
  BY NothingSeen
<1>3. MapStatus' = status'
  BY <1>1, <1>2 DEF MapStatus
<1>4. (life = "live")' = (life = "live")
  OBVIOUS
<1> QED BY <1>1, <1>2, <1>3, <1>4 DEF Map!Reject

LEMMA CreateSteps ==
    ASSUME IndexInv, CreateIndex \/ CreateDirectory
    PROVE  Map!Reject \/ Map!Create \/ UNCHANGED Map!vars
<1>1. life # "live"
  BY DEF CreateIndex, CreateDirectory
<1>2. region = AllEmpty /\ leaf = NoLeaves /\ pc = "idle"
  BY <1>1 DEF IndexInv, ModeInv
<1>3. UNCHANGED <<directory, optimized, call>>
  BY <1>2 DEF CreateIndex, CreateDirectory, directory
<1>4. /\ Mapping' = Mapping /\ MapPhase' = MapPhase /\ MapRequest' = MapRequest
      /\ (mode = "OVERLAY")' = (mode = "OVERLAY") /\ Committing' = Committing
  BY <1>3, NothingSeen
<1>5. CASE life' = "creating" /\ status' = status
  <2>1. (life = "live")' = (life = "live") /\ MapStatus' = MapStatus
    BY <1>1, <1>4, <1>5 DEF MapStatus
  <2> QED BY <1>4, <2>1 DEF Map!vars
<1>6. CASE life' = "live" /\ status' = "OK"
  <2>1. ~Committing /\ MapPhase = "idle"
    BY <1>2 DEF Committing, MapPhase
  <2>2. MapStatus' = "OK"
    BY <1>4, <1>6, <2>1 DEF MapStatus
  <2> QED BY <1>1, <1>4, <1>6, <2>1, <2>2 DEF Map!Create
<1>7. CASE status' = "OUT_OF_MEMORY" /\ life' # "live"
  BY <1>1, <1>2, <1>3, <1>7, RefusedIsReject DEF Map!Errors
<1> QED BY <1>1, <1>5, <1>6, <1>7 DEF CreateIndex, CreateDirectory

LEMMA DestroySteps ==
    ASSUME IndexInv, memx_index_destroy
    PROVE  Map!Destroy
<1>1. /\ life = "live" /\ pc = "idle" /\ pc' = "idle" /\ life' = "none"
      /\ region' = AllEmpty /\ mode' = "ADAPTIVE" /\ status' = "OK"
  BY DEF memx_index_destroy, call, Idle
<1>2. IndexInv'
  BY DestroyInv
<1>3. SeenCells' /\ CellsLookup'
  BY <1>2, InvSeenNext DEF Seen
<1>4. ~Committing /\ ~Committing'
  BY <1>1 DEF Committing
<1>5. ASSUME NEW p \in Positions PROVE Mapping'[p] = Invalid
  <2>1. Mapping'[p] = Cell(p)'
    BY <1>1, <1>3, <1>4 DEF SeenCells, CellsLookup
  <2>2. region'[p \div G] = Empty
    BY <1>1, CellPlace, EmptyDirectory
  <2>3. Cell(p)' = memx_region_lookup(region'[p \div G], p % G)
    BY DEF Cell, memx_region_lookup
  <2> QED BY <2>1, <2>2, <2>3, EmptyDescriptor
<1>6. Mapping' = Map!Unmapped
  BY <1>5, MappingIsFunction DEF Map!Unmapped
<1>7. /\ MapPhase = "idle" /\ MapPhase' = "idle" /\ MapRequest' = MapRequest
      /\ MapStatus' = "OK"
  BY <1>1, <1>4 DEF MapPhase, MapRequest, MapStatus
<1> QED BY <1>1, <1>6, <1>7 DEF Map!Destroy

\* The results of the checks.
LEMMA RefusalIsError ==
    ASSUME NEW base, NEW size, NEW h
    PROVE  /\ memx_insert_status(base, size, h) \in Map!Errors \cup {"OK"}
           /\ memx_remove_status(base, size, h) \in Map!Errors \cup {"OK"}
<1>1. memx_validate_range(base, size) \in {"OK", "INVALID_ARGUMENT", "OUT_OF_RANGE"}
  BY DEF memx_validate_range
<1> QED BY <1>1 DEF memx_insert_status, memx_remove_status, Map!Errors

LEMMA RejectSteps ==
    ASSUME IndexInv, Reject
    PROVE  Map!Reject
<1>1. /\ UNCHANGED <<directory, optimized, call>> /\ pc = "idle" /\ life' = life
      /\ status' \in (UNION {{memx_insert_status(base, size, h),
                             memx_remove_status(base, size, h)} :
                               base \in Words, size \in Words, h \in Slots}) \ {"OK"}
  BY DEF Reject, Idle
<1>2. PICK base \in Words, size \in Words, h \in Slots :
            status' \in {memx_insert_status(base, size, h),
                         memx_remove_status(base, size, h)} \ {"OK"}
  BY <1>1
<1>3. status' \in Map!Errors
  BY <1>2, RefusalIsError
<1> QED BY <1>1, <1>3, RefusedIsReject

LEMMA OptimizeReturnSteps ==
    ASSUME IndexInv,
           \/ OptimizeReturn(memx_index_optimize_status)
           \/ OptimizeReturn(memx_index_optimize_overlay_status)
           \/ OptimizeNoMemory
    PROVE  Map!Reject \/ Map!Optimize
<1>1. UNCHANGED <<directory, optimized, call>> /\ pc = "idle" /\ life = "live" /\ life' = life
  BY DEF OptimizeReturn, OptimizeNoMemory, Idle
<1>2. status' \in Map!Errors \cup {"OK"}
  <2>1. /\ memx_index_optimize_status \in {"OK", "BUSY", "CONVERT", "UNSUPPORTED"}
        /\ memx_index_optimize_overlay_status \in {"OK", "CONVERT", "UNSUPPORTED"}
    BY DEF IndexInv, IndexType,
           memx_index_optimize_status, memx_index_optimize_overlay_status
  <2> QED BY <2>1 DEF OptimizeReturn, OptimizeNoMemory, Map!Errors
<1>3. CASE status' \in Map!Errors
  BY <1>1, <1>3, RefusedIsReject
<1>4. CASE status' = "OK"
  <2>1. ~Committing /\ MapPhase = "idle"
    BY <1>1 DEF Committing, MapPhase
  <2>2. /\ Mapping' = Mapping /\ MapPhase' = MapPhase /\ MapRequest' = MapRequest
        /\ (mode = "OVERLAY")' = (mode = "OVERLAY") /\ Committing' = Committing
    BY <1>1, NothingSeen
  <2>3. MapStatus' = "OK" /\ (life = "live")' = (life = "live")
    BY <1>1, <1>4, <2>1, <2>2 DEF MapStatus
  <2> QED BY <1>1, <2>1, <2>2, <2>3 DEF Map!Optimize
<1> QED BY <1>2, <1>3, <1>4

\* In a flat index a lookup reads the table.
LEMMA FlatLookup ==
    ASSUME NEW p \in Positions
    PROVE  /\ mode = "FLAT" => Lookup(p) = flat_entries[p]
           /\ mode' = "FLAT" => Lookup(p)' = flat_entries'[p]
<1>1. Covered(Addr(p)) /\ Position(Addr(p)) = p
  BY CellPlace, CellAddress
<1>2. mode = "FLAT" => Lookup(p) = flat_entries[p]
  BY <1>1 DEF Lookup, memx_lookup_address
<1>3. mode' = "FLAT" => Lookup(p)' = flat_entries'[p]
  BY <1>1 DEF Lookup, memx_lookup_address
<1> QED BY <1>2, <1>3

\* A mutation of a flat index takes effect in one step.
LEMMA FlatWriteSteps ==
    ASSUME IndexInv, Idle, NEW base \in Words, NEW size \in Words, NEW h \in Handles,
           NEW op \in {"insert", "remove"},
           memx_validate_range(base, size) = "OK",
           \A a \in Targets(base, base + size) :
                memx_lookup_address(a) = IF op = "insert" THEN Invalid ELSE h,
           FlatWrite(base, size, IF op = "insert" THEN h ELSE Invalid)
    PROVE  Map!Mutate
<1> DEFINE new == IF op = "insert" THEN h ELSE Invalid
           old == IF op = "insert" THEN Invalid ELSE h
<1>1. /\ life = "live" /\ life' = life /\ pc = "idle" /\ pc' = pc
      /\ mode = "FLAT" /\ mode' = mode /\ status' = "OK"
      /\ flat_entries' = [p \in Positions |->
            IF \E a \in Targets(base, base + size) : Position(a) = p
            THEN new ELSE flat_entries[p]]
  BY DEF FlatWrite, Idle, call
<1>2. PICK lo \in Positions, e \in Nat :
              /\ base = Addr(lo) /\ base + size = Addr(e)
              /\ lo < e /\ e <= CellCount /\ Addr(e) <= WordMax
              /\ \A q \in Nat : q < e /\ lo <= q => Addr(q) \in Targets(base, base + size)
              /\ \A a \in Targets(base, base + size) :
                    \E q \in lo .. e - 1 : a = Addr(q)
  BY ValidRange
<1>3. lo \in Nat /\ e - 1 \in Positions /\ lo <= e - 1
  BY <1>2, CellPlace, Geometry DEF Positions, CellCount, G
<1>4. SeenCells /\ SeenCells' /\ ~Committing /\ ~Committing'
  <2>1. new \in Slots
    BY DEF Slots
  <2>2. IndexInv'
    BY <2>1, FlatWriteInv
  <2> QED BY <1>1, <2>2, InvSeen, InvSeenNext DEF Seen, Committing
<1>5. ASSUME NEW p \in Positions
      PROVE  Mapping[p] = flat_entries[p] /\ Mapping'[p] = flat_entries'[p]
  BY <1>1, <1>4, FlatLookup DEF SeenCells
<1>6. ASSUME NEW p \in Positions
      PROVE  (\E a \in Targets(base, base + size) : Position(a) = p) <=> p \in lo .. e - 1
  <2>1. p \in Nat
    BY CellPlace
  <2>2. ASSUME NEW a \in Targets(base, base + size), Position(a) = p
        PROVE  p \in lo .. e - 1
    <3>1. PICK q \in lo .. e - 1 : a = Addr(q)
      BY <1>2
    <3>2. q \in Nat
      BY <1>3
    <3> QED BY <2>2, <3>1, <3>2, CellAddress
  <2>3. ASSUME p \in lo .. e - 1
        PROVE  \E a \in Targets(base, base + size) : Position(a) = p
    <3>1. Addr(p) \in Targets(base, base + size)
      BY <1>2, <1>3, <2>1, <2>3
    <3> QED BY <2>1, <3>1, CellAddress
  <2> QED BY <2>2, <2>3
<1>7. ASSUME NEW p \in Positions, p \in lo .. e - 1
      PROVE  Mapping[p] = old
  <2>1. p \in Nat /\ Addr(p) \in Targets(base, base + size)
    BY <1>2, <1>3, <1>7, CellPlace
  <2>2. Lookup(p) = old
    BY <2>1 DEF Lookup
  <2> QED BY <1>4, <2>2 DEF SeenCells
<1>8. ASSUME NEW p \in Positions
      PROVE  Mapping'[p] = IF p \in lo .. e - 1 THEN new ELSE Mapping[p]
  BY <1>1, <1>5, <1>6
<1> DEFINE r == [op |-> op, lo |-> lo, hi |-> e - 1, handle |-> h]
<1>9. /\ r \in Map!Requests
      /\ r.lo = lo /\ r.hi = e - 1 /\ r.op = op /\ r.handle = h
  BY <1>3 DEF Map!Requests
<1> HIDE DEF r
<1>10. \A c \in lo .. e - 1 : c \in Positions
  BY <1>2, <1>3, Geometry DEF Positions, CellCount, G
<1>11. Map!Accepts(r)
  BY <1>1, <1>3, <1>7, <1>9, <1>10 DEF Map!Accepts
<1>12. Mapping' = Map!Applied(r)
  <2>1. Map!Applied(r) = [c \in Positions |-> IF c \in lo .. e - 1 THEN new ELSE Mapping[c]]
    BY <1>9 DEF Map!Applied
  <2> QED BY <1>8, <2>1, MappingIsFunction
<1>13. Mapping' # Mapping
  <2>1. Mapping'[lo] = new /\ Mapping[lo] = old
    BY <1>2, <1>3, <1>7, <1>8
  <2> QED BY <2>1, HandleAssumption
<1>14. /\ MapPhase = "idle" /\ MapPhase' = "idle" /\ MapRequest' = MapRequest
       /\ MapStatus' = "OK"
  BY <1>1, <1>4 DEF MapPhase, MapRequest, MapStatus
<1> QED BY <1>1, <1>9, <1>11, <1>12, <1>13, <1>14 DEF Map!Mutate

\* A mutation of an adaptive index is accepted.
LEMMA BeginSteps ==
    ASSUME IndexInv, Idle, NEW base \in Words, NEW size \in Words, NEW h \in Handles,
           NEW op \in {"insert", "remove"},
           memx_validate_range(base, size) = "OK",
           \A a \in Targets(base, base + size) :
                memx_lookup_address(a) = IF op = "insert" THEN Invalid ELSE h,
           Begin(IF op = "insert" THEN "insert_prepare" ELSE "remove_prepare", base, size, h)
    PROVE  Map!Begin
<1> DEFINE loop == IF op = "insert" THEN "insert_prepare" ELSE "remove_prepare"
<1>1. /\ life = "live" /\ life' = life /\ pc = "idle" /\ pc' = loop
      /\ mode = "ADAPTIVE" /\ mode' = mode /\ status' = status
  BY DEF Begin, Idle, optimized
<1>2. /\ IndexInv' /\ \A p \in Positions : Cell(p)' = Cell(p)
      /\ Lo' \in Positions /\ Lo' < End' /\ End' <= CellCount /\ End' \in Nat
      /\ req'.end = Addr(End') /\ req'.handle = h
      /\ \A p \in Lo' .. End' - 1 :
            Lookup(p) = IF loop = "insert_prepare" THEN Invalid ELSE h
  BY BeginInv
<1>3. Seen /\ Seen'
  BY <1>2, InvSeen, InvSeenNext
<1>4. ~Committing /\ ~Committing'
  BY <1>1 DEF Committing
<1>5. ASSUME NEW p \in Positions
      PROVE  Mapping[p] = Lookup(p) /\ Mapping'[p] = Mapping[p]
  BY <1>1, <1>2, <1>3, <1>4 DEF Seen, SeenCells, CellsLookup
<1>6. Mapping' = Mapping
  BY <1>5, SameMapping
<1>7. MapRequest' = [op |-> op, lo |-> Lo', hi |-> End' - 1, handle |-> h]
  <2>1. pc' # "idle" /\ (pc' \in {"insert_prepare", "insert_write"} <=> op = "insert")
    BY <1>1
  <2>2. MapRequest' = [op |-> IF pc' \in {"insert_prepare", "insert_write"}
                              THEN "insert" ELSE "remove",
                       lo |-> Lo', hi |-> End' - 1, handle |-> req'.handle]
    BY <1>3, <2>1 DEF Seen, SeenRequest
  <2> QED BY <1>2, <2>1, <2>2
<1>8. Lo' \in Nat /\ End' - 1 \in Positions /\ Lo' <= End' - 1
      /\ \A c \in Lo' .. End' - 1 : c \in Positions
  <2>1. Positions = 0 .. CellCount - 1
    BY DEF Positions, CellCount, G
  <2>2. CellCount \in Nat
    BY Geometry
  <2>3. PICK lo : lo = Lo'
    OBVIOUS
  <2>4. PICK e : e = End'
    OBVIOUS
  <2>5. lo \in Positions /\ lo < e /\ e <= CellCount /\ e \in Nat
    BY <1>2, <2>3, <2>4
  <2>6. lo \in Nat /\ e - 1 \in Positions /\ lo <= e - 1
        /\ \A c \in lo .. e - 1 : c \in Positions
    BY <2>1, <2>2, <2>5
  <2> QED BY <2>3, <2>4, <2>6
<1>9. MapRequest' \in Map!Requests
  BY <1>2, <1>7, <1>8 DEF Map!Requests
<1>10. PICK r : r = MapRequest'
  OBVIOUS
<1>11. r.op = op /\ r.lo = Lo' /\ r.hi = End' - 1 /\ r.handle = h
  BY <1>7, <1>10
<1>12. Map!Accepts(r)
  BY <1>1, <1>2, <1>5, <1>8, <1>11 DEF Map!Accepts
<1>13. MapPhase = "idle" /\ MapPhase' = "called" /\ MapStatus' = MapStatus
  BY <1>1, <1>4 DEF MapPhase, MapStatus
<1> QED BY <1>1, <1>6, <1>9, <1>10, <1>12, <1>13 DEF Map!Begin

\* An iteration of a prepare loop is not seen; the last one is where the call
\* takes effect, in exactly the cells of its range.
LEMMA PrepareSteps ==
    ASSUME IndexInv, InsertPrepare \/ RemovePrepare
    PROVE  Map!Apply \/ UNCHANGED Map!vars
<1> DEFINE commit == IF pc = "insert_prepare" THEN "insert_write" ELSE "remove_clear"
           m == Stop(Cur, End)
<1>1. pc \in {"insert_prepare", "remove_prepare"}
  BY DEF InsertPrepare, RemovePrepare
<1>2. /\ IndexInv' /\ \A p \in Positions : Cell(p)' = Cell(p)
      /\ AdvancePrepare(commit) /\ UNCHANGED <<life, optimized>>
  <2>1. CASE InsertPrepare
    BY <2>1, InsertPrepareInv DEF InsertPrepare
  <2>2. CASE RemovePrepare
    BY <2>2, RemovePrepareInv DEF RemovePrepare
  <2> QED BY <2>1, <2>2
<1>3. Seen /\ Seen' /\ LoopGeometry
  BY <1>1, <1>2, InvSeen, InvSeenNext, LoopFacts
<1>4. /\ req' = req /\ Lo' = Lo /\ End' = End /\ status' = status
      /\ \/ m < End /\ pc' = pc /\ Cur' = m
         \/ m = End /\ pc' = commit /\ Cur' = Lo
  BY <1>2, <1>3, PrepareMoves DEF AdvancePrepare
<1>5. mode = "ADAPTIVE" /\ mode' = "ADAPTIVE" /\ life = "live" /\ life' = "live"
  BY <1>2, <1>3 DEF LoopGeometry, optimized
<1>6. pc # "idle" /\ pc' # "idle" /\ ~Committing
  BY <1>1, <1>4 DEF Committing
<1>7. MapRequest' = MapRequest
  <2>1. /\ MapRequest = [op |-> IF pc \in {"insert_prepare", "insert_write"}
                                THEN "insert" ELSE "remove",
                         lo |-> Lo, hi |-> End - 1, handle |-> req.handle]
        /\ MapRequest' = [op |-> IF pc' \in {"insert_prepare", "insert_write"}
                                 THEN "insert" ELSE "remove",
                          lo |-> Lo', hi |-> End' - 1, handle |-> req'.handle]
    BY <1>3, <1>6 DEF Seen, SeenRequest
  <2>2. pc' \in {"insert_prepare", "insert_write"} <=> pc \in {"insert_prepare", "insert_write"}
    BY <1>1, <1>4
  <2> QED BY <1>4, <2>1, <2>2
<1>8. ASSUME NEW p \in Positions
      PROVE  Mapping[p] = Cell(p) /\ (~Committing' => Mapping'[p] = Cell(p))
  BY <1>2, <1>3, <1>5, <1>6 DEF Seen, SeenCells, CellsLookup
<1>9. CASE m < End /\ pc' = pc
  <2>1. ~Committing'
    BY <1>1, <1>9 DEF Committing
  <2>2. Mapping' = Mapping
    BY <1>8, <2>1, SameMapping
  <2>3. MapPhase' = MapPhase /\ MapStatus' = MapStatus
    BY <1>4, <1>6, <1>9, <2>1 DEF MapPhase, MapStatus
  <2>4. (life = "live")' = (life = "live") /\ (mode = "OVERLAY")' = (mode = "OVERLAY")
    BY <1>5
  <2> QED BY <1>7, <2>2, <2>3, <2>4 DEF Map!vars
<1>10. CASE m = End /\ pc' = commit /\ Cur' = Lo
  <2>1. Committing' /\ (pc' = "insert_write" <=> pc = "insert_prepare")
    BY <1>1, <1>10 DEF Committing
  <2>2. Committed' = IF pc = "insert_prepare" THEN req.handle ELSE Invalid
    BY <1>4, <2>1 DEF Committed
  <2>3. ASSUME NEW p \in Positions
        PROVE  Mapping'[p] = IF p \in Lo .. End - 1 THEN Committed' ELSE Mapping[p]
    <3>1. Mapping'[p] = IF p \in Lo .. End - 1 THEN Committed' ELSE Lookup(p)'
      BY <1>3, <1>4, <1>10, <2>1 DEF Seen, SeenCells
    <3>2. Lookup(p)' = Cell(p)
      BY <1>2, <1>3, <1>5 DEF Seen, CellsLookup
    <3> QED BY <1>8, <3>1, <3>2
  <2>4. /\ MapRequest.lo = Lo /\ MapRequest.hi = End - 1 /\ MapRequest.handle = req.handle
        /\ MapRequest.op = "insert" <=> pc = "insert_prepare"
    BY <1>1, <1>3, <1>6 DEF Seen, SeenRequest
  <2>5. Mapping' = Map!Applied(MapRequest)
    <3>1. Map!Applied(MapRequest) = [c \in Positions |->
                IF c \in Lo .. End - 1 THEN Committed' ELSE Mapping[c]]
      BY <2>2, <2>4 DEF Map!Applied
    <3> QED BY <2>3, <3>1, MappingIsFunction
  <2>6. MapPhase = "called" /\ MapPhase' = "applied" /\ MapStatus' = "OK"
    BY <1>1, <1>6, <1>10, <2>1 DEF MapPhase, MapStatus
  <2>7. (life = "live")' = (life = "live") /\ (mode = "OVERLAY")' = (mode = "OVERLAY")
    BY <1>5
  <2> QED BY <1>7, <2>5, <2>6, <2>7 DEF Map!Apply
<1> QED BY <1>4, <1>9, <1>10

\* A prepare loop that runs out of memory has changed no lookup.
LEMMA PrepareFailsSteps ==
    ASSUME IndexInv,
           InsertPrepareNoLeaf \/ InsertPrepareNoTable \/ RemovePrepareNoTable
    PROVE  Map!Fail
<1>1. /\ IndexInv' /\ \A p \in Positions : Cell(p)' = Cell(p)
      /\ Return("OUT_OF_MEMORY") /\ UNCHANGED <<life, optimized>>
      /\ pc \in {"insert_prepare", "remove_prepare"}
  BY PrepareFailsInv
<1>2. Seen /\ Seen' /\ LoopGeometry
  BY <1>1, InvSeen, InvSeenNext, LoopFacts
<1>3. mode = "ADAPTIVE" /\ mode' = "ADAPTIVE" /\ life = "live" /\ life' = "live"
  BY <1>1, <1>2 DEF LoopGeometry, optimized
<1>4. pc' = "idle" /\ status' = "OUT_OF_MEMORY" /\ ~Committing /\ ~Committing'
  BY <1>1 DEF Return, Committing
<1>5. ASSUME NEW p \in Positions PROVE Mapping'[p] = Mapping[p]
  BY <1>1, <1>2, <1>3, <1>4 DEF Seen, SeenCells, CellsLookup
<1>6. Mapping' = Mapping
  BY <1>5, SameMapping
<1>7. /\ MapPhase = "called" /\ MapPhase' = "idle" /\ MapRequest' = Map!NoRequest
      /\ MapStatus' \in Map!Errors
  BY <1>1, <1>4 DEF MapPhase, MapRequest, MapStatus, Map!NoRequest, Map!Errors
<1>8. (life = "live")' = (life = "live") /\ (mode = "OVERLAY")' = (mode = "OVERLAY")
  BY <1>3
<1> QED BY <1>6, <1>7, <1>8 DEF Map!Fail

\* An iteration of a commit loop writes what callers already count on.
LEMMA CommitSteps ==
    ASSUME IndexInv, InsertWrite \/ RemoveClear
    PROVE  Map!Finish \/ UNCHANGED Map!vars
<1> DEFINE m == Stop(Cur, End)
<1>1. /\ IndexInv' /\ CommitCells /\ AdvanceCommit /\ UNCHANGED <<life, optimized>>
      /\ pc \in {"insert_write", "remove_clear"}
  BY InsertWriteInv, RemoveClearInv DEF InsertWrite, RemoveClear
<1>2. Seen /\ Seen' /\ LoopGeometry
  BY <1>1, InvSeen, InvSeenNext, LoopFacts
<1>3. mode = "ADAPTIVE" /\ mode' = "ADAPTIVE" /\ life = "live" /\ life' = "live"
  BY <1>1, <1>2 DEF LoopGeometry, optimized
<1>4. Committing /\ MapStatus = "OK"
  BY <1>1 DEF Committing, MapStatus
<1>5. (life = "live")' = (life = "live") /\ (mode = "OVERLAY")' = (mode = "OVERLAY")
  BY <1>3
<1>6. Cur \in Nat /\ m \in Nat /\ End \in Nat /\ Cur < m /\ m <= End
  BY <1>2 DEF LoopGeometry
<1>7. ASSUME NEW p \in Positions
      PROVE  /\ Mapping[p] = IF p \in Cur .. End - 1 THEN Committed ELSE Cell(p)
             /\ Lookup(p)' = IF p \in Cur .. m - 1 THEN Committed ELSE Cell(p)
  BY <1>1, <1>2, <1>3, <1>4 DEF Seen, SeenCells, CellsLookup, CommitCells
<1>8. CASE /\ m < End /\ pc' = pc
           /\ req' = req /\ Lo' = Lo /\ End' = End /\ status' = status /\ Cur' = m
  <2>1. Committing' /\ Committed' = Committed
    BY <1>4, <1>8 DEF Committing, Committed
  <2>2. ASSUME NEW p \in Positions PROVE Mapping'[p] = Mapping[p]
    <3>1. Mapping'[p] = IF p \in m .. End - 1 THEN Committed ELSE Lookup(p)'
      BY <1>2, <1>8, <2>1 DEF Seen, SeenCells
    <3>2. p \in Nat
      BY CellPlace
    <3> QED BY <1>6, <1>7, <3>1, <3>2
  <2>3. Mapping' = Mapping
    BY <2>2, SameMapping
  <2>4. MapPhase' = MapPhase /\ MapRequest' = MapRequest /\ MapStatus' = MapStatus
    BY <1>4, <1>8, <2>1 DEF MapPhase, MapRequest, MapStatus, Position, Relative
  <2> QED BY <1>5, <2>3, <2>4 DEF Map!vars
<1>9. CASE m = End /\ Return("OK")
  <2>1. pc' = "idle" /\ status' = "OK" /\ ~Committing'
    BY <1>9 DEF Return, Committing
  <2>2. ASSUME NEW p \in Positions PROVE Mapping'[p] = Mapping[p]
    <3>1. Mapping'[p] = Lookup(p)'
      BY <1>2, <2>1 DEF Seen, SeenCells
    <3> QED BY <1>7, <1>9, <3>1
  <2>3. Mapping' = Mapping
    BY <2>2, SameMapping
  <2>4. /\ MapPhase = "applied" /\ MapPhase' = "idle" /\ MapRequest' = Map!NoRequest
        /\ MapStatus' = MapStatus
    BY <1>1, <1>4, <2>1 DEF MapPhase, MapRequest, MapStatus, Map!NoRequest
  <2> QED BY <1>5, <2>3, <2>4 DEF Map!Finish
<1> QED BY <1>1, <1>2, <1>8, <1>9, CommitMoves

\* In the overlay a lookup reads the copied table of a DENSE region, and the
\* descriptor of any other.
LEMMA OverlayLookup ==
    ASSUME Directory = "BOUNDED", mode' = "OVERLAY", NEW p \in Positions
    PROVE  Lookup(p)' = IF region'[p \div G].type = "DENSE"
                        THEN overlay_entries'[p]
                        ELSE memx_region_lookup(region'[p \div G], p % G)
<1>1. /\ Covered(Addr(p)) /\ Position(Addr(p)) = p /\ RegionIndex(Addr(p)) = p \div G
      /\ GranuleIndex(Addr(p)) = p % G
  BY CellPlace, CellAddress
<1> QED BY <1>1 DEF Lookup, memx_lookup_address, HasRegion, memx_region_lookup

\* The two conversions change no lookup.
LEMMA OptimizeSteps ==
    ASSUME IndexInv, memx_index_optimize \/ memx_index_optimize_overlay
    PROVE  Map!Optimize
<1>1. /\ mode = "ADAPTIVE" /\ life = "live" /\ life' = "live" /\ pc = "idle" /\ pc' = "idle"
      /\ status' = "OK"
  BY ConvertStatus DEF memx_index_optimize, memx_index_optimize_overlay, Idle, call
<1>2. IndexInv'
  BY OptimizeInv, OptimizeOverlayInv
<1>3. Seen /\ Seen' /\ ~Committing /\ ~Committing'
  BY <1>1, <1>2, InvSeen, InvSeenNext DEF Committing
<1>4. ASSUME NEW p \in Positions
      PROVE  Mapping[p] = Cell(p) /\ Mapping'[p] = Lookup(p)'
  BY <1>1, <1>3 DEF Seen, SeenCells, CellsLookup
<1>5. ASSUME NEW p \in Positions PROVE Lookup(p)' = Cell(p)
  <2>1. CASE memx_index_optimize
    <3>1. mode' = "FLAT" /\ flat_entries'[p] = Cell(p)
      BY <2>1, OptimizeInv DEF memx_index_optimize
    <3> QED BY <3>1, FlatLookup
  <2>2. CASE memx_index_optimize_overlay
    <3>1. /\ mode' = "OVERLAY" /\ Directory = "BOUNDED"
          /\ IF region[p \div G].type = "DENSE"
             THEN /\ region'[p \div G].type = "DENSE" /\ overlay_entries'[p] = Cell(p)
             ELSE region'[p \div G] = region[p \div G]
      BY <2>2, OptimizeOverlayInv
    <3> QED BY <3>1, OverlayLookup DEF Cell
  <2> QED BY <2>1, <2>2
<1>6. Mapping' = Mapping
  BY <1>4, <1>5, SameMapping
<1>7. /\ MapPhase = "idle" /\ MapPhase' = "idle" /\ MapRequest' = MapRequest
      /\ MapStatus' = "OK"
  BY <1>1, <1>3 DEF MapPhase, MapRequest, MapStatus
<1>8. (mode = "OVERLAY")' \in {mode = "OVERLAY", TRUE}
  BY <1>1 DEF memx_index_optimize, memx_index_optimize_overlay
<1> QED BY <1>1, <1>6, <1>7, <1>8 DEF Map!Optimize

\* A step that changes no variable of the index.
LEMMA StutterSteps ==
    ASSUME UNCHANGED vars
    PROVE  UNCHANGED Map!vars
<1>1. UNCHANGED <<directory, optimized, call>> /\ life' = life /\ status' = status
  BY DEF vars
<1>2. /\ Mapping' = Mapping /\ MapPhase' = MapPhase /\ MapRequest' = MapRequest
      /\ (mode = "OVERLAY")' = (mode = "OVERLAY") /\ Committing' = Committing
  BY <1>1, NothingSeen
<1>3. MapStatus' = MapStatus /\ (life = "live")' = (life = "live")
  BY <1>1, <1>2 DEF MapStatus
<1> QED BY <1>2, <1>3 DEF Map!vars

LEMMA StepMap == IndexInv /\ [Next]_vars => [Map!Next]_Map!vars
<1> SUFFICES ASSUME IndexInv, [Next]_vars PROVE Map!Next \/ UNCHANGED Map!vars
  OBVIOUS
<1>1. CASE CreateIndex \/ CreateDirectory
  BY <1>1, CreateSteps DEF Map!Next
<1>2. CASE memx_index_destroy
  BY <1>2, DestroySteps DEF Map!Next
<1>3. CASE Reject
  BY <1>3, RejectSteps DEF Map!Next
<1>4. ASSUME NEW base \in Words, NEW size \in Words, NEW h \in Slots,
             memx_insert(base, size, h)
      PROVE  Map!Next
  <2>1. /\ Idle /\ h \in Handles /\ memx_validate_range(base, size) = "OK"
        /\ \A a \in Targets(base, base + size) : memx_lookup_address(a) = Invalid
        /\ FlatWrite(base, size, h) \/ Begin("insert_prepare", base, size, h)
    BY <1>4, AcceptedCall DEF memx_insert
  <2> DEFINE op == "insert"
  <2>2. CASE FlatWrite(base, size, h)
    <3>1. Map!Mutate
      BY <2>1, <2>2, FlatWriteSteps, op \in {"insert", "remove"}
    <3> QED BY <3>1 DEF Map!Next
  <2>3. CASE Begin("insert_prepare", base, size, h)
    <3>1. Map!Begin
      BY <2>1, <2>3, BeginSteps, op \in {"insert", "remove"}
    <3> QED BY <3>1 DEF Map!Next
  <2> QED BY <2>1, <2>2, <2>3
<1>5. ASSUME NEW base \in Words, NEW size \in Words, NEW h \in Slots,
             memx_remove(base, size, h)
      PROVE  Map!Next
  <2>1. /\ Idle /\ h \in Handles /\ memx_validate_range(base, size) = "OK"
        /\ \A a \in Targets(base, base + size) : memx_lookup_address(a) = h
        /\ FlatWrite(base, size, Invalid) \/ Begin("remove_prepare", base, size, h)
    BY <1>5, AcceptedCall DEF memx_remove
  <2> DEFINE op == "remove"
  <2>2. CASE FlatWrite(base, size, Invalid)
    <3>1. Map!Mutate
      BY <2>1, <2>2, FlatWriteSteps, op \in {"insert", "remove"}
    <3> QED BY <3>1 DEF Map!Next
  <2>3. CASE Begin("remove_prepare", base, size, h)
    <3>1. Map!Begin
      BY <2>1, <2>3, BeginSteps, op \in {"insert", "remove"}
    <3> QED BY <3>1 DEF Map!Next
  <2> QED BY <2>1, <2>2, <2>3
<1>6. CASE InsertPrepare \/ RemovePrepare
  BY <1>6, PrepareSteps DEF Map!Next
<1>7. CASE InsertPrepareNoLeaf \/ InsertPrepareNoTable \/ RemovePrepareNoTable
  BY <1>7, PrepareFailsSteps DEF Map!Next
<1>8. CASE InsertWrite \/ RemoveClear
  BY <1>8, CommitSteps DEF Map!Next
<1>9. CASE \/ OptimizeReturn(memx_index_optimize_status)
           \/ OptimizeReturn(memx_index_optimize_overlay_status) \/ OptimizeNoMemory
  BY <1>9, OptimizeReturnSteps DEF Map!Next
<1>10. CASE memx_index_optimize \/ memx_index_optimize_overlay
  BY <1>10, OptimizeSteps DEF Map!Next
<1>11. CASE UNCHANGED vars
  BY <1>11, StutterSteps
<1> QED BY <1>1, <1>2, <1>3, <1>4, <1>5, <1>6, <1>7, <1>8, <1>9, <1>10, <1>11 DEF Next

\* The ownership index implements the abstract map, for every geometry and every
\* set of handles: a mutation is accepted for its whole range or refused, takes
\* effect in exactly that range at once, and changes no lookup when an
\* allocation fails; splitting, merging and pruning, and the conversions to the
\* flat table and to the overlay, are not seen by any lookup.
THEOREM IndexImplementsMap == Spec => ImplementsMap
BY InitMap, StepMap, IndexInvariant, PTL DEF Spec, ImplementsMap, Map!Spec

-----------------------------------------------------------------------------
(***************************************************************************)
(* The statistics.  First the pages a dense region touches: the loop of     *)
(* memx_index_optimize_overlay counts each of them once.                    *)
(***************************************************************************)
\* The first page of a number of handles, and the end of the last one.
LEMMA PageBounds ==
    ASSUME NEW b \in Nat
    PROVE  /\ PageDown(b) = (b \div PageHandles) * PageHandles
           /\ b > 0 => PageUp(b) = ((b - 1) \div PageHandles + 1) * PageHandles
           /\ PageUp(b) \in Nat /\ PageUp(b) >= b
<1>1. PageHandles \in Nat \ {0}
  BY HandleAssumption
<1>2. PICK P \in Nat \ {0} : P = PageHandles
  BY <1>1
<1>3. \A x \in Nat : PageDown(x) = (x \div P) * P
  <2> SUFFICES ASSUME NEW x \in Nat PROVE PageDown(x) = (x \div P) * P
    OBVIOUS
  <2>1. /\ x \div P \in Nat /\ x % P \in 0 .. P - 1
        /\ x = (x \div P) * P + (x % P)
    BY DivideWithRest
  <2>2. PICK q \in Nat, m \in 0 .. P - 1 : q = x \div P /\ m = x % P
    BY <2>1
  <2>3. q * P \in Nat /\ x = q * P + m /\ x - m = q * P
    BY <2>1, <2>2
  <2> QED BY <1>2, <2>2, <2>3 DEF PageDown
<1>4. PageUp(b) = ((b + P - 1) \div P) * P
  <2>1. b + P - 1 \in Nat
    OBVIOUS
  <2> QED BY <1>2, <1>3, <2>1 DEF PageUp
<1>5. PageUp(b) \in Nat /\ PageUp(b) >= b
  <2>1. b + P - 1 \in Nat
    OBVIOUS
  <2>2. PICK q \in Nat, m \in 0 .. P - 1 :
            q = (b + P - 1) \div P /\ b + P - 1 = q * P + m
    BY <2>1, DivideWithRest
  <2>3. q * P \in Nat
    OBVIOUS
  <2>4. q * P >= b
    BY <2>2, <2>3
  <2> QED BY <1>4, <2>2, <2>3, <2>4
<1>6. ASSUME b > 0 PROVE (b + P - 1) \div P = (b - 1) \div P + 1
  <2>1. b - 1 \in Nat
    BY <1>6
  <2>2. PICK q \in Nat, m \in 0 .. P - 1 :
            q = (b - 1) \div P /\ b - 1 = q * P + m
    BY <2>1, DivideWithRest
  <2>3. b + P - 1 = (q + 1) * P + m
    <3>1. (q + 1) * P = q * P + P /\ q * P \in Nat
      OBVIOUS
    <3> QED BY <2>2, <3>1
  <2>4. q + 1 \in Nat
    OBVIOUS
  <2>5. ((q + 1) * P + m) \div P = q + 1
    BY <2>4, DivideUnique
  <2> QED BY <2>2, <2>3, <2>5
<1> QED BY <1>2, <1>3, <1>4, <1>5, <1>6

\* The pages of a run of handles are those between its first and its last.
LEMMA PagesOfRun ==
    ASSUME NEW b \in Nat, NEW n \in Nat \ {0}, NEW x \in Nat
    PROVE  (\E g \in 0 .. n - 1 : (b + g) \div PageHandles = x)
              <=> b \div PageHandles <= x /\ x <= (b + n - 1) \div PageHandles
<1>1. PICK P \in Nat \ {0} : P = PageHandles
  BY HandleAssumption
<1>2. x * P \in Nat /\ (x + 1) * P = x * P + P
  OBVIOUS
<1>3. \A a \in Nat : /\ a \div P \in Nat
                     /\ a \div P = x <=> x * P <= a /\ a < x * P + P
                     /\ x <= a \div P <=> x * P <= a
                     /\ a \div P <= x <=> a < x * P + P
  <2> SUFFICES ASSUME NEW a \in Nat
               PROVE  /\ a \div P \in Nat
                      /\ a \div P = x <=> x * P <= a /\ a < x * P + P
                      /\ x <= a \div P <=> x * P <= a
                      /\ a \div P <= x <=> a < x * P + P
    OBVIOUS
  <2>1. a \div P \in Nat
    BY DivideWithRest
  <2>2. a \div P = x <=> x * P <= a /\ a < (x + 1) * P
    BY DivideWhere
  <2>3. a \div P < x <=> a < x * P
    BY DivideWhere
  <2>4. x + 1 \in Nat
    OBVIOUS
  <2>5. a \div P < x + 1 <=> a < (x + 1) * P
    BY <2>4, DivideWhere
  <2> QED BY <1>2, <2>1, <2>2, <2>3, <2>5
<1>4. PICK y \in Nat : y = x * P
  BY <1>2
<1>5. (\E g \in 0 .. n - 1 : y <= b + g /\ b + g < y + P)
        <=> b < y + P /\ y <= b + n - 1
  <2>1. ASSUME b < y + P, y <= b + n - 1
        PROVE  \E g \in 0 .. n - 1 : y <= b + g /\ b + g < y + P
    <3>1. CASE y <= b
      BY <2>1, <3>1, 0 \in 0 .. n - 1
    <3>2. CASE y > b
      BY <2>1, <3>2, y - b \in 0 .. n - 1
    <3> QED BY <3>1, <3>2
  <2> QED BY <2>1
<1>6. b \div P <= x <=> b < y + P
  BY <1>3, <1>4
<1>7. x <= (b + n - 1) \div P <=> y <= b + n - 1
  BY <1>3, <1>4, b + n - 1 \in Nat
<1>8. \A g \in 0 .. n - 1 : (b + g) \div P = x <=> y <= b + g /\ b + g < y + P
  BY <1>3, <1>4
<1> QED BY <1>1, <1>5, <1>6, <1>7, <1>8

\* The pages that the dense regions below n touch.
TouchedBelow(n) ==
    {x \in Nat : \E r \in DenseRegions, g \in Granules :
                    r < n /\ (r * G + g) \div PageHandles = x}

LEMMA TouchedNext ==
    ASSUME NEW n \in Regions, region \in [Regions -> Descriptors]
    PROVE  /\ region[n].type # "DENSE" => TouchedBelow(n + 1) = TouchedBelow(n)
           /\ region[n].type = "DENSE" =>
                TouchedBelow(n + 1) = TouchedBelow(n) \cup
                    (((n * G) \div PageHandles) .. ((n * G + G - 1) \div PageHandles))
<1>1. n \in Nat /\ \A r \in DenseRegions : r \in Nat
  BY Geometry DEF Regions, DenseRegions
<1>2. \A r \in DenseRegions : r < n + 1 <=> r < n \/ r = n
  BY <1>1
<1>3. ASSUME region[n].type # "DENSE" PROVE TouchedBelow(n + 1) = TouchedBelow(n)
  <2>1. n \notin DenseRegions
    BY <1>3 DEF DenseRegions
  <2> QED BY <1>2, <2>1 DEF TouchedBelow
<1>4. ASSUME region[n].type = "DENSE"
      PROVE  TouchedBelow(n + 1) = TouchedBelow(n) \cup
                (((n * G) \div PageHandles) .. ((n * G + G - 1) \div PageHandles))
  <2>1. n \in DenseRegions
    BY <1>4 DEF DenseRegions
  <2>2. n * G \in Nat /\ G \in Nat \ {0} /\ n * G + G - 1 \in Nat
    BY <1>1, Geometry
  <2>3. PICK s \in Nat, t \in Nat : s = (n * G) \div PageHandles
                                    /\ t = (n * G + G - 1) \div PageHandles
    BY <2>2, HandleAssumption, DivideWithRest
  <2>4. \A x \in Nat : (\E g \in 0 .. G - 1 : (n * G + g) \div PageHandles = x)
                            <=> s <= x /\ x <= t
    BY <2>2, <2>3, PagesOfRun
  <2>5. \A x \in Nat : (\E g \in Granules : (n * G + g) \div PageHandles = x)
                            <=> x \in s .. t
    BY <2>3, <2>4 DEF Granules, G
  <2>6. \A x : x \in s .. t => x \in Nat
    BY <2>3
  <2>7. \A x : x \in TouchedBelow(n + 1) <=> x \in TouchedBelow(n) \/ x \in s .. t
    BY <1>2, <2>1, <2>5, <2>6 DEF TouchedBelow
  <2> QED BY <2>3, <2>7
<1> QED BY <1>3, <1>4

\* The recursion that stands for the loop over the regions is defined.
PageStep(f, k) ==
    IF k = 0 THEN [private |-> 0, previous |-> 0]
    ELSE IF region[k - 1].type = "DENSE" THEN AddPages(f[k - 1], k - 1)
         ELSE f[k - 1]

LEMMA PagesDefined ==
    \A k \in 0 .. RegionCount : PrivatePages[k] = PageStep(PrivatePages, k)
<1> DEFINE Steps(f, n) == /\ DOMAIN f = 0 .. RegionCount
                          /\ f = [k \in DOMAIN f |-> f[k]]
                          /\ \A k \in 0 .. n : f[k] = PageStep(f, k)
<1>1. RegionCount \in Nat
  BY Geometry
<1>2. PICK S : S = {n \in Nat : n <= RegionCount => \E f : Steps(f, n)}
  OBVIOUS
<1>3. 0 \in S
  <2>1. PICK f : f = [k \in 0 .. RegionCount |-> [private |-> 0, previous |-> 0]]
    OBVIOUS
  <2>2. f[0] = PageStep(f, 0)
    BY <1>1, <2>1 DEF PageStep
  <2>3. Steps(f, 0)
    BY <1>1, <2>1, <2>2
  <2> QED BY <1>2, <2>3
<1>4. ASSUME NEW n \in Nat, n \in S PROVE n + 1 \in S
  <2> SUFFICES ASSUME n + 1 <= RegionCount PROVE \E f : Steps(f, n + 1)
    BY <1>2
  <2>1. PICK f : Steps(f, n)
    BY <1>1, <1>2, <1>4
  <2>2. PICK h : h = [k \in 0 .. RegionCount |-> IF k = n + 1 THEN PageStep(f, n + 1) ELSE f[k]]
    OBVIOUS
  <2>3. DOMAIN h = 0 .. RegionCount /\ h = [k \in DOMAIN h |-> h[k]]
    BY <2>2
  <2>4. \A k \in 0 .. n : k \in 0 .. RegionCount /\ h[k] = f[k]
    BY <1>1, <2>2
  <2>5. h[n + 1] = PageStep(h, n + 1)
    <3>1. h[n + 1] = PageStep(f, n + 1)
      BY <1>1, <2>2
    <3>2. h[n] = f[n] /\ (n + 1) - 1 = n /\ n + 1 # 0
      BY <2>4
    <3> QED BY <3>1, <3>2 DEF PageStep
  <2>6. \A k \in 0 .. n : h[k] = PageStep(h, k)
    <3> SUFFICES ASSUME NEW k \in 0 .. n PROVE h[k] = PageStep(h, k)
      OBVIOUS
    <3>1. h[k] = PageStep(f, k)
      BY <2>1, <2>4
    <3>2. k # 0 => k - 1 \in 0 .. n
      OBVIOUS
    <3>3. k # 0 => h[k - 1] = f[k - 1]
      BY <2>4, <3>2
    <3> QED BY <3>1, <3>3 DEF PageStep
  <2>7. \A k \in 0 .. n + 1 : h[k] = PageStep(h, k)
    BY <2>5, <2>6
  <2> QED BY <2>3, <2>7
<1>5. PICK f : Steps(f, RegionCount)
  <2>1. Nat \subseteq S
    BY <1>3, <1>4, Induction
  <2>2. RegionCount \in S
    BY <1>1, <2>1
  <2> QED BY <1>1, <1>2, <2>2
<1>6. f = [k \in 0 .. RegionCount |-> PageStep(f, k)]
  BY <1>5
<1>7. PrivatePages = [k \in 0 .. RegionCount |-> PageStep(PrivatePages, k)]
  BY <1>6 DEF PrivatePages, PageStep
<1> QED BY <1>7

\* After the regions below n the loop has counted each page they touch once;
\* previous is the end of the last of them, and no page between the start of
\* region n and that end is left out.
PagesCounted(n) ==
    LET acc == PrivatePages[n]
    IN  /\ IsFiniteSet(TouchedBelow(n))
        /\ acc.private = PageHandles * Cardinality(TouchedBelow(n))
        /\ \E e \in Nat :
              /\ acc.previous = e * PageHandles
              /\ \A x \in TouchedBelow(n) : x < e
              /\ \A x \in Nat : (n * G) \div PageHandles <= x /\ x < e
                                    => x \in TouchedBelow(n)

LEMMA CountRegionPages ==
    ASSUME NEW n \in Regions, region \in [Regions -> Descriptors], PagesCounted(n)
    PROVE  PagesCounted(n + 1)
<1>1. PICK P \in Nat \ {0} : P = PageHandles
  BY HandleAssumption
<1>2. n \in Nat /\ n + 1 <= RegionCount /\ n + 1 \in 0 .. RegionCount /\ n \in 0 .. RegionCount
  BY Geometry DEF Regions
<1>3. PICK b \in Nat : b = n * G /\ b + G = (n + 1) * G
  BY <1>2, Geometry
<1>4. PICK s \in Nat, t \in Nat : s = b \div P /\ t = (b + G - 1) \div P
  <2>1. b + G - 1 \in Nat
    BY Geometry
  <2> QED BY <2>1, DivideWithRest
<1>5. PICK u \in Nat : u = ((n + 1) * G) \div P /\ s <= u
  <2>1. b + G \in Nat
    BY Geometry
  <2>2. (b + G) \div P \in Nat /\ s * P <= b /\ s * P \in Nat
    BY <1>4, <2>1, DivideWithRest
  <2>3. ~((b + G) \div P < s)
    <3>1. (b + G) \div P < s <=> b + G < s * P
      BY <2>1, DivideWhere
    <3>2. ~(b + G < s * P)
      BY <2>2, Geometry
    <3> QED BY <3>1, <3>2
  <2> QED BY <1>3, <2>2, <2>3
<1>6. s <= t
  <2>1. b + G - 1 \in Nat /\ b + G - 1 >= b
    BY Geometry
  <2>2. s * P <= b /\ s * P \in Nat
    BY <1>4, DivideWithRest
  <2>3. t < s <=> b + G - 1 < s * P
    BY <1>4, <2>1, DivideWhere
  <2> QED BY <2>1, <2>2, <2>3
<1>7. /\ PageDown(n * G) = s * P
      /\ PageUp((n + 1) * G) = (t + 1) * P
  <2>1. b + G \in Nat /\ b + G > 0 /\ (b + G) - 1 = b + G - 1
    BY Geometry
  <2>2. PageDown(b) = s * P
    BY <1>1, <1>4, PageBounds
  <2>3. PageUp(b + G) = (t + 1) * P
    BY <1>1, <1>4, <2>1, PageBounds
  <2> QED BY <1>3, <2>2, <2>3
<1>8. PICK acc, next : acc = PrivatePages[n] /\ next = PrivatePages[n + 1]
  OBVIOUS
<1>9. PICK A, B : A = TouchedBelow(n) /\ B = TouchedBelow(n + 1)
  OBVIOUS
<1>10. IsFiniteSet(A) /\ Cardinality(A) \in Nat /\ acc.private = P * Cardinality(A)
  BY <1>1, <1>8, <1>9, FS_CardinalityType DEF PagesCounted
<1>11. PICK e \in Nat : /\ acc.previous = e * P
                        /\ \A x \in A : x < e
                        /\ \A x \in Nat : s <= x /\ x < e => x \in A
  BY <1>1, <1>3, <1>4, <1>8, <1>9 DEF PagesCounted
<1>12. next = IF region[n].type = "DENSE" THEN AddPages(acc, n) ELSE acc
  <2>1. next = PageStep(PrivatePages, n + 1)
    BY <1>2, <1>8, PagesDefined
  <2>2. (n + 1) - 1 = n /\ n + 1 # 0
    BY <1>2
  <2> QED BY <1>8, <2>1, <2>2 DEF PageStep
<1>13. SUFFICES /\ IsFiniteSet(B)
                /\ next.private = P * Cardinality(B)
                /\ \E d \in Nat : /\ next.previous = d * P
                                  /\ \A x \in B : x < d
                                  /\ \A x \in Nat : u <= x /\ x < d => x \in B
  BY <1>1, <1>5, <1>8, <1>9 DEF PagesCounted
<1>14. CASE region[n].type # "DENSE"
  <2>1. B = A /\ next = acc
    BY <1>9, <1>12, <1>14, TouchedNext
  <2>2. \A x \in Nat : u <= x /\ x < e => x \in A
    BY <1>5, <1>11
  <2> QED BY <1>10, <1>11, <2>1, <2>2
<1>15. CASE region[n].type = "DENSE"
  <2>1. B = A \cup (s .. t)
    BY <1>1, <1>3, <1>4, <1>9, <1>15, TouchedNext
  <2>2. PICK c \in Nat : c = IF s < e THEN e ELSE s
    OBVIOUS
  <2>3. /\ e < t + 1 <=> e * P < (t + 1) * P
        /\ s < e <=> s * P < e * P
    BY TimesStrict, t + 1 \in Int
  <2>4. (t + 1) * P \in Nat /\ e * P \in Nat /\ s * P \in Nat
    OBVIOUS
  <2>5. next = IF (t + 1) * P > e * P
               THEN [private |-> acc.private + ((t + 1) * P - c * P),
                     previous |-> (t + 1) * P]
               ELSE acc
    <3>1. next = AddPages(acc, n)
      BY <1>12, <1>15
    <3>2. c * P = IF s * P < acc.previous THEN acc.previous ELSE s * P
      BY <1>11, <2>2, <2>3
    <3> QED BY <1>7, <1>11, <3>1, <3>2 DEF AddPages, G
  <2>6. CASE e < t + 1
    <3>1. next.private = acc.private + ((t + 1) * P - c * P)
          /\ next.previous = (t + 1) * P
      BY <2>3, <2>4, <2>5, <2>6
    <3>2. B = A \cup (c .. t) /\ A \cap (c .. t) = {}
      BY <1>11, <2>1, <2>2, <2>6
    <3>3. c <= t
      BY <1>6, <2>2, <2>6
    <3>4. IsFiniteSet(c .. t) /\ Cardinality(c .. t) = t - c + 1
      <4>1. c \in Int /\ t \in Int /\ ~(c > t)
        BY <2>2, <3>3
      <4>2. IsFiniteSet(c .. t)
            /\ Cardinality(c .. t) = IF c > t THEN 0 ELSE t - c + 1
        BY <4>1, FS_Interval
      <4> QED BY <4>1, <4>2
    <3>5. IsFiniteSet(B) /\ Cardinality(B) = Cardinality(A) + (t - c + 1)
      <4>1. IsFiniteSet(A \cup (c .. t))
            /\ Cardinality(A \cup (c .. t))
                 = Cardinality(A) + Cardinality(c .. t) - Cardinality(A \cap (c .. t))
        BY <1>10, <3>4, FS_Union
      <4>2. Cardinality(A \cap (c .. t)) = 0
        BY <3>2, FS_EmptySet
      <4>3. t - c + 1 \in Int
        OBVIOUS
      <4> QED BY <1>10, <3>2, <3>4, <4>1, <4>2, <4>3
    <3>6. next.private = P * Cardinality(B)
      <4>1. PICK k \in Nat : k = Cardinality(A)
        BY <1>10
      <4>2. P * (k + (t - c + 1)) = P * k + ((t + 1) * P - c * P)
        OBVIOUS
      <4> QED BY <1>10, <3>1, <3>5, <4>1, <4>2
    <3>7. \A x \in B : x < t + 1
      <4>1. \A x \in A : x \in Nat
        BY <1>9 DEF TouchedBelow
      <4> QED BY <1>11, <2>1, <2>6, <4>1
    <3>8. \A x \in Nat : u <= x /\ x < t + 1 => x \in B
      BY <1>5, <2>1
    <3>9. t + 1 \in Nat
      OBVIOUS
    <3> QED BY <3>1, <3>5, <3>6, <3>7, <3>8, <3>9
  <2>7. CASE ~(e < t + 1)
    <3>1. next = acc
      BY <2>3, <2>4, <2>5, <2>7
    <3>2. B = A
      BY <1>11, <2>1, <2>7
    <3>3. \A x \in Nat : u <= x /\ x < e => x \in A
      BY <1>5, <1>11
    <3> QED BY <1>10, <1>11, <3>1, <3>2, <3>3
  <2> QED BY <2>6, <2>7
<1> QED BY <1>14, <1>15

LEMMA PagesExact ==
    ASSUME region \in [Regions -> Descriptors]
    PROVE  /\ IsFiniteSet(TouchedBelow(RegionCount))
           /\ PrivatePages[RegionCount].private
                = PageHandles * Cardinality(TouchedBelow(RegionCount))
<1>1. RegionCount \in Nat
  BY Geometry
<1>2. PICK S : S = {n \in Nat : n <= RegionCount => PagesCounted(n)}
  OBVIOUS
<1>3. 0 \in S
  <2>1. TouchedBelow(0) = {}
    <3>1. \A r \in DenseRegions : ~(r < 0)
      BY Geometry DEF DenseRegions, Regions
    <3> QED BY <3>1 DEF TouchedBelow
  <2>2. PrivatePages[0] = [private |-> 0, previous |-> 0]
    BY <1>1, PagesDefined DEF PageStep
  <2>3. PageHandles * 0 = 0 /\ 0 * PageHandles = 0
    BY HandleAssumption
  <2>4. \A x \in Nat : ~(x < 0)
    OBVIOUS
  <2>5. PagesCounted(0)
    <3>1. IsFiniteSet(TouchedBelow(0)) /\ Cardinality(TouchedBelow(0)) = 0
      BY <2>1, FS_EmptySet
    <3>2. PrivatePages[0].private = 0 /\ PrivatePages[0].previous = 0
      BY <2>2
    <3>3. /\ PrivatePages[0].previous = 0 * PageHandles
          /\ \A x \in TouchedBelow(0) : x < 0
          /\ \A x \in Nat : (0 * G) \div PageHandles <= x /\ x < 0 => x \in TouchedBelow(0)
      BY <2>1, <2>3, <2>4, <3>2
    <3> QED BY <2>3, <3>1, <3>2, <3>3, 0 \in Nat DEF PagesCounted
  <2> QED BY <1>2, <2>5
<1>4. ASSUME NEW n \in Nat, n \in S PROVE n + 1 \in S
  <2> SUFFICES ASSUME n + 1 <= RegionCount PROVE PagesCounted(n + 1)
    BY <1>2
  <2>1. n \in Regions /\ PagesCounted(n)
    BY <1>1, <1>2, <1>4 DEF Regions
  <2> QED BY <2>1, CountRegionPages
<1>5. Nat \subseteq S
  BY <1>3, <1>4, Induction
<1>6. PagesCounted(RegionCount)
  BY <1>1, <1>2, <1>5
<1> QED BY <1>6 DEF PagesCounted

-----------------------------------------------------------------------------
(***************************************************************************)
(* What the counters and the metadata obtained are at every step: besides   *)
(* CountInv, the number of sparse leaves, the words of the blocks that each *)
(* form of the index consists of, and the private pages of the overlay.     *)
(***************************************************************************)
LeafInv == allocated_sparse_leaves = Cardinality(AllocatedLeaves)

BlockInv ==
    /\ life = "none" => live = 0
    /\ life = "creating" => live = IndexWords
    /\ life = "live" /\ mode = "FLAT" => live = FlatWords + IndexWords
    /\ life = "live" /\ mode = "OVERLAY" =>
            live = ReservedWords + DirectoryWords + IndexWords
    /\ life = "live" /\ mode = "ADAPTIVE" =>
            live = dense_regions * TableWords + allocated_sparse_leaves * LeafWords
                        + DirectoryWords + IndexWords

PrivateInv ==
    overlay_private = IF mode = "OVERLAY"
                      THEN PageHandles * Cardinality(TouchedBelow(RegionCount)) ELSE 0

StatsInv == LeafInv /\ BlockInv /\ PrivateInv

LEMMA FiniteParts ==
    /\ IsFiniteSet(Regions) /\ Cardinality(Regions) = RegionCount
    /\ IsFiniteSet(Roots) /\ IsFiniteSet(AllocatedLeaves)
    /\ Cardinality(Roots) \in Nat /\ Cardinality(AllocatedLeaves) \in Nat
<1>1. IsFiniteSet(Regions) /\ Cardinality(Regions) = RegionCount
  <2>1. RegionCount \in Nat \ {0} /\ RegionCount - 1 \in Int /\ 0 \in Int /\ ~(0 > RegionCount - 1)
    BY Geometry
  <2>2. IsFiniteSet(0 .. RegionCount - 1)
        /\ Cardinality(0 .. RegionCount - 1)
             = IF 0 > RegionCount - 1 THEN 0 ELSE RegionCount - 1 - 0 + 1
    BY <2>1, FS_Interval
  <2> QED BY <2>1, <2>2 DEF Regions
<1>2. IsFiniteSet(Roots)
  <2>1. CASE Directory = "SPARSE"
    <3>1. RegionCount \div LeafRegions \in Nat
      BY Geometry, DivideWithRest, ConfigAssumption DEF UsableConfig
    <3>2. RegionCount \div LeafRegions - 1 \in Int /\ 0 \in Int
      BY <3>1
    <3> QED BY <2>1, <3>2, FS_Interval DEF Roots
  <2>2. CASE Directory # "SPARSE"
    BY <2>2, FS_EmptySet DEF Roots
  <2> QED BY <2>1, <2>2
<1>3. IsFiniteSet(AllocatedLeaves)
  <2>1. AllocatedLeaves \in SUBSET Roots
    BY DEF AllocatedLeaves
  <2> QED BY <1>2, <2>1, FS_Subset
<1> QED BY <1>1, <1>2, <1>3, FS_CardinalityType

LEMMA BlockSizes ==
    /\ DirectoryWords \in Nat /\ LeafWords \in Nat /\ TableWords \in Nat
    /\ FlatWords \in Nat /\ FlatWords = RegionCount * TableWords
    /\ ReservedWords \in Nat /\ IndexWords \in Nat
<1>1. DirectoryWords \in Nat /\ LeafWords \in Nat /\ TableWords \in Nat /\ IndexWords \in Nat
  BY Geometry, FiniteParts, HandleAssumption, ConfigAssumption
     DEF DirectoryWords, LeafWords, TableWords, UsableConfig, G
<1>2. FlatWords \in Nat /\ FlatWords = RegionCount * TableWords
  BY Geometry DEF FlatWords, TableWords, G
<1>3. ReservedWords \in Nat
  <2>1. PageUp(FlatWords) \in Nat
    BY <1>2, PageBounds
  <2> QED BY <2>1, HandleAssumption DEF ReservedWords
<1> QED BY <1>1, <1>2, <1>3

LEMMA CountersNat ==
    ASSUME IndexInv, StatsInv
    PROVE  dense_regions \in Nat /\ uniform_regions \in Nat
           /\ allocated_sparse_leaves \in Nat /\ live \in Int
<1>1. allocated_sparse_leaves \in Nat
  BY FiniteParts DEF StatsInv, LeafInv
<1>2. \A kind : Count(region, kind) \in Nat
  <2> SUFFICES ASSUME NEW kind PROVE Count(region, kind) \in Nat
    OBVIOUS
  <2>1. {q \in Regions : region[q].type = kind} \in SUBSET Regions
    OBVIOUS
  <2>2. IsFiniteSet({q \in Regions : region[q].type = kind})
    BY <2>1, FiniteParts, FS_Subset
  <2> QED BY <2>2, FS_CardinalityType DEF Count
<1>3. dense_regions \in Nat /\ uniform_regions \in Nat
  BY <1>2 DEF IndexInv, CountInv
<1>4. live \in Int
  <2>1. dense_regions * TableWords \in Int /\ allocated_sparse_leaves * LeafWords \in Int
    BY <1>1, <1>3, BlockSizes
  <2>2. life \in {"none", "creating", "live"} /\ mode \in {"ADAPTIVE", "FLAT", "OVERLAY"}
    BY DEF IndexInv, IndexType
  <2> QED BY <2>1, <2>2, BlockSizes DEF StatsInv, BlockInv
<1> QED BY <1>1, <1>3, <1>4

\* A bounded directory has no leaves.
LEMMA BoundedNoLeaves ==
    ASSUME Directory = "BOUNDED"
    PROVE  AllocatedLeaves = {} /\ Cardinality(AllocatedLeaves) = 0
BY FS_EmptySet DEF AllocatedLeaves, Roots

\* memx_get_region_mut adds the leaf it reports as new.
LEMMA LeafAdded ==
    ASSUME leaf \in [Roots -> BOOLEAN], NEW r \in Regions, leaf' = LeavesWithLeaf(r)
    PROVE  /\ NewLeaves(r) \in Nat
           /\ Cardinality(AllocatedLeaves') = Cardinality(AllocatedLeaves) + NewLeaves(r)
<1>1. NewLeaves(r) \in Nat
  BY DEF NewLeaves
<1>2. Cardinality(AllocatedLeaves) \in Nat /\ IsFiniteSet(AllocatedLeaves)
  BY FiniteParts
<1>3. CASE Directory = "BOUNDED"
  <2>1. AllocatedLeaves' = {} /\ AllocatedLeaves = {}
    BY <1>3 DEF AllocatedLeaves, Roots
  <2>2. NewLeaves(r) = 0
    BY <1>3 DEF NewLeaves, HasRegion
  <2> QED BY <1>1, <1>2, <2>1, <2>2
<1>4. CASE Directory = "SPARSE"
  <2>1. PICK i \in Roots : i = RootIndex(r)
    BY <1>4, RootOfRegion
  <2>2. \A j \in Roots : leaf'[j] = (leaf[j] \/ j = i)
    BY <2>1 DEF LeavesWithLeaf
  <2>3. AllocatedLeaves' = AllocatedLeaves \cup {i}
    BY <2>2 DEF AllocatedLeaves
  <2>4. NewLeaves(r) = IF i \in AllocatedLeaves THEN 0 ELSE 1
    BY <1>4, <2>1 DEF NewLeaves, HasRegion, AllocatedLeaves
  <2>5. Cardinality(AllocatedLeaves \cup {i})
          = IF i \in AllocatedLeaves THEN Cardinality(AllocatedLeaves)
            ELSE Cardinality(AllocatedLeaves) + 1
    BY <1>2, FS_AddElement
  <2> QED BY <1>1, <1>2, <2>3, <2>4, <2>5
<1> QED BY <1>3, <1>4, ConfigAssumption DEF UsableConfig

\* Steps that obtain and give back nothing.
LEMMA QuietStats ==
    ASSUME StatsInv, UNCHANGED <<life, mode, overlay_private, directory, counters>>
    PROVE  StatsInv'
<1>1. UNCHANGED <<life, mode, overlay_private, region, leaf>>
      /\ UNCHANGED <<uniform_regions, dense_regions, allocated_sparse_leaves, live>>
  BY DEF directory, counters
<1>2. AllocatedLeaves' = AllocatedLeaves /\ DenseRegions' = DenseRegions
  BY <1>1 DEF AllocatedLeaves, DenseRegions
<1>3. TouchedBelow(RegionCount)' = TouchedBelow(RegionCount)
  BY <1>2 DEF TouchedBelow
<1>4. LeafInv'
  BY <1>1, <1>2 DEF StatsInv, LeafInv
<1>5. BlockInv'
  BY <1>1 DEF StatsInv, BlockInv
<1>6. PrivateInv'
  BY <1>1, <1>3 DEF StatsInv, PrivateInv
<1> QED BY <1>4, <1>5, <1>6 DEF StatsInv

\* Steps of the loops: d tables and l leaves more.
LEMMA LoopStats ==
    ASSUME IndexInv, StatsInv, life = "live", mode = "ADAPTIVE",
           UNCHANGED <<life, mode, overlay_private>>,
           NEW d \in Int, NEW l \in Int,
           dense_regions' = dense_regions + d,
           allocated_sparse_leaves' = allocated_sparse_leaves + l,
           live' = live + d * TableWords + l * LeafWords,
           Cardinality(AllocatedLeaves') = Cardinality(AllocatedLeaves) + l
    PROVE  StatsInv'
<1>1. LeafInv'
  BY DEF StatsInv, LeafInv
<1>2. PICK k \in Nat, m \in Nat : k = dense_regions /\ m = allocated_sparse_leaves
  BY CountersNat
<1>3. PICK T \in Nat, L \in Nat, D \in Nat :
        T = TableWords /\ L = LeafWords /\ D = DirectoryWords + IndexWords
  BY BlockSizes
<1>4. live = k * T + m * L + D
  <2>1. k * T + m * L \in Nat
    OBVIOUS
  <2> QED BY <1>2, <1>3, <2>1, BlockSizes DEF StatsInv, BlockInv
<1>5. live' = (k + d) * T + (m + l) * L + D
  BY <1>3, <1>4
<1>6. live' = dense_regions' * TableWords + allocated_sparse_leaves' * LeafWords
                + DirectoryWords + IndexWords
  <2>1. (k + d) * T + (m + l) * L \in Int
    OBVIOUS
  <2> QED BY <1>2, <1>3, <1>5, <2>1, BlockSizes
<1>7. BlockInv'
  BY <1>6 DEF BlockInv
<1>8. PrivateInv'
  BY DEF StatsInv, PrivateInv
<1> QED BY <1>1, <1>7, <1>8 DEF StatsInv

LEMMA InsertPrepareStats ==
    ASSUME IndexInv, StatsInv, InsertPrepare \/ InsertPrepareNoTable
    PROVE  StatsInv'
<1>1. pc = "insert_prepare"
  BY DEF InsertPrepare, InsertPrepareNoTable
<1>2. life = "live" /\ mode = "ADAPTIVE" /\ Here \in Regions
  BY <1>1, LoopFacts DEF LoopGeometry
<1>3. leaf \in [Roots -> BOOLEAN] /\ leaf' = LeavesWithLeaf(Here)
  BY DEF IndexInv, IndexType, InsertPrepare, InsertPrepareNoTable
<1>4. UNCHANGED <<life, mode, overlay_private>>
  BY DEF InsertPrepare, InsertPrepareNoTable, optimized
<1>5. PICK l \in Nat : l = NewLeaves(Here)
        /\ Cardinality(AllocatedLeaves') = Cardinality(AllocatedLeaves) + l
  BY <1>2, <1>3, LeafAdded
<1>6. allocated_sparse_leaves' = allocated_sparse_leaves + l
  BY <1>5 DEF InsertPrepare, InsertPrepareNoTable
<1>7. PICK d \in Int : /\ dense_regions' = dense_regions + d
                       /\ live' = live + d * TableWords + l * LeafWords
  <2>1. dense_regions \in Nat /\ live \in Int /\ TableWords \in Nat /\ LeafWords \in Nat
    BY CountersNat, BlockSizes
  <2>2. l * LeafWords \in Int
    BY <2>1
  <2>3. CASE InsertPrepare
    <3>1. PICK d \in {0, 1} : d = IF InsertNeedsTable(Here) THEN 1 ELSE 0
      OBVIOUS
    <3>2. dense_regions' = dense_regions + d
          /\ live' = live + l * LeafWords + d * TableWords
      BY <1>5, <2>3, <3>1 DEF InsertPrepare
    <3>3. d * TableWords \in Int /\ d \in Int
      BY <2>1, <3>1
    <3> QED BY <2>1, <2>2, <3>2, <3>3
  <2>4. CASE InsertPrepareNoTable
    <3>1. dense_regions' = dense_regions + 0 /\ live' = live + 0 * TableWords + l * LeafWords
      BY <1>5, <2>1, <2>2, <2>4 DEF InsertPrepareNoTable
    <3> QED BY <3>1, 0 \in Int
  <2> QED BY <2>3, <2>4
<1> QED BY <1>2, <1>4, <1>5, <1>6, <1>7, LoopStats

\* The counters that memx_region_reclassify returns.
LEMMA ReclassifyCounts ==
    ASSUME NEW t
    PROVE  memx_region_reclassify(t).tables \in Int
BY DEF memx_region_reclassify

LEMMA InsertWriteStats ==
    ASSUME IndexInv, StatsInv, InsertWrite
    PROVE  StatsInv'
<1>1. life = "live" /\ mode = "ADAPTIVE" /\ Here \in Regions
  BY LoopFacts DEF LoopGeometry, InsertWrite
<1>2. UNCHANGED <<life, mode, overlay_private, leaf>>
  BY DEF InsertWrite, optimized
<1>3. AllocatedLeaves' = AllocatedLeaves
  BY <1>2 DEF AllocatedLeaves
<1>4. dense_regions \in Nat /\ live \in Int /\ TableWords \in Nat /\ LeafWords \in Nat
      /\ allocated_sparse_leaves \in Nat /\ Cardinality(AllocatedLeaves) \in Nat
  BY CountersNat, BlockSizes, FiniteParts
<1>5. allocated_sparse_leaves' = allocated_sparse_leaves
  BY DEF InsertWrite, counters
<1>6. PICK d \in Int : dense_regions' = dense_regions + d /\ live' = live + d * TableWords
  <2>1. ASSUME NEW r, NEW t, NEW created \in {0, 1}, Publish(r, t, created)
        PROVE  \E d \in Int : dense_regions' = dense_regions + d
                              /\ live' = live + d * TableWords
    <3>1. PICK k \in Int : k = memx_region_reclassify(t).tables
      BY ReclassifyCounts
    <3>2. dense_regions' = dense_regions + created + k
          /\ live' = live + (created + k) * TableWords
      BY <2>1, <3>1 DEF Publish
    <3>3. created + k \in Int /\ dense_regions + created + k = dense_regions + (created + k)
      BY <1>4
    <3> QED BY <3>2, <3>3
  <2>2. CASE UNCHANGED <<dense_regions, live>>
    BY <1>4, <2>2, 0 \in Int
  <2>3. \/ UNCHANGED <<dense_regions, live>>
        \/ Publish(Here, Written(FreshTable(Invalid), req.handle), 1)
        \/ Publish(Here, Written(region[Here].entries, req.handle), 0)
    BY DEF InsertWrite, counters
  <2> QED BY <2>1, <2>2, <2>3
<1>7. allocated_sparse_leaves' = allocated_sparse_leaves + 0
      /\ Cardinality(AllocatedLeaves') = Cardinality(AllocatedLeaves) + 0
      /\ live' = live + d * TableWords + 0 * LeafWords
  <2>1. d * TableWords \in Int /\ 0 * LeafWords = 0
    BY <1>4
  <2> QED BY <1>3, <1>4, <1>5, <1>6, <2>1
<1> QED BY <1>1, <1>2, <1>6, <1>7, LoopStats, 0 \in Int

LEMMA RemovePrepareStats ==
    ASSUME IndexInv, StatsInv, RemovePrepare
    PROVE  StatsInv'
<1>1. life = "live" /\ mode = "ADAPTIVE"
  BY LoopFacts DEF LoopGeometry, RemovePrepare
<1>2. UNCHANGED <<life, mode, overlay_private, leaf>>
  BY DEF RemovePrepare, optimized
<1>3. AllocatedLeaves' = AllocatedLeaves
  BY <1>2 DEF AllocatedLeaves
<1>4. dense_regions \in Nat /\ live \in Int /\ TableWords \in Nat /\ LeafWords \in Nat
      /\ allocated_sparse_leaves \in Nat /\ Cardinality(AllocatedLeaves) \in Nat
  BY CountersNat, BlockSizes, FiniteParts
<1>5. allocated_sparse_leaves' = allocated_sparse_leaves
  BY DEF RemovePrepare, counters
<1>6. PICK d \in Int : dense_regions' = dense_regions + d /\ live' = live + d * TableWords
  <2>1. \/ UNCHANGED <<dense_regions, live>>
        \/ dense_regions' = dense_regions + 1 /\ live' = live + TableWords
    BY DEF RemovePrepare, counters
  <2> QED BY <1>4, <2>1, 0 \in Int, 1 \in Int
<1>7. allocated_sparse_leaves' = allocated_sparse_leaves + 0
      /\ Cardinality(AllocatedLeaves') = Cardinality(AllocatedLeaves) + 0
      /\ live' = live + d * TableWords + 0 * LeafWords
  <2>1. d * TableWords \in Int /\ 0 * LeafWords = 0
    BY <1>4
  <2> QED BY <1>3, <1>4, <1>5, <1>6, <2>1
<1> QED BY <1>1, <1>2, <1>6, <1>7, LoopStats, 0 \in Int

\* memx_sparse_prune_leaf takes one leaf, which was there, or none.
LEMMA LeafPruned ==
    ASSUME leaf \in [Roots -> BOOLEAN], NEW r \in Regions, memx_sparse_prune_leaf(r),
           allocated_sparse_leaves \in Nat
    PROVE  \E l \in Int :
              /\ allocated_sparse_leaves' = allocated_sparse_leaves + l
              /\ Cardinality(AllocatedLeaves') = Cardinality(AllocatedLeaves) + l
<1>1. Cardinality(AllocatedLeaves) \in Nat /\ IsFiniteSet(AllocatedLeaves)
  BY FiniteParts
<1>2. CASE UNCHANGED <<leaf, allocated_sparse_leaves>>
  <2>1. AllocatedLeaves' = AllocatedLeaves
    BY <1>2 DEF AllocatedLeaves
  <2> QED BY <1>1, <1>2, <2>1, 0 \in Int
<1>3. CASE /\ Directory = "SPARSE" /\ leaf[RootIndex(r)]
           /\ leaf' = [leaf EXCEPT ![RootIndex(r)] = FALSE]
           /\ allocated_sparse_leaves' = allocated_sparse_leaves - 1
  <2>1. PICK i \in Roots : i = RootIndex(r)
    BY <1>3, RootOfRegion
  <2>2. AllocatedLeaves' = AllocatedLeaves \ {i} /\ i \in AllocatedLeaves
    BY <1>3, <2>1 DEF AllocatedLeaves
  <2>3. Cardinality(AllocatedLeaves \ {i}) = Cardinality(AllocatedLeaves) - 1
    BY <1>1, <2>2, FS_RemoveElement
  <2> QED BY <1>1, <1>3, <2>2, <2>3, -1 \in Int
<1> QED BY <1>2, <1>3 DEF memx_sparse_prune_leaf

LEMMA RemoveClearStats ==
    ASSUME IndexInv, StatsInv, RemoveClear
    PROVE  StatsInv'
<1>1. life = "live" /\ mode = "ADAPTIVE" /\ Here \in Regions
  BY LoopFacts DEF LoopGeometry, RemoveClear
<1>2. UNCHANGED <<life, mode, overlay_private>>
  BY DEF RemoveClear, optimized
<1>3. dense_regions \in Nat /\ live \in Int /\ TableWords \in Nat /\ LeafWords \in Nat
      /\ allocated_sparse_leaves \in Nat
  BY CountersNat, BlockSizes
<1>4. CASE ~HasRegion(Here)
  <2>1. UNCHANGED <<directory, counters>>
    BY <1>4 DEF RemoveClear
  <2> QED BY <1>2, <2>1, QuietStats
<1>5. CASE HasRegion(Here)
  <2>1. PICK d : d = ClearRegion(Here).tables
    OBVIOUS
  <2>2. d \in Int
    BY <2>1, ReclassifyCounts DEF ClearRegion
  <2>3. /\ dense_regions' = dense_regions + d
        /\ live' = live + d * TableWords
                        + LeafWords * (allocated_sparse_leaves' - allocated_sparse_leaves)
        /\ memx_sparse_prune_leaf(Here)
    BY <1>5, <2>1 DEF RemoveClear
  <2>4. PICK l \in Int :
          /\ allocated_sparse_leaves' = allocated_sparse_leaves + l
          /\ Cardinality(AllocatedLeaves') = Cardinality(AllocatedLeaves) + l
    BY <1>1, <1>3, <2>3, LeafPruned DEF IndexInv, IndexType
  <2>5. live' = live + d * TableWords + l * LeafWords
    <3>1. allocated_sparse_leaves' - allocated_sparse_leaves = l
      BY <1>3, <2>4
    <3>2. LeafWords * l = l * LeafWords
      BY <1>3
    <3> QED BY <2>3, <3>1, <3>2
  <2> QED BY <1>1, <1>2, <2>2, <2>3, <2>4, <2>5, LoopStats
<1> QED BY <1>4, <1>5

LEMMA CreateStats ==
    ASSUME IndexInv, StatsInv, CreateIndex \/ CreateDirectory
    PROVE  StatsInv'
<1>1. life # "live" /\ life \in {"none", "creating"}
  BY DEF CreateIndex, CreateDirectory
<1>2. /\ mode = "ADAPTIVE" /\ region = AllEmpty /\ leaf = NoLeaves
  BY <1>1 DEF IndexInv, ModeInv
<1>3. /\ region' = region /\ leaf' = leaf /\ mode' = mode /\ overlay_private' = overlay_private
      /\ dense_regions' = dense_regions
      /\ allocated_sparse_leaves' = allocated_sparse_leaves
  BY <1>2 DEF CreateIndex, CreateDirectory, directory, optimized
<1>4. AllocatedLeaves' = AllocatedLeaves /\ AllocatedLeaves = {}
  BY <1>2, <1>3 DEF AllocatedLeaves, NoLeaves
<1>5. allocated_sparse_leaves = 0
  BY <1>4, FS_EmptySet DEF StatsInv, LeafInv
<1>6. dense_regions = 0
  <2>1. {q \in Regions : region[q].type = "DENSE"} = {}
    BY <1>2 DEF AllEmpty, Empty
  <2> QED BY <2>1, FS_EmptySet DEF IndexInv, CountInv, Count
<1>7. LeafInv'
  BY <1>3, <1>4 DEF StatsInv, LeafInv
<1>8. PrivateInv'
  BY <1>2, <1>3 DEF StatsInv, PrivateInv
<1>9. BlockInv'
  <2>1. 0 * TableWords = 0 /\ 0 * LeafWords = 0
    BY BlockSizes
  <2>2. CASE CreateIndex
    <3>1. live = 0
      BY <2>2 DEF StatsInv, BlockInv, CreateIndex
    <3>2. \/ life' = "creating" /\ live' = IndexWords
          \/ life' = "none" /\ live' = 0
      BY <2>2, <3>1, BlockSizes DEF CreateIndex
    <3> QED BY <3>2 DEF BlockInv
  <2>3. CASE CreateDirectory
    <3>1. live = IndexWords
      BY <2>3 DEF StatsInv, BlockInv, CreateDirectory
    <3>2. \/ life' = "live" /\ live' = IndexWords + DirectoryWords
          \/ life' = "none" /\ live' = 0
      BY <2>3, <3>1, BlockSizes DEF CreateDirectory
    <3>3. IndexWords + DirectoryWords
            = dense_regions' * TableWords + allocated_sparse_leaves' * LeafWords
                + DirectoryWords + IndexWords
      BY <1>3, <1>5, <1>6, <2>1, BlockSizes
    <3>4. mode' = "ADAPTIVE"
      BY <1>2, <1>3
    <3> QED BY <3>2, <3>3, <3>4 DEF BlockInv
  <2> QED BY <2>2, <2>3
<1> QED BY <1>7, <1>8, <1>9 DEF StatsInv

\* memx_index_destroy finds every block: a leaf that is not there has no tables.
LEMMA DestroyStats ==
    ASSUME IndexInv, StatsInv, memx_index_destroy
    PROVE  StatsInv'
<1>1. life = "live" /\ mode \in {"ADAPTIVE", "FLAT", "OVERLAY"}
  BY DEF memx_index_destroy, Idle, IndexInv, IndexType
<1>2. {r \in DenseRegions : HasRegion(r)} = {q \in Regions : region[q].type = "DENSE"}
  BY EmptyDescriptor DEF DenseRegions, IndexInv, DescriptorsSound
<1>3. Cardinality({r \in DenseRegions : HasRegion(r)}) = dense_regions
  BY <1>2 DEF IndexInv, CountInv, Count
<1>4. Cardinality(AllocatedLeaves) = allocated_sparse_leaves
  BY DEF StatsInv, LeafInv
<1>5. DestroyedBlocks = live
  <2>1. CASE mode = "FLAT"
    BY <1>1, <2>1 DEF DestroyedBlocks, StatsInv, BlockInv
  <2>2. CASE mode = "OVERLAY"
    BY <1>1, <2>2 DEF DestroyedBlocks, StatsInv, BlockInv
  <2>3. CASE mode = "ADAPTIVE"
    <3>1. DestroyedBlocks = dense_regions * TableWords
                + allocated_sparse_leaves * LeafWords + DirectoryWords + IndexWords
      BY <1>3, <1>4, <2>3 DEF DestroyedBlocks
    <3> QED BY <1>1, <2>3, <3>1 DEF StatsInv, BlockInv
  <2> QED BY <1>1, <2>1, <2>2, <2>3
<1>6. live' = 0 /\ life' = "none" /\ mode' = "ADAPTIVE" /\ overlay_private' = 0
      /\ allocated_sparse_leaves' = 0 /\ leaf' = NoLeaves
  BY <1>5, CountersNat DEF memx_index_destroy
<1>7. AllocatedLeaves' = {}
  BY <1>6 DEF AllocatedLeaves, NoLeaves
<1>8. LeafInv'
  BY <1>6, <1>7, FS_EmptySet DEF LeafInv
<1> QED BY <1>6, <1>8 DEF StatsInv, BlockInv, PrivateInv

\* memx_index_optimize trades the tables and the directory for one table.
LEMMA OptimizeStats ==
    ASSUME IndexInv, StatsInv, memx_index_optimize
    PROVE  StatsInv'
<1>1. mode = "ADAPTIVE" /\ Directory = "BOUNDED" /\ dense_regions = RegionCount
  BY ConvertStatus DEF memx_index_optimize
<1>2. life = "live" /\ life' = life /\ mode' = "FLAT" /\ leaf' = leaf
      /\ allocated_sparse_leaves' = allocated_sparse_leaves
      /\ overlay_private' = overlay_private
      /\ live' = live + FlatWords - RegionCount * TableWords - DirectoryWords
  BY DEF memx_index_optimize, Idle
<1>3. AllocatedLeaves' = AllocatedLeaves
  BY <1>2 DEF AllocatedLeaves
<1>4. LeafInv' /\ PrivateInv'
  BY <1>1, <1>2, <1>3 DEF StatsInv, LeafInv, PrivateInv
<1>5. allocated_sparse_leaves = 0 /\ 0 * LeafWords = 0
  BY <1>1, BoundedNoLeaves, BlockSizes DEF StatsInv, LeafInv
<1>6. live = RegionCount * TableWords + 0 + DirectoryWords + IndexWords
  BY <1>1, <1>2, <1>5 DEF StatsInv, BlockInv
<1>7. live' = FlatWords + IndexWords
  BY <1>2, <1>6, BlockSizes
<1>8. BlockInv'
  BY <1>2, <1>7 DEF BlockInv
<1> QED BY <1>4, <1>8 DEF StatsInv

\* memx_index_optimize_overlay trades the tables for the reserved mapping.
LEMMA OptimizeOverlayStats ==
    ASSUME IndexInv, StatsInv, memx_index_optimize_overlay
    PROVE  StatsInv'
<1>1. mode = "ADAPTIVE" /\ Directory = "BOUNDED"
  BY ConvertStatus DEF memx_index_optimize_overlay
<1>2. life = "live" /\ life' = life /\ mode' = "OVERLAY" /\ leaf' = leaf
      /\ allocated_sparse_leaves' = allocated_sparse_leaves
      /\ overlay_private' = PrivatePages[RegionCount].private
      /\ live' = live + ReservedWords - Cardinality(DenseRegions) * TableWords
      /\ region' = [r \in Regions |->
            IF region[r].type = "DENSE" THEN OverlayMarker ELSE region[r]]
  BY DEF memx_index_optimize_overlay, Idle
<1>3. AllocatedLeaves' = AllocatedLeaves
  BY <1>2 DEF AllocatedLeaves
<1>4. DenseRegions' = DenseRegions
  BY <1>2 DEF DenseRegions, OverlayMarker, Dense
<1>5. TouchedBelow(RegionCount)' = TouchedBelow(RegionCount)
  BY <1>4 DEF TouchedBelow
<1>6. PrivateInv'
  BY <1>2, <1>5, PagesExact DEF IndexInv, IndexType, PrivateInv
<1>7. LeafInv'
  BY <1>2, <1>3 DEF StatsInv, LeafInv
<1>8. Cardinality(DenseRegions) = dense_regions
  BY DEF DenseRegions, IndexInv, CountInv, Count
<1>9. allocated_sparse_leaves = 0 /\ 0 * LeafWords = 0
  BY <1>1, BoundedNoLeaves, BlockSizes DEF StatsInv, LeafInv
<1>10. live = dense_regions * TableWords + 0 + DirectoryWords + IndexWords
  BY <1>1, <1>2, <1>9 DEF StatsInv, BlockInv
<1>11. live' = ReservedWords + DirectoryWords + IndexWords
  <2>1. dense_regions * TableWords \in Int
    BY CountersNat, BlockSizes
  <2> QED BY <1>2, <1>8, <1>10, <2>1, BlockSizes
<1>12. BlockInv'
  BY <1>2, <1>11 DEF BlockInv
<1> QED BY <1>6, <1>7, <1>12 DEF StatsInv

LEMMA InitStats == Init => StatsInv
<1> SUFFICES ASSUME Init PROVE StatsInv
  OBVIOUS
<1>1. AllocatedLeaves = {}
  BY DEF Init, AllocatedLeaves, NoLeaves
<1>2. LeafInv
  BY <1>1, FS_EmptySet DEF Init, LeafInv
<1> QED BY <1>2 DEF Init, StatsInv, BlockInv, PrivateInv

LEMMA StepStats == IndexInv /\ StatsInv /\ [Next]_vars => StatsInv'
<1> SUFFICES ASSUME IndexInv, StatsInv, [Next]_vars PROVE StatsInv'
  OBVIOUS
<1>1. CASE CreateIndex \/ CreateDirectory
  BY <1>1, CreateStats
<1>2. CASE memx_index_destroy
  BY <1>2, DestroyStats
<1>3. CASE \/ Reject \/ InsertPrepareNoLeaf \/ RemovePrepareNoTable
           \/ OptimizeReturn(memx_index_optimize_status)
           \/ OptimizeReturn(memx_index_optimize_overlay_status) \/ OptimizeNoMemory
           \/ UNCHANGED vars
  <2>1. UNCHANGED <<life, mode, overlay_private, directory, counters>>
    BY <1>3 DEF Reject, InsertPrepareNoLeaf, RemovePrepareNoTable, OptimizeReturn,
                OptimizeNoMemory, vars, optimized
  <2> QED BY <2>1, QuietStats
<1>4. ASSUME NEW base \in Words, NEW size \in Words, NEW h \in Slots,
             memx_insert(base, size, h) \/ memx_remove(base, size, h)
      PROVE  StatsInv'
  <2>1. UNCHANGED <<life, mode, overlay_private, directory, counters>>
    BY <1>4 DEF memx_insert, memx_remove, FlatWrite, Begin, optimized
  <2> QED BY <2>1, QuietStats
<1>5. CASE InsertPrepare \/ InsertPrepareNoTable
  BY <1>5, InsertPrepareStats
<1>6. CASE InsertWrite
  BY <1>6, InsertWriteStats
<1>7. CASE RemovePrepare
  BY <1>7, RemovePrepareStats
<1>8. CASE RemoveClear
  BY <1>8, RemoveClearStats
<1>9. CASE memx_index_optimize
  BY <1>9, OptimizeStats
<1>10. CASE memx_index_optimize_overlay
  BY <1>10, OptimizeOverlayStats
<1> QED BY <1>1, <1>2, <1>3, <1>4, <1>5, <1>6, <1>7, <1>8, <1>9, <1>10 DEF Next

-----------------------------------------------------------------------------
(***************************************************************************)
(* The reported counts are what memx_region_type_at finds.                  *)
(***************************************************************************)
\* The regions whose descriptor is in the directory.
Present == {r \in Regions : HasRegion(r)}

\* Each allocated leaf holds LeafRegions descriptors, and no two share one.
LEMMA PresentInLeaves ==
    ASSUME Directory = "SPARSE", leaf \in [Roots -> BOOLEAN]
    PROVE  IsFiniteSet(Present)
           /\ Cardinality(Present) = Cardinality(AllocatedLeaves) * LeafRegions
<1>1. PICK L \in Nat \ {0} : L = LeafRegions
  BY ConfigAssumption DEF UsableConfig
<1>2. Present \in SUBSET Regions /\ IsFiniteSet(Present)
  <2>1. Present \in SUBSET Regions
    BY DEF Present
  <2> QED BY <2>1, FiniteParts, FS_Subset
<1>3. \A r \in Present : /\ r \in Nat /\ r \div L \in AllocatedLeaves /\ r % L \in 0 .. L - 1
                         /\ r = (r \div L) * L + (r % L)
  <2> SUFFICES ASSUME NEW r \in Present
               PROVE  /\ r \in Nat /\ r \div L \in AllocatedLeaves /\ r % L \in 0 .. L - 1
                      /\ r = (r \div L) * L + (r % L)
    OBVIOUS
  <2>1. r \in Regions /\ r \in Nat /\ leaf[RootIndex(r)]
    BY Geometry DEF Present, HasRegion, Regions
  <2>2. RootIndex(r) \in Roots /\ RootIndex(r) = r \div L
    BY <1>1, <2>1, RootOfRegion DEF RootIndex
  <2> QED BY <2>1, <2>2, DivideWithRest DEF AllocatedLeaves
<1>4. \A i \in AllocatedLeaves, j \in 0 .. L - 1 :
            /\ i * L + j \in Present
            /\ (i * L + j) \div L = i /\ (i * L + j) % L = j
  <2> SUFFICES ASSUME NEW i \in AllocatedLeaves, NEW j \in 0 .. L - 1
               PROVE  /\ i * L + j \in Present
                      /\ (i * L + j) \div L = i /\ (i * L + j) % L = j
    OBVIOUS
  <2>1. PICK k \in Nat : k = RegionCount \div L /\ k * L <= RegionCount
    <3>1. RegionCount \in Nat
      BY Geometry
    <3>2. /\ RegionCount \div L \in Nat /\ RegionCount % L \in 0 .. L - 1
          /\ RegionCount = (RegionCount \div L) * L + (RegionCount % L)
      BY <3>1, DivideWithRest
    <3>3. (RegionCount \div L) * L \in Nat
      BY <3>2
    <3> QED BY <3>1, <3>2, <3>3
  <2>2. i \in Nat /\ i + 1 <= k /\ leaf[i] /\ i \in Roots
    BY <1>1, <2>1 DEF AllocatedLeaves, Roots
  <2>3. i * L + j \in Nat /\ (i * L + j) \div L = i /\ (i * L + j) % L = j
    BY <2>2, DivideUnique
  <2>4. (i + 1) * L <= k * L /\ (i + 1) * L = i * L + L /\ i * L \in Nat /\ k * L \in Nat
    BY <2>2, TimesMonotone
  <2>5. i * L + j \in Regions
    BY <2>1, <2>3, <2>4, Geometry DEF Regions
  <2>6. HasRegion(i * L + j)
    BY <1>1, <2>2, <2>3 DEF HasRegion, RootIndex
  <2> QED BY <2>3, <2>5, <2>6 DEF Present
<1>5. PICK f : f = [r \in Present |-> <<r \div L, r % L>>]
  OBVIOUS
<1>6. f \in [Present -> AllocatedLeaves \X (0 .. L - 1)]
  BY <1>3, <1>5
<1>7. ASSUME NEW r \in Present, NEW q \in Present, f[r] = f[q] PROVE r = q
  <2>1. r \div L = q \div L /\ r % L = q % L
    BY <1>5, <1>7
  <2> QED BY <1>3, <2>1
<1>8. ASSUME NEW t \in AllocatedLeaves \X (0 .. L - 1) PROVE \E r \in Present : f[r] = t
  <2>1. PICK i \in AllocatedLeaves, j \in 0 .. L - 1 : t = <<i, j>>
    BY <1>8
  <2> QED BY <1>4, <1>5, <2>1
<1>9. f \in Injection(Present, AllocatedLeaves \X (0 .. L - 1))
  BY <1>6, <1>7 DEF Injection, IsInjective
<1>10. f \in Surjection(Present, AllocatedLeaves \X (0 .. L - 1))
  BY <1>6, <1>8 DEF Surjection
<1>11. ExistsBijection(Present, AllocatedLeaves \X (0 .. L - 1))
  BY <1>9, <1>10 DEF ExistsBijection, Bijection
<1>12. Cardinality(AllocatedLeaves \X (0 .. L - 1)) = Cardinality(Present)
  BY <1>2, <1>11, FS_Bijection
<1>13. IsFiniteSet(0 .. L - 1) /\ Cardinality(0 .. L - 1) = L
  <2>1. 0 \in Int /\ L - 1 \in Int /\ ~(0 > L - 1) /\ L - 1 - 0 + 1 = L
    OBVIOUS
  <2>2. IsFiniteSet(0 .. L - 1)
        /\ Cardinality(0 .. L - 1) = IF 0 > L - 1 THEN 0 ELSE L - 1 - 0 + 1
    BY <2>1, FS_Interval
  <2> QED BY <2>1, <2>2
<1>14. Cardinality(AllocatedLeaves \X (0 .. L - 1)) = Cardinality(AllocatedLeaves) * L
  BY <1>13, FiniteParts, FS_Product
<1> QED BY <1>1, <1>2, <1>12, <1>14

\* The regions of each kind that are present, by address as the caller asks.
Found(kind) == {r \in Regions :
    /\ mode = "FLAT" \/ HasRegion(r)
    /\ memx_region_type_at(BaseAddress + r * RegionSize) = kind}

LEMMA FoundByDescriptor ==
    ASSUME IndexInv, mode # "FLAT", NEW kind
    PROVE  /\ Found(kind) = {r \in Present : region[r].type = kind}
           /\ kind # "EMPTY" => Found(kind) = {r \in Regions : region[r].type = kind}
<1>1. \A r \in Regions : RegionIndex(BaseAddress + r * RegionSize) = r
  <2> SUFFICES ASSUME NEW r \in Regions
               PROVE  RegionIndex(BaseAddress + r * RegionSize) = r
    OBVIOUS
  <2>1. r \in Nat /\ RegionSize \in Nat \ {0} /\ BaseAddress \in Nat
    BY Geometry DEF Regions
  <2>2. r * RegionSize \in Nat /\ 0 \in 0 .. RegionSize - 1
    BY <2>1
  <2>3. (r * RegionSize + 0) \div RegionSize = r
    BY <2>1, <2>2, DivideUnique
  <2>4. (BaseAddress + r * RegionSize) - BaseAddress = r * RegionSize + 0
    BY <2>1, <2>2
  <2> QED BY <2>3, <2>4 DEF RegionIndex, Relative
<1>2. \A r \in Regions : HasRegion(r) =>
            memx_region_type_at(BaseAddress + r * RegionSize) = region[r].type
  BY <1>1 DEF memx_region_type_at
<1>3. Found(kind) = {r \in Present : region[r].type = kind}
  BY <1>2 DEF Found, Present
<1>4. kind # "EMPTY" => \A r \in Regions : region[r].type = kind => HasRegion(r)
  BY EmptyDescriptor DEF IndexInv, DescriptorsSound
<1> QED BY <1>3, <1>4 DEF Present

\* The three kinds make up the regions that are present.
LEMMA FoundAdds ==
    ASSUME IndexInv, mode # "FLAT"
    PROVE  /\ Cardinality(Found("EMPTY")) \in Nat
           /\ Cardinality(Found("DENSE")) = dense_regions
           /\ Cardinality(Found("UNIFORM")) = uniform_regions
           /\ Cardinality(Present) = Cardinality(Found("EMPTY"))
                                        + (uniform_regions + dense_regions)
           /\ uniform_regions + dense_regions \in Nat
<1>1. Found("DENSE") = {r \in Regions : region[r].type = "DENSE"}
      /\ Found("UNIFORM") = {r \in Regions : region[r].type = "UNIFORM"}
  BY FoundByDescriptor
<1>2. Cardinality(Found("DENSE")) = dense_regions
      /\ Cardinality(Found("UNIFORM")) = uniform_regions
  BY <1>1 DEF IndexInv, CountInv, Count
<1>3. PICK E, U, D : E = Found("EMPTY") /\ U = Found("UNIFORM") /\ D = Found("DENSE")
  OBVIOUS
<1>4. /\ E = {r \in Present : region[r].type = "EMPTY"}
      /\ U = {r \in Present : region[r].type = "UNIFORM"}
      /\ D = {r \in Present : region[r].type = "DENSE"}
  BY <1>3, FoundByDescriptor
<1>5. \A r \in Present : region[r].type \in {"EMPTY", "UNIFORM", "DENSE"}
  BY DescriptorKinds DEF Present, IndexInv, IndexType
<1>6. Present = E \cup (U \cup D) /\ U \cap D = {} /\ E \cap (U \cup D) = {}
  BY <1>4, <1>5
<1>7. IsFiniteSet(E) /\ IsFiniteSet(U) /\ IsFiniteSet(D)
  <2>1. E \in SUBSET Regions /\ U \in SUBSET Regions /\ D \in SUBSET Regions
    BY <1>4 DEF Present
  <2> QED BY <2>1, FiniteParts, FS_Subset
<1>8. Cardinality(E) \in Nat /\ Cardinality(U) \in Nat /\ Cardinality(D) \in Nat
  BY <1>7, FS_CardinalityType
<1>9. IsFiniteSet(U \cup D) /\ Cardinality(U \cup D) = Cardinality(U) + Cardinality(D)
  <2>1. IsFiniteSet(U \cup D)
        /\ Cardinality(U \cup D) = Cardinality(U) + Cardinality(D) - Cardinality(U \cap D)
    BY <1>7, FS_Union
  <2>2. Cardinality(U \cap D) = 0
    BY <1>6, FS_EmptySet
  <2> QED BY <1>8, <2>1, <2>2
<1>10. Cardinality(Present) = Cardinality(E) + (Cardinality(U) + Cardinality(D))
  <2>1. Cardinality(E \cup (U \cup D)) = Cardinality(E) + Cardinality(U \cup D)
                                            - Cardinality(E \cap (U \cup D))
    BY <1>7, <1>9, FS_Union
  <2>2. Cardinality(E \cap (U \cup D)) = 0
    BY <1>6, FS_EmptySet
  <2> QED BY <1>6, <1>8, <1>9, <2>1, <2>2
<1> QED BY <1>2, <1>3, <1>8, <1>10

LEMMA CountsAreTrue ==
    ASSUME IndexInv, StatsInv, life = "live"
    PROVE  /\ StatsEmpty = Cardinality(Found("EMPTY"))
           /\ StatsUniform = Cardinality(Found("UNIFORM"))
           /\ StatsDense = Cardinality(Found("DENSE"))
<1>1. CASE mode = "FLAT"
  <2>1. \A r \in Regions : memx_region_type_at(BaseAddress + r * RegionSize) = "DENSE"
    BY <1>1 DEF memx_region_type_at
  <2>2. Found("EMPTY") = {} /\ Found("UNIFORM") = {} /\ Found("DENSE") = Regions
    BY <1>1, <2>1 DEF Found
  <2> QED BY <1>1, <2>2, FS_EmptySet, FiniteParts DEF StatsEmpty, StatsUniform, StatsDense
<1>2. CASE mode # "FLAT"
  <2>1. PICK e \in Nat, u \in Nat :
            /\ e = Cardinality(Found("EMPTY")) /\ u = uniform_regions + dense_regions
            /\ Cardinality(Present) = e + u
    BY <1>2, FoundAdds
  <2>2. StatsUniform = Cardinality(Found("UNIFORM"))
        /\ StatsDense = Cardinality(Found("DENSE"))
    BY <1>2, FoundAdds DEF StatsUniform, StatsDense
  <2>3. CASE Directory = "BOUNDED"
    <3>1. Present = Regions
      BY <2>3 DEF Present, HasRegion
    <3>2. RegionCount = e + u
      BY <2>1, <3>1, FiniteParts
    <3>3. StatsEmpty = RegionCount - u
      BY <1>2, <2>1, <2>3 DEF StatsEmpty
    <3> QED BY <2>1, <2>2, <3>2, <3>3
  <2>4. CASE Directory = "SPARSE"
    <3>1. allocated_sparse_leaves * LeafRegions = e + u
      BY <2>1, <2>4, PresentInLeaves DEF IndexInv, IndexType, StatsInv, LeafInv
    <3>2. StatsEmpty = IF e + u > u THEN (e + u) - u ELSE 0
      BY <1>2, <2>1, <2>4, <3>1 DEF StatsEmpty
    <3> QED BY <2>1, <2>2, <3>2
  <2> QED BY <2>3, <2>4, ConfigAssumption DEF UsableConfig
<1> QED BY <1>1, <1>2

\* total_bytes is what has been obtained, the overlay apart.
LEMMA BytesAreTrue ==
    ASSUME IndexInv, StatsInv, life = "live"
    PROVE  /\ live = StatsTotal + (IF mode = "OVERLAY"
                                   THEN StatsReserved - StatsRepresentation ELSE 0)
           /\ StatsTotal <= StatsPages
<1>1. /\ mode \in {"ADAPTIVE", "FLAT", "OVERLAY"}
      /\ mode # "ADAPTIVE" => Directory = "BOUNDED"
  BY DEF IndexInv, IndexType, ModeInv
<1>2. PICK I \in Nat, D \in Nat, T \in Nat, L \in Nat, F \in Nat, R \in Nat :
        /\ I = IndexWords /\ D = DirectoryWords /\ T = TableWords /\ L = LeafWords
        /\ F = FlatWords /\ R = ReservedWords
  BY BlockSizes
<1>3. PICK k \in Nat, m \in Nat : k = dense_regions /\ m = allocated_sparse_leaves
  BY CountersNat
<1>4. PICK UI \in Nat, UD \in Nat, UT \in Nat, UL \in Nat, UF \in Nat :
        /\ UI = PageUp(I) /\ UD = PageUp(D) /\ UT = PageUp(T) /\ UL = PageUp(L)
        /\ UF = PageUp(F)
        /\ I <= UI /\ D <= UD /\ T <= UT /\ L <= UL /\ F <= UF
  <2>1. \A b \in Nat : PageUp(b) \in Nat /\ PageUp(b) >= b
    BY PageBounds
  <2> QED BY <2>1
<1>5. CASE mode = "FLAT"
  <2>1. StatsTotal = I + F + 0 /\ StatsPages = UI + UF
    BY <1>2, <1>4, <1>5 DEF StatsTotal, StatsDirectory, StatsRepresentation, StatsPages
  <2>2. live = F + I
    BY <1>2, <1>5 DEF StatsInv, BlockInv
  <2> QED BY <1>4, <1>5, <2>1, <2>2
<1>6. CASE mode = "OVERLAY"
  <2>1. m = 0 /\ m * L = 0
    BY <1>1, <1>3, <1>6, BoundedNoLeaves DEF StatsInv, LeafInv
  <2>2. PICK p \in Nat : p = overlay_private
    <3>1. IsFiniteSet(TouchedBelow(RegionCount))
      BY PagesExact DEF IndexInv, IndexType
    <3>2. Cardinality(TouchedBelow(RegionCount)) \in Nat
      BY <3>1, FS_CardinalityType
    <3> QED BY <1>6, <3>2, HandleAssumption DEF StatsInv, PrivateInv
  <2>3. StatsTotal = I + (D + 0) + p /\ StatsPages = UI + UD + p
    BY <1>2, <1>3, <1>4, <1>6, <2>1, <2>2
       DEF StatsTotal, StatsDirectory, StatsRepresentation, StatsPages
  <2>4. StatsReserved = R /\ StatsRepresentation = p
    BY <1>2, <1>6, <2>2 DEF StatsReserved, StatsRepresentation
  <2>5. live = R + D + I
    BY <1>2, <1>6 DEF StatsInv, BlockInv
  <2> QED BY <1>4, <1>6, <2>3, <2>4, <2>5
<1>7. CASE mode = "ADAPTIVE"
  <2>1. /\ StatsTotal = I + (D + m * L) + k * T
        /\ StatsPages = UI + UD + m * UL + k * UT
    BY <1>2, <1>3, <1>4, <1>7
       DEF StatsTotal, StatsDirectory, StatsRepresentation, StatsPages
  <2>2. live = k * T + m * L + D + I
    BY <1>2, <1>3, <1>7 DEF StatsInv, BlockInv
  <2>3. /\ m * L \in Nat /\ k * T \in Nat /\ m * UL \in Nat /\ k * UT \in Nat
        /\ m * L <= m * UL /\ k * T <= k * UT
    <3>1. L * m <= UL * m /\ T * k <= UT * k
      BY <1>4, TimesMonotone
    <3>2. L * m = m * L /\ UL * m = m * UL /\ T * k = k * T /\ UT * k = k * UT
      OBVIOUS
    <3> QED BY <3>1, <3>2
  <2> QED BY <1>4, <1>7, <2>1, <2>2, <2>3
<1> QED BY <1>1, <1>5, <1>6, <1>7

\* The pages named by memx_index_stats are those of all the dense regions.
LEMMA AllTouched ==
    TouchedBelow(RegionCount) =
        {page \in 0 .. (RegionCount * GranulesPerRegion) \div PageHandles :
            \E r \in DenseRegions, g \in Granules :
                (r * GranulesPerRegion + g) \div PageHandles = page}
<1>1. PICK P \in Nat \ {0} : P = PageHandles
  BY HandleAssumption
<1>2. PICK N \in Nat : N = CellCount \div P
  BY Geometry, DivideWithRest
<1>3. ASSUME NEW r \in DenseRegions, NEW g \in Granules
      PROVE  r < RegionCount /\ (r * G + g) \div P \in 0 .. N
  <2>1. r \in Nat /\ r + 1 <= RegionCount /\ g \in 0 .. G - 1
    BY Geometry DEF DenseRegions, Regions, Granules, G
  <2>2. (r + 1) * G <= RegionCount * G /\ (r + 1) * G = r * G + G /\ r * G \in Nat
    BY <2>1, Geometry, TimesMonotone
  <2>3. r * G + g \in Nat /\ r * G + g < CellCount
    BY <2>1, <2>2, Geometry DEF CellCount
  <2>4. (r * G + g) \div P \in Nat
    BY <2>3, DivideWithRest
  <2>5. (r * G + g) \div P <= N
    <3>1. (r * G + g) \div P < N + 1 <=> r * G + g < (N + 1) * P
      BY <2>3, DivideWhere, N + 1 \in Nat
    <3>2. CellCount < (N + 1) * P /\ (N + 1) * P \in Nat
      BY <1>2, Geometry, DivideWhere
    <3> QED BY <2>3, <2>4, <3>1, <3>2, Geometry
  <2> QED BY <2>1, <2>4, <2>5, Geometry
<1>4. \A x : x \in 0 .. N => x \in Nat
  OBVIOUS
<1> QED BY <1>1, <1>2, <1>3, <1>4 DEF TouchedBelow, G, CellCount

LEMMA StatsAreTrue == IndexInv /\ StatsInv => StatsMatch
<1> SUFFICES ASSUME IndexInv, StatsInv PROVE StatsMatch
  OBVIOUS
<1>1. life = "none" => live = 0
  BY DEF StatsInv, BlockInv
<1>2. mode = "OVERLAY" => overlay_private = PageHandles * Cardinality(TouchedBelow(RegionCount))
  BY DEF StatsInv, PrivateInv
<1>3. life = "live" =>
        /\ StatsEmpty = Cardinality(Found("EMPTY"))
        /\ StatsUniform = Cardinality(Found("UNIFORM"))
        /\ StatsDense = Cardinality(Found("DENSE"))
  BY CountsAreTrue
<1>4. life = "live" =>
        /\ live = StatsTotal + (IF mode = "OVERLAY"
                                THEN StatsReserved - StatsRepresentation ELSE 0)
        /\ StatsTotal <= StatsPages
  BY BytesAreTrue
<1> QED BY <1>1, <1>2, <1>3, <1>4, AllTouched DEF StatsMatch, Found

\* The counters of the index and the metadata it holds, at every step of every
\* call: one leaf counted per leaf allocated, exactly the blocks of the present
\* form, and each private page of the overlay once.
THEOREM IndexStatsInvariant == Spec => [](IndexInv /\ StatsInv)
<1>1. Init => IndexInv /\ StatsInv
  BY InitInv, InitStats
<1>2. IndexInv /\ StatsInv /\ [Next]_vars => IndexInv' /\ StatsInv'
  BY StepInv, StepStats
<1> QED BY <1>1, <1>2, PTL DEF Spec

\* What memx_index_stats reports is true in every reachable state, in the
\* middle of a call and after a failed one too, and memx_index_destroy or a
\* failed memx_index_create leaves nothing allocated.
THEOREM IndexStatsMatch == Spec => []StatsMatch
BY IndexStatsInvariant, StatsAreTrue, PTL

-----------------------------------------------------------------------------
(***************************************************************************)
(* Types.                                                                   *)
(***************************************************************************)
StatusType ==
    status \in {"OK", "INVALID_ARGUMENT", "OUT_OF_RANGE", "OVERLAP",
                "NOT_FOUND", "OUT_OF_MEMORY", "BUSY", "UNSUPPORTED"}

LEMMA StepStatus == IndexInv /\ StatusType /\ [Next]_vars => StatusType'
<1> SUFFICES ASSUME IndexInv, StatusType, [Next]_vars PROVE StatusType'
  OBVIOUS
<1>1. CASE UNCHANGED status
  BY <1>1 DEF StatusType
<1>2. CASE status' \in {"OK", "OUT_OF_MEMORY", "NOT_FOUND"}
  BY <1>2 DEF StatusType
<1>3. CASE Reject
  <2>1. PICK base \in Words, size \in Words, h \in Slots :
          status' \in {memx_insert_status(base, size, h), memx_remove_status(base, size, h)}
    BY <1>3 DEF Reject
  <2>2. memx_validate_range(base, size) \in {"OK", "INVALID_ARGUMENT", "OUT_OF_RANGE"}
    BY DEF memx_validate_range
  <2> QED BY <2>1, <2>2 DEF memx_insert_status, memx_remove_status, StatusType
<1>4. CASE \/ OptimizeReturn(memx_index_optimize_status)
           \/ OptimizeReturn(memx_index_optimize_overlay_status)
  <2>1. mode \in {"ADAPTIVE", "FLAT", "OVERLAY"}
    BY DEF IndexInv, IndexType
  <2> QED BY <1>4, <2>1 DEF OptimizeReturn, memx_index_optimize_status,
                memx_index_optimize_overlay_status, StatusType
<1>5. ASSUME NEW base \in Words, NEW size \in Words, NEW h \in Slots,
             memx_insert(base, size, h) \/ memx_remove(base, size, h)
      PROVE  StatusType'
  BY <1>1, <1>2, <1>5 DEF memx_insert, memx_remove, FlatWrite, Begin
<1>6. CASE InsertPrepare \/ InsertPrepareNoLeaf \/ InsertPrepareNoTable
  BY <1>1, <1>2, <1>6 DEF InsertPrepare, InsertPrepareNoLeaf, InsertPrepareNoTable,
                          AdvancePrepare, Return
<1>7. CASE InsertWrite
  BY <1>1, <1>2, <1>7 DEF InsertWrite, AdvanceCommit, Return
<1>8. CASE RemovePrepare \/ RemovePrepareNoTable
  BY <1>1, <1>2, <1>8 DEF RemovePrepare, RemovePrepareNoTable, AdvancePrepare, Return
<1>9. CASE RemoveClear
  BY <1>1, <1>2, <1>9 DEF RemoveClear, AdvanceCommit, Return
<1>10. CASE \/ CreateIndex \/ CreateDirectory \/ memx_index_destroy \/ OptimizeNoMemory
            \/ memx_index_optimize \/ memx_index_optimize_overlay \/ UNCHANGED vars
  BY <1>1, <1>2, <1>10 DEF CreateIndex, CreateDirectory, memx_index_destroy, OptimizeNoMemory,
                           memx_index_optimize, memx_index_optimize_overlay, vars
<1> QED BY <1>3, <1>4, <1>5, <1>6, <1>7, <1>8, <1>9, <1>10 DEF Next

\* The counters are numbers of regions and of leaves.
LEMMA CountersBounded ==
    ASSUME IndexInv, StatsInv
    PROVE  /\ dense_regions \in 0 .. RegionCount
           /\ uniform_regions \in 0 .. RegionCount
           /\ allocated_sparse_leaves \in 0 .. Cardinality(Roots)
<1>1. \A kind : Count(region, kind) <= RegionCount
  <2> SUFFICES ASSUME NEW kind PROVE Count(region, kind) <= RegionCount
    OBVIOUS
  <2>1. {q \in Regions : region[q].type = kind} \in SUBSET Regions
    OBVIOUS
  <2>2. Cardinality({q \in Regions : region[q].type = kind}) <= Cardinality(Regions)
    BY <2>1, FiniteParts, FS_Subset
  <2> QED BY <2>2, FiniteParts DEF Count
<1>2. dense_regions <= RegionCount /\ uniform_regions <= RegionCount
  BY <1>1 DEF IndexInv, CountInv
<1>3. allocated_sparse_leaves <= Cardinality(Roots)
  <2>1. AllocatedLeaves \in SUBSET Roots
    BY DEF AllocatedLeaves
  <2>2. Cardinality(AllocatedLeaves) <= Cardinality(Roots)
    BY <2>1, FiniteParts, FS_Subset
  <2> QED BY <2>2 DEF StatsInv, LeafInv
<1>4. RegionCount \in Nat /\ Cardinality(Roots) \in Nat
  BY Geometry, FiniteParts
<1> QED BY <1>2, <1>3, <1>4, CountersNat

LEMMA TypesHold == IndexInv /\ StatsInv /\ StatusType => TypeOK
<1> SUFFICES ASSUME IndexInv, StatsInv, StatusType PROVE TypeOK
  OBVIOUS
<1>1. overlay_private \in Nat
  <2>1. IsFiniteSet(TouchedBelow(RegionCount))
    BY PagesExact DEF IndexInv, IndexType
  <2>2. Cardinality(TouchedBelow(RegionCount)) \in Nat
    BY <2>1, FS_CardinalityType
  <2> QED BY <2>2, HandleAssumption DEF StatsInv, PrivateInv
<1>2. /\ uniform_regions \in 0 .. RegionCount /\ dense_regions \in 0 .. RegionCount
      /\ allocated_sparse_leaves \in 0 .. Cardinality(Roots) /\ live \in Int
  BY CountersNat, CountersBounded
<1> QED BY <1>1, <1>2 DEF IndexInv, IndexType, StatusType, TypeOK

\* Every variable of the index keeps its type; the counters that
\* memx_index_stats reports stay within the regions and leaves there are.
THEOREM IndexTypeOK == Spec => []TypeOK
<1>1. Init => StatusType
  BY DEF Init, StatusType
<1>2. Spec => []StatusType
  BY <1>1, StepStatus, IndexInvariant, PTL DEF Spec
<1> QED BY <1>2, IndexStatsInvariant, TypesHold, PTL
=============================================================================
