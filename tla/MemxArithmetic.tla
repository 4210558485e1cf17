--------------------------- MODULE MemxArithmetic ---------------------------
(***************************************************************************)
(* Facts that the proofs of several modules rest on: induction over the     *)
(* natural numbers and over finite sets, powers of two, multiples, and sums *)
(* over finite sets (SumFunctionOnSet of the community modules).            *)
(*                                                                          *)
(* The library states induction for an operator, which the provers cannot   *)
(* instantiate; here it is stated for a set, and proved from the least      *)
(* element.                                                                 *)
(***************************************************************************)
EXTENDS MemxPowers, FiniteSets, Functions, FiniteSetTheorems,
        WellFoundedInduction, NaturalsInduction, TLAPS

-----------------------------------------------------------------------------
(***************************************************************************)
(* Induction over the natural numbers, for a set of them.                   *)
(***************************************************************************)
\* A set of natural numbers has a least element.
LEMMA LeastElement ==
    ASSUME NEW S \in SUBSET Nat, S # {}
    PROVE  \E n \in S : \A m \in S : n <= m
<1>1. PICK R : R = OpToRel(<, Nat)
  OBVIOUS
<1>2. IsWellFoundedOn(R, Nat)
  BY <1>1, NatLessThanWellFounded
<1>3. PICK x \in S : \A y \in S : ~ (<<y, x>> \in R)
  BY <1>2, WFMin
<1>4. ASSUME NEW y \in S PROVE x <= y
  <2>1. <<y, x>> \notin R
    BY <1>3
  <2>2. ~(y < x)
    BY <1>1, <2>1 DEF OpToRel
  <2> QED BY <2>2
<1> QED BY <1>4

\* Induction, for a set of numbers.
LEMMA Induction ==
    ASSUME NEW S, 0 \in S, \A n \in Nat : n \in S => n + 1 \in S
    PROVE  Nat \subseteq S
<1>1. PICK T : T = Nat \ S
  OBVIOUS
<1>2. ASSUME T # {} PROVE FALSE
  <2>1. T \in SUBSET Nat
    BY <1>1
  <2>2. PICK n \in T : \A m \in T : n <= m
    BY <1>2, <2>1, LeastElement
  <2>3. n \in Nat /\ n # 0 /\ n \notin S
    BY <1>1, <2>2
  <2>4. n - 1 \in Nat /\ n - 1 \notin T
    BY <2>2, <2>3
  <2>5. (n - 1) + 1 \in S
    BY <1>1, <2>4
  <2> QED BY <2>3, <2>5
<1> QED BY <1>1, <1>2

-----------------------------------------------------------------------------
(***************************************************************************)
(* Powers of two.                                                           *)
(***************************************************************************)
\* f doubles up to n.
Doubles(f, n) ==
    /\ f[0] = 1 /\ DOMAIN f = Nat
    /\ \A k \in 1..n : f[k] = 2 * f[k - 1]

\* The recursion defines a function.
LEMMA PowDefined == \A k \in Nat : Pow2[k] = IF k = 0 THEN 1 ELSE 2 * Pow2[k - 1]
<1>1. PICK S : S = {n \in Nat : \E f : Doubles(f, n)}
  OBVIOUS
<1>2. 0 \in S
  <2>1. Doubles([k \in Nat |-> 1], 0)
    BY DEF Doubles
  <2> QED BY <1>1, <2>1
<1>3. ASSUME NEW n \in Nat, n \in S PROVE n + 1 \in S
  <2>1. PICK f : Doubles(f, n)
    BY <1>1, <1>3
  <2>2. PICK g : g = [k \in Nat |-> IF k = n + 1 THEN 2 * f[n] ELSE f[k]]
    OBVIOUS
  <2>3. Doubles(g, n + 1)
    BY <2>1, <2>2 DEF Doubles
  <2> QED BY <1>1, <2>3
<1>4. \A n \in Nat : \E f : Doubles(f, n)
  BY <1>1, <1>2, <1>3, Induction
<1>5. ASSUME NEW n \in Nat, NEW f, NEW g, Doubles(f, n), NEW m \in Nat, n <= m, Doubles(g, m)
      PROVE \A k \in 0..n : f[k] = g[k]
  <2>1. PICK A : A = {k \in Nat : k <= n => f[k] = g[k]}
    OBVIOUS
  <2>2. 0 \in A
    BY <1>5, <2>1 DEF Doubles
  <2>3. ASSUME NEW k \in Nat, k \in A PROVE k + 1 \in A
    BY <1>5, <2>1, <2>3 DEF Doubles
  <2>4. Nat \subseteq A
    BY <2>2, <2>3, Induction
  <2> QED BY <2>1, <2>4
<1>6. PICK F : F = [n \in Nat |-> CHOOSE f : Doubles(f, n)]
  OBVIOUS
<1>7. \A n \in Nat : Doubles(F[n], n)
  <2> SUFFICES ASSUME NEW n \in Nat PROVE Doubles(F[n], n)
    OBVIOUS
  <2>1. Doubles(CHOOSE f : Doubles(f, n), n)
    BY <1>4
  <2> QED BY <1>6, <2>1
<1>8. PICK P : P = [n \in Nat |-> F[n][n]]
  OBVIOUS
<1>9. ASSUME NEW k \in Nat PROVE P[k] = IF k = 0 THEN 1 ELSE 2 * P[k - 1]
  <2>1. CASE k = 0
    BY <1>7, <1>8, <2>1 DEF Doubles
  <2>2. CASE k # 0
    <3>1. k - 1 \in Nat /\ k - 1 <= k /\ k - 1 \in 0..(k - 1)
      BY <2>2
    <3>2. F[k - 1][k - 1] = F[k][k - 1]
      BY <1>5, <1>7, <3>1
    <3>3. F[k][k] = 2 * F[k][k - 1]
      BY <1>7, <2>2 DEF Doubles
    <3> QED BY <1>8, <2>2, <3>1, <3>2, <3>3
  <2> QED BY <2>1, <2>2
<1>10. P = [k \in Nat |-> IF k = 0 THEN 1 ELSE 2 * P[k - 1]]
  BY <1>8, <1>9
<1>11. Pow2 = [k \in Nat |-> IF k = 0 THEN 1 ELSE 2 * Pow2[k - 1]]
  BY <1>10 DEF Pow2
<1> QED BY <1>11

LEMMA PowPositive == \A k \in Nat : Pow2[k] \in Nat /\ Pow2[k] >= 1
<1>1. PICK S : S = {k \in Nat : Pow2[k] \in Nat /\ Pow2[k] >= 1}
  OBVIOUS
<1>2. 0 \in S
  BY <1>1, PowDefined
<1>3. ASSUME NEW n \in Nat, n \in S PROVE n + 1 \in S
  <2>1. Pow2[n + 1] = 2 * Pow2[n]
    BY PowDefined
  <2> QED BY <1>1, <1>3, <2>1
<1>4. Nat \subseteq S
  BY <1>2, <1>3, Induction
<1> QED BY <1>1, <1>4

LEMMA PowSum == \A j, k \in Nat : Pow2[j + k] = Pow2[j] * Pow2[k]
<1> SUFFICES ASSUME NEW j \in Nat
             PROVE  \A k \in Nat : Pow2[j + k] = Pow2[j] * Pow2[k]
  OBVIOUS
<1>1. PICK S : S = {k \in Nat : Pow2[j + k] = Pow2[j] * Pow2[k]}
  OBVIOUS
<1>2. 0 \in S
  <2>1. Pow2[0] = 1 /\ Pow2[j] \in Nat
    BY PowDefined, PowPositive
  <2> QED BY <1>1, <2>1
<1>3. ASSUME NEW n \in Nat, n \in S PROVE n + 1 \in S
  <2>1. Pow2[n + 1] = 2 * Pow2[n] /\ Pow2[j + (n + 1)] = 2 * Pow2[j + n]
    BY PowDefined
  <2>2. Pow2[j + n] = Pow2[j] * Pow2[n]
    BY <1>1, <1>3
  <2>3. Pow2[j] \in Nat /\ Pow2[n] \in Nat
    BY PowPositive
  <2>4. 2 * (Pow2[j] * Pow2[n]) = Pow2[j] * (2 * Pow2[n])
    BY <2>3
  <2> QED BY <1>1, <2>1, <2>2, <2>4
<1>4. Nat \subseteq S
  BY <1>2, <1>3, Induction
<1> QED BY <1>1, <1>4

\* Multiples.
LEMMA Multiple ==
    ASSUME NEW u \in Nat, u >= 1, NEW q \in Int
    PROVE  (u * q) % u = 0
OBVIOUS

LEMMA MultipleOf ==
    ASSUME NEW u \in Nat, u >= 1, NEW x \in Int, x % u = 0
    PROVE  \E q \in Int : x = u * q
OBVIOUS

LEMMA Quotient ==
    ASSUME NEW u \in Nat, u >= 1, NEW x \in Int
    PROVE  \E q \in Int : x - (x % u) = u * q
OBVIOUS

LEMMA MultipleSum ==
    ASSUME NEW u \in Nat, u >= 1, NEW x \in Int, NEW y \in Int, x % u = 0, y % u = 0
    PROVE  (x + y) % u = 0 /\ (x - y) % u = 0
<1>1. PICK q \in Int : x = u * q
  BY MultipleOf
<1>2. PICK r \in Int : y = u * r
  BY MultipleOf
<1>3. x + y = u * (q + r) /\ x - y = u * (q - r)
  BY <1>1, <1>2
<1>4. (u * (q + r)) % u = 0 /\ (u * (q - r)) % u = 0
  BY <1>1, <1>2, Multiple
<1> QED BY <1>3, <1>4

LEMMA MultipleTrans ==
    ASSUME NEW u \in Nat, u >= 1, NEW v \in Nat, v >= 1, NEW x \in Int, x % v = 0, v % u = 0
    PROVE  x % u = 0
<1>1. PICK q \in Int : x = v * q
  BY MultipleOf
<1>2. PICK r \in Int : v = u * r
  BY MultipleOf
<1>3. x = u * (r * q)
  BY <1>1, <1>2
<1>4. (u * (r * q)) % u = 0
  BY <1>1, <1>2, Multiple
<1> QED BY <1>3, <1>4

\* Two multiples are equal or lie at least the unit apart.
LEMMA MultipleGap ==
    ASSUME NEW u \in Nat, u >= 1, NEW x \in Int, NEW y \in Int, x % u = 0, y % u = 0, x < y
    PROVE  x + u <= y
<1>1. PICK q \in Int : y - x = u * q
  <2>1. (y - x) % u = 0
    BY MultipleSum
  <2>2. y - x \in Int
    OBVIOUS
  <2> QED BY <2>1, <2>2, MultipleOf
<1>2. q >= 1
  <2>1. CASE q <= 0
    <3>1. u * q <= 0
      BY <2>1
    <3> QED BY <1>1, <3>1
  <2> QED BY <1>1, <2>1
<1>3. u * q >= u
  <2>1. PICK d \in Nat : q = 1 + d
    BY <1>2, q - 1 \in Nat
  <2>2. u * q = u + u * d /\ u * d \in Nat
    BY <2>1
  <2> QED BY <2>2
<1> QED BY <1>1, <1>3

\* Products and quotients.
LEMMA ProductMonotone ==
    ASSUME NEW m \in Nat, NEW n \in Nat, m <= n, NEW u \in Nat
    PROVE  m * u <= n * u
<1>1. PICK d \in Nat : n = m + d
  BY n - m \in Nat
<1>2. n * u = m * u + d * u /\ d * u \in Nat /\ m * u \in Nat
  BY <1>1
<1> QED BY <1>2

LEMMA ExactQuotient ==
    ASSUME NEW u \in Nat, u >= 1, NEW q \in Nat
    PROVE  (u * q) \div u = q
OBVIOUS

LEMMA BelowQuotient ==
    ASSUME NEW u \in Nat, u >= 1, NEW m \in Nat, NEW n \in Nat, n <= m \div u
    PROVE  n * u <= m
<1>1. PICK q \in Nat : q = m \div u
  OBVIOUS
<1>2. q * u <= m
  BY <1>1
<1>3. n * u <= q * u
  BY <1>1, ProductMonotone
<1>4. n * u \in Int /\ q * u \in Int
  OBVIOUS
<1> QED BY <1>2, <1>3, <1>4

\* A power of two divides the ones after it, which are larger.
LEMMA PowDivides ==
    ASSUME NEW i \in Nat, NEW j \in Nat, i <= j
    PROVE  /\ Pow2[j] = Pow2[i] * Pow2[j - i]
           /\ Pow2[j] % Pow2[i] = 0 /\ Pow2[j] \div Pow2[i] = Pow2[j - i]
           /\ Pow2[i] <= Pow2[j]
<1>1. PICK k \in Nat : j = i + k
  BY j - i \in Nat
<1>2. Pow2[i + k] = Pow2[i] * Pow2[k]
  BY PowSum
<1>3. PICK x, q : x = Pow2[i] /\ q = Pow2[k]
  OBVIOUS
<1>4. x \in Nat /\ x >= 1 /\ q \in Nat /\ q >= 1 /\ q \in Int
  BY <1>3, PowPositive
<1>5. Pow2[j] = x * q /\ k = j - i
  BY <1>1, <1>2, <1>3
<1>6. (x * q) % x = 0 /\ (x * q) \div x = q
  BY <1>4, Multiple, ExactQuotient
<1>7. x <= x * q
  <2>1. PICK d \in Nat : q = 1 + d
    BY <1>4, q - 1 \in Nat
  <2>2. x * q = x + x * d /\ x * d \in Nat
    BY <1>4, <2>1
  <2> QED BY <1>4, <2>2
<1> QED BY <1>3, <1>5, <1>6, <1>7

\* Each is at least the double of those before it.
LEMMA PowGrows ==
    ASSUME NEW i \in Nat, NEW j \in Nat, i < j
    PROVE  2 * Pow2[i] <= Pow2[j]
<1>1. Pow2[i + 1] = 2 * Pow2[i]
  BY PowDefined
<1>2. Pow2[i + 1] <= Pow2[j]
  BY PowDivides
<1> QED BY <1>1, <1>2

-----------------------------------------------------------------------------
(***************************************************************************)
(* Sums over finite sets.                                                   *)
(***************************************************************************)
\* A family of subsets of a finite set has a member no other is inside of.
LEMMA SmallestSet ==
    ASSUME NEW S, IsFiniteSet(S), NEW B \in SUBSET (SUBSET S), B # {}
    PROVE  \E T \in B : \A U \in SUBSET T : U # T => U \notin B
<1>1. \A T \in SUBSET S : IsFiniteSet(T) /\ Cardinality(T) \in Nat
  BY FS_Subset, FS_CardinalityType
<1>2. PICK N : N = {Cardinality(T) : T \in B}
  OBVIOUS
<1>3. N \in SUBSET Nat /\ N # {}
  BY <1>1, <1>2
<1>4. PICK n \in N : \A m \in N : n <= m
  BY <1>3, LeastElement
<1>5. PICK T \in B : n = Cardinality(T)
  BY <1>2
<1>6. ASSUME NEW U \in SUBSET T, U # T, U \in B PROVE FALSE
  <2>1. Cardinality(U) <= Cardinality(T) /\ Cardinality(U) # Cardinality(T)
    BY <1>1, <1>5, <1>6, FS_Subset
  <2>2. Cardinality(U) \in N /\ Cardinality(U) \in Nat /\ Cardinality(T) \in Nat
    BY <1>1, <1>2, <1>5, <1>6
  <2> QED BY <1>4, <1>5, <2>1, <2>2
<1> QED BY <1>5, <1>6

\* The element a sum takes next.
First(s) == CHOOSE x \in s : TRUE

LEMMA FirstIn == ASSUME NEW s, s # {} PROVE First(s) \in s
BY DEF First

\* g sums f over the subsets of S that are in D.
Sums(g, f, S, D) ==
    /\ g = [s \in SUBSET S |-> g[s]]
    /\ \A s \in SUBSET S : s \in D =>
           g[s] = IF s = {} THEN 0 ELSE f[First(s)] + g[s \ {First(s)}]

\* The subsets of S with at most n elements.
UpTo(S, n) == {s \in SUBSET S : Cardinality(s) <= n}

LEMMA SumsExist ==
    ASSUME NEW f, NEW S, IsFiniteSet(S)
    PROVE  \E g : Sums(g, f, S, SUBSET S)
<1>1. PICK A : A = {n \in Nat : \E g : Sums(g, f, S, UpTo(S, n))}
  OBVIOUS
<1>2. \A T \in SUBSET S : IsFiniteSet(T) /\ Cardinality(T) \in Nat
                           /\ Cardinality(T) <= Cardinality(S)
  BY FS_Subset, FS_CardinalityType
<1>3. 0 \in A
  <2>1. PICK g : g = [s \in SUBSET S |-> 0]
    OBVIOUS
  <2>2. \A s \in UpTo(S, 0) : s = {}
    BY <1>2, FS_EmptySet DEF UpTo
  <2>3. Sums(g, f, S, UpTo(S, 0))
    BY <2>1, <2>2 DEF Sums
  <2> QED BY <1>1, <2>3
<1>4. ASSUME NEW n \in Nat, n \in A PROVE n + 1 \in A
  <2>1. PICK g : Sums(g, f, S, UpTo(S, n))
    BY <1>1, <1>4
  <2>2. PICK h : h = [s \in SUBSET S |->
                        IF s \in UpTo(S, n) THEN g[s] ELSE f[First(s)] + g[s \ {First(s)}]]
    OBVIOUS
  <2>3. {} \in UpTo(S, n)
    BY FS_EmptySet DEF UpTo
  <2>4. ASSUME NEW s \in UpTo(S, n + 1), s # {}
        PROVE  s \ {First(s)} \in UpTo(S, n)
    <3>1. s \in SUBSET S /\ Cardinality(s) <= n + 1 /\ First(s) \in s
      BY <2>4, FirstIn DEF UpTo
    <3>2. Cardinality(s \ {First(s)}) = Cardinality(s) - 1
      BY <1>2, <3>1, FS_RemoveElement
    <3> QED BY <1>2, <3>1, <3>2 DEF UpTo
  <2>5. ASSUME NEW s \in SUBSET S, s \in UpTo(S, n + 1)
        PROVE  h[s] = IF s = {} THEN 0 ELSE f[First(s)] + h[s \ {First(s)}]
    <3>1. CASE s = {}
      BY <2>1, <2>2, <2>3, <3>1 DEF Sums
    <3>2. CASE s # {}
      <4>1. s \ {First(s)} \in UpTo(S, n) /\ s \ {First(s)} \in SUBSET S
        BY <2>4, <2>5, <3>2
      <4>2. h[s \ {First(s)}] = g[s \ {First(s)}]
        BY <2>2, <4>1
      <4>3. h[s] = f[First(s)] + g[s \ {First(s)}]
        BY <2>1, <2>2, <3>2 DEF Sums
      <4> QED BY <3>2, <4>2, <4>3
    <3> QED BY <3>1, <3>2
  <2>6. Sums(h, f, S, UpTo(S, n + 1))
    BY <2>2, <2>5 DEF Sums
  <2> QED BY <1>1, <2>6
<1>5. Nat \subseteq A
  BY <1>3, <1>4, Induction
<1>6. Cardinality(S) \in Nat
  BY FS_CardinalityType
<1>7. PICK g : Sums(g, f, S, UpTo(S, Cardinality(S)))
  BY <1>1, <1>5, <1>6
<1>8. UpTo(S, Cardinality(S)) = SUBSET S
  BY <1>2 DEF UpTo
<1> QED BY <1>7, <1>8

\* And only one.
LEMMA SumsAgree ==
    ASSUME NEW f, NEW S, IsFiniteSet(S), NEW T \in SUBSET S, NEW g, NEW h,
           Sums(g, f, S, SUBSET S), Sums(h, f, T, SUBSET T)
    PROVE  \A s \in SUBSET T : g[s] = h[s]
<1>1. PICK B : B = {s \in SUBSET T : g[s] # h[s]}
  OBVIOUS
<1>2. ASSUME B # {} PROVE FALSE
  <2>1. B \in SUBSET (SUBSET T) /\ IsFiniteSet(T)
    BY <1>1, FS_Subset
  <2>2. PICK s \in B : \A U \in SUBSET s : U # s => U \notin B
    BY <1>2, <2>1, SmallestSet
  <2>3. s \in SUBSET T /\ s \in SUBSET S
    BY <1>1, <2>2
  <2>4. s # {}
    BY <1>1, <2>2, <2>3 DEF Sums
  <2>5. PICK r : r = s \ {First(s)}
    OBVIOUS
  <2>6. r \in SUBSET s /\ r # s /\ r \in SUBSET T
    BY <2>3, <2>4, <2>5, FirstIn
  <2>7. g[r] = h[r]
    BY <1>1, <2>2, <2>6
  <2>8. g[s] = f[First(s)] + g[r] /\ h[s] = f[First(s)] + h[r]
    BY <2>3, <2>4, <2>5 DEF Sums
  <2> QED BY <1>1, <2>2, <2>7, <2>8
<1> QED BY <1>1, <1>2

LEMMA SumIsOne ==
    ASSUME NEW f, NEW S, IsFiniteSet(S)
    PROVE  \E g : Sums(g, f, S, SUBSET S) /\ SumFunctionOnSet(f, S) = g[S]
<1>1. PICK g : g = CHOOSE e : e = [s \in SUBSET S |->
            IF s = {} THEN 0 ELSE f[First(s)] + e[s \ {First(s)}]]
  OBVIOUS
<1>2. PICK h : Sums(h, f, S, SUBSET S)
  BY SumsExist
<1>3. h = [s \in SUBSET S |-> IF s = {} THEN 0 ELSE f[First(s)] + h[s \ {First(s)}]]
  BY <1>2 DEF Sums
<1>4. g = [s \in SUBSET S |-> IF s = {} THEN 0 ELSE f[First(s)] + g[s \ {First(s)}]]
  BY <1>1, <1>3
<1>5. Sums(g, f, S, SUBSET S)
  BY <1>4 DEF Sums
<1>6. SumFunctionOnSet(f, S) = g[S]
  BY <1>1 DEF SumFunctionOnSet, FoldFunctionOnSet, MapThenFoldSet, First
<1> QED BY <1>5, <1>6

\* The sum over the empty set, and the recursion.
LEMMA SumEmpty == \A f : SumFunctionOnSet(f, {}) = 0
<1> SUFFICES ASSUME NEW f PROVE SumFunctionOnSet(f, {}) = 0
  OBVIOUS
<1>1. PICK g : Sums(g, f, {}, SUBSET {}) /\ SumFunctionOnSet(f, {}) = g[{}]
  BY SumIsOne, FS_EmptySet
<1> QED BY <1>1 DEF Sums

LEMMA SumFirst ==
    ASSUME NEW f, NEW S, IsFiniteSet(S), S # {}
    PROVE  SumFunctionOnSet(f, S)
             = f[First(S)] + SumFunctionOnSet(f, S \ {First(S)})
<1>1. PICK T : T = S \ {First(S)}
  OBVIOUS
<1>2. IsFiniteSet(T) /\ T \in SUBSET S
  BY <1>1, FS_Subset
<1>3. PICK g : Sums(g, f, S, SUBSET S) /\ SumFunctionOnSet(f, S) = g[S]
  BY SumIsOne
<1>4. PICK h : Sums(h, f, T, SUBSET T) /\ SumFunctionOnSet(f, T) = h[T]
  BY <1>2, SumIsOne
<1>5. g[T] = h[T]
  BY <1>2, <1>3, <1>4, SumsAgree
<1>6. g[S] = f[First(S)] + g[T]
  BY <1>1, <1>3 DEF Sums
<1> QED BY <1>1, <1>3, <1>4, <1>5, <1>6

\* Sums of numbers are numbers.
LEMMA SumNumbers ==
    ASSUME NEW f, NEW S, IsFiniteSet(S)
    PROVE  /\ (\A x \in S : f[x] \in Int) => SumFunctionOnSet(f, S) \in Int
           /\ (\A x \in S : f[x] \in Nat) => SumFunctionOnSet(f, S) \in Nat
<1>1. ASSUME NEW N, N = Int \/ N = Nat, \A x \in S : f[x] \in N
      PROVE  SumFunctionOnSet(f, S) \in N
  <2>1. PICK B : B = {T \in SUBSET S : SumFunctionOnSet(f, T) \notin N}
    OBVIOUS
  <2>2. ASSUME B # {} PROVE FALSE
    <3>1. B \in SUBSET (SUBSET S)
      BY <2>1
    <3>2. PICK T \in B : \A U \in SUBSET T : U # T => U \notin B
      BY <2>2, <3>1, SmallestSet
    <3>3. T \in SUBSET S /\ IsFiniteSet(T) /\ SumFunctionOnSet(f, T) \notin N
      BY <2>1, <3>2, FS_Subset
    <3>4. T # {}
      BY <1>1, <3>3, SumEmpty
    <3>5. PICK x, R : x = First(T) /\ R = T \ {First(T)}
      OBVIOUS
    <3>6. x \in S /\ R \in SUBSET T /\ R # T /\ R \in SUBSET S
      BY <3>3, <3>4, <3>5, FirstIn
    <3>7. SumFunctionOnSet(f, R) \in N /\ f[x] \in N
      BY <1>1, <2>1, <3>2, <3>6
    <3>8. SumFunctionOnSet(f, T) = f[x] + SumFunctionOnSet(f, R)
      BY <3>3, <3>4, <3>5, SumFirst
    <3>9. PICK a, b : a = f[x] /\ b = SumFunctionOnSet(f, R)
      OBVIOUS
    <3>10. a + b \in N
      BY <1>1, <3>7, <3>9
    <3> QED BY <3>3, <3>8, <3>9, <3>10
  <2> QED BY <2>1, <2>2
<1> QED BY <1>1

\* Any element may be taken first.
LEMMA SumTake ==
    ASSUME NEW f, NEW S, IsFiniteSet(S), \A y \in S : f[y] \in Int, NEW x \in S
    PROVE  SumFunctionOnSet(f, S) = f[x] + SumFunctionOnSet(f, S \ {x})
<1>1. PICK B : B = {T \in SUBSET S : \E y \in T :
            SumFunctionOnSet(f, T) # f[y] + SumFunctionOnSet(f, T \ {y})}
  OBVIOUS
<1>2. ASSUME B # {} PROVE FALSE
  <2>1. B \in SUBSET (SUBSET S)
    BY <1>1
  <2>2. PICK T \in B : \A U \in SUBSET T : U # T => U \notin B
    BY <1>2, <2>1, SmallestSet
  <2>3. T \in SUBSET S /\ IsFiniteSet(T)
    BY <1>1, <2>2, FS_Subset
  <2>4. PICK y \in T : SumFunctionOnSet(f, T) # f[y] + SumFunctionOnSet(f, T \ {y})
    BY <1>1, <2>2
  <2>5. PICK c : c = First(T)
    OBVIOUS
  <2>6. c \in T /\ SumFunctionOnSet(f, T) = f[c] + SumFunctionOnSet(f, T \ {c})
    BY <2>3, <2>4, <2>5, FirstIn, SumFirst
  <2>7. c # y
    BY <2>4, <2>6
  <2>8. /\ T \ {c} \in SUBSET S /\ T \ {c} \notin B /\ y \in T \ {c}
        /\ T \ {y} \in SUBSET S /\ T \ {y} \notin B /\ c \in T \ {y}
    BY <2>2, <2>3, <2>6, <2>7
  <2>9. PICK R : R = (T \ {c}) \ {y}
    OBVIOUS
  <2>10. R = (T \ {y}) \ {c} /\ R \in SUBSET S
    BY <2>3, <2>9
  <2>11. SumFunctionOnSet(f, T \ {c}) = f[y] + SumFunctionOnSet(f, R)
    BY <1>1, <2>8, <2>9
  <2>12. SumFunctionOnSet(f, T \ {y}) = f[c] + SumFunctionOnSet(f, R)
    BY <1>1, <2>8, <2>10
  <2>13. f[c] \in Int /\ f[y] \in Int /\ SumFunctionOnSet(f, R) \in Int
    <3>1. IsFiniteSet(R) /\ \A z \in R : f[z] \in Int
      BY <2>10, FS_Subset
    <3> QED BY <2>3, <2>6, <3>1, SumNumbers
  <2>14. PICK p, q, r : p = f[c] /\ q = f[y] /\ r = SumFunctionOnSet(f, R)
    OBVIOUS
  <2>15. p + (q + r) = q + (p + r)
    BY <2>13, <2>14
  <2> QED BY <2>4, <2>6, <2>11, <2>12, <2>14, <2>15
<1> QED BY <1>1, <1>2

\* An element more.
LEMMA SumAdd ==
    ASSUME NEW f, NEW S, IsFiniteSet(S), NEW x, x \notin S,
           \A y \in S \cup {x} : f[y] \in Int
    PROVE  SumFunctionOnSet(f, S \cup {x}) = f[x] + SumFunctionOnSet(f, S)
<1>1. PICK T : T = S \cup {x}
  OBVIOUS
<1>2. IsFiniteSet(T) /\ x \in T /\ T \ {x} = S
  BY <1>1, FS_AddElement
<1>3. SumFunctionOnSet(f, T) = f[x] + SumFunctionOnSet(f, T \ {x})
  BY <1>1, <1>2, SumTake
<1> QED BY <1>1, <1>2, <1>3

\* Functions with the same values have the same sum.
LEMMA SumSame ==
    ASSUME NEW f, NEW g, NEW S, IsFiniteSet(S), \A x \in S : f[x] = g[x]
    PROVE  SumFunctionOnSet(f, S) = SumFunctionOnSet(g, S)
<1>1. PICK B : B = {T \in SUBSET S : SumFunctionOnSet(f, T) # SumFunctionOnSet(g, T)}
  OBVIOUS
<1>2. ASSUME B # {} PROVE FALSE
  <2>1. B \in SUBSET (SUBSET S)
    BY <1>1
  <2>2. PICK T \in B : \A U \in SUBSET T : U # T => U \notin B
    BY <1>2, <2>1, SmallestSet
  <2>3. T \in SUBSET S /\ IsFiniteSet(T)
        /\ SumFunctionOnSet(f, T) # SumFunctionOnSet(g, T)
    BY <1>1, <2>2, FS_Subset
  <2>4. T # {}
    BY <2>3, SumEmpty
  <2>5. PICK x, R : x = First(T) /\ R = T \ {First(T)}
    OBVIOUS
  <2>6. x \in S /\ R \in SUBSET T /\ R # T /\ R \in SUBSET S
    BY <2>3, <2>4, <2>5, FirstIn
  <2>7. SumFunctionOnSet(f, R) = SumFunctionOnSet(g, R) /\ f[x] = g[x]
    BY <1>1, <2>2, <2>6
  <2>8. /\ SumFunctionOnSet(f, T) = f[x] + SumFunctionOnSet(f, R)
        /\ SumFunctionOnSet(g, T) = g[x] + SumFunctionOnSet(g, R)
    BY <2>3, <2>4, <2>5, SumFirst
  <2> QED BY <2>3, <2>7, <2>8
<1> QED BY <1>1, <1>2

\* One value changes.
LEMMA SumChange ==
    ASSUME NEW f, NEW g, NEW S, IsFiniteSet(S), NEW x \in S,
           \A y \in S : f[y] \in Int /\ g[y] \in Int,
           \A y \in S \ {x} : f[y] = g[y]
    PROVE  SumFunctionOnSet(g, S) = SumFunctionOnSet(f, S) - f[x] + g[x]
<1>1. PICK R : R = S \ {x}
  OBVIOUS
<1>2. IsFiniteSet(R) /\ \A y \in R : f[y] = g[y] /\ f[y] \in Int
  BY <1>1, FS_Subset
<1>3. SumFunctionOnSet(f, R) = SumFunctionOnSet(g, R) /\ SumFunctionOnSet(f, R) \in Int
  BY <1>2, SumSame, SumNumbers
<1>4. SumFunctionOnSet(f, S) = f[x] + SumFunctionOnSet(f, R)
  BY <1>1, SumTake
<1>5. SumFunctionOnSet(g, S) = g[x] + SumFunctionOnSet(g, R)
  BY <1>1, SumTake
<1>6. PICK p, q, r : p = f[x] /\ q = g[x] /\ r = SumFunctionOnSet(f, R)
  OBVIOUS
<1>7. q + r = (p + r) - p + q
  BY <1>3, <1>6
<1> QED BY <1>3, <1>4, <1>5, <1>6, <1>7

\* A sum of zeros.
LEMMA SumZero ==
    ASSUME NEW f, NEW S, IsFiniteSet(S), \A x \in S : f[x] = 0
    PROVE  SumFunctionOnSet(f, S) = 0
<1>1. PICK B : B = {T \in SUBSET S : SumFunctionOnSet(f, T) # 0}
  OBVIOUS
<1>2. ASSUME B # {} PROVE FALSE
  <2>1. B \in SUBSET (SUBSET S)
    BY <1>1
  <2>2. PICK T \in B : \A U \in SUBSET T : U # T => U \notin B
    BY <1>2, <2>1, SmallestSet
  <2>3. T \in SUBSET S /\ IsFiniteSet(T) /\ SumFunctionOnSet(f, T) # 0
    BY <1>1, <2>2, FS_Subset
  <2>4. T # {}
    BY <2>3, SumEmpty
  <2>5. PICK x, R : x = First(T) /\ R = T \ {First(T)}
    OBVIOUS
  <2>6. x \in S /\ R \in SUBSET T /\ R # T /\ R \in SUBSET S
    BY <2>3, <2>4, <2>5, FirstIn
  <2>7. SumFunctionOnSet(f, R) = 0 /\ f[x] = 0
    BY <1>1, <2>2, <2>6
  <2>8. SumFunctionOnSet(f, T) = f[x] + SumFunctionOnSet(f, R)
    BY <2>3, <2>4, <2>5, SumFirst
  <2> QED BY <2>3, <2>7, <2>8
<1> QED BY <1>1, <1>2
=============================================================================
