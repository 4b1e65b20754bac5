---------------------------- MODULE NumberLemmas ----------------------------
(***************************************************************************)
(* Facts about natural numbers and finite sets that the proofs of several  *)
(* components cite by name.                                                *)
(***************************************************************************)
EXTENDS Integers, FiniteSets, FiniteSetTheorems, WellFoundedInduction, TLAPS

\* The order of the naturals as a set of pairs.
NatLess == OpToRel(<, Nat)

\* A smaller number precedes a larger one.
LEMMA NatLessPairs == \A k, n \in Nat : k < n => <<k, n>> \in NatLess
BY DEF OpToRel, NatLess

\* The least-number principle, for a set: what induction over the naturals rests on.
LEMMA LeastNumber ==
  ASSUME NEW S \in SUBSET Nat, S # {}
  PROVE  \E m \in S : \A k \in S : m <= k
<1>1. IsWellFoundedOn(NatLess, Nat)
  BY NatLessThanWellFounded DEF NatLess
<1>2. PICK m \in S : \A k \in S : ~(<<k, m>> \in NatLess)
  BY <1>1, WFMin
<1>3. \A k \in S : ~(k < m)
  BY <1>2, NatLessPairs, Zenon
<1>4. \A k \in S : m <= k
  BY <1>3
<1> QED BY <1>4

\* A bounded set of numbers has a greatest one.
LEMMA GreatestNumber ==
  ASSUME NEW S \in SUBSET Nat, S # {}, NEW b \in Nat, \A k \in S : k <= b
  PROVE  \E m \in S : \A k \in S : k <= m
<1> DEFINE T == {b - k : k \in S}
<1>1. T \in SUBSET Nat /\ T # {}
  <2>1. \A k \in S : b - k \in Nat
    OBVIOUS
  <2>2. PICK k \in S : TRUE
    OBVIOUS
  <2>3. b - k \in T
    OBVIOUS
  <2> QED BY <2>1, <2>3
<1>2. PICK t \in T : \A u \in T : t <= u
  BY <1>1, LeastNumber
<1>3. PICK m \in S : t = b - m
  BY <1>2
<1>4. \A k \in S : b - m <= b - k
  BY <1>2, <1>3
<1> QED BY <1>4

\* A finite set of numbers is bounded.
LEMMA FiniteBounded ==
  ASSUME NEW S \in SUBSET Nat, IsFiniteSet(S)
  PROVE  \E b \in Nat : \A s \in S : s <= b
<1> DEFINE Bounded(T) == \E b \in Nat : \A s \in T : s <= b
           Bad == {T \in FiniteSubsetsOf(Nat) : ~Bounded(T)}
<1> SUFFICES ASSUME Bad # {} PROVE FALSE
  BY DEF FiniteSubsetsOf
<1>1. IsWellFoundedOn(StrictSubsetOrdering(Nat), FiniteSubsetsOf(Nat))
  BY FS_StrictSubsetOrderingWellFounded
<1>2. PICK T \in Bad : \A U \in Bad : ~(<<U, T>> \in StrictSubsetOrdering(Nat))
  BY <1>1, WFMin
<1>3. T \in SUBSET Nat /\ IsFiniteSet(T) /\ ~Bounded(T)
  BY <1>2 DEF FiniteSubsetsOf
<1>4. PICK x \in T : TRUE
  <2>1. T = {} => Bounded(T)
    OBVIOUS
  <2> QED BY <1>3, <2>1
<1> DEFINE U == T \ {x}
<1>5. U \in SUBSET Nat /\ IsFiniteSet(U) /\ U \subseteq T /\ U # T
  BY <1>3, <1>4, FS_RemoveElement
<1>6. <<U, T>> \in StrictSubsetOrdering(Nat)
  BY <1>3, <1>5 DEF StrictSubsetOrdering
<1>7. Bounded(U)
  BY <1>2, <1>5, <1>6 DEF FiniteSubsetsOf
<1>8. PICK b \in Nat : \A s \in U : s <= b
  BY <1>7
<1>9. \A s \in T : s <= b + x
  BY <1>3, <1>4, <1>8
<1> QED BY <1>3, <1>4, <1>9

\* Division with remainder.
LEMMA DivMod ==
  ASSUME NEW d \in Nat \ {0}, NEW a \in Nat
  PROVE  /\ a = d * (a \div d) + (a % d) /\ a \div d \in Int
         /\ a % d \in 0 .. (d - 1)
OBVIOUS

\* Different multiples of d are at least d apart.
LEMMA MultiplesApart ==
  ASSUME NEW d \in Nat \ {0}, NEW a \in Int, NEW b \in Int, d * a < d * b
  PROVE  d * a + d <= d * b
OBVIOUS

\* The same, for numbers that d divides without a remainder.
LEMMA DivisibleApart ==
  ASSUME NEW d \in Nat \ {0}, NEW a \in Nat, NEW b \in Nat,
         a % d = 0, b % d = 0, a < b
  PROVE  a + d <= b
<1> DEFINE p == a \div d
           q == b \div d
<1>1. a = d * p /\ b = d * q /\ p \in Int /\ q \in Int
  BY DivMod
<1> HIDE DEF p, q
<1>2. d * p < d * q
  BY <1>1
<1> QED BY <1>1, <1>2, MultiplesApart

\* The next multiple of d.
LEMMA DivisibleNext ==
  ASSUME NEW d \in Nat \ {0}, NEW a \in Nat, a % d = 0
  PROVE  (a + d) % d = 0
<1> DEFINE p == a \div d
           q == (a + d) \div d
           r == (a + d) % d
<1>1. a = d * p /\ a + d = d * q + r /\ p \in Int /\ q \in Int /\ r \in 0 .. (d - 1)
  <2>1. a = d * p + 0 /\ p \in Int
    BY DivMod
  <2>2. a + d \in Nat
    OBVIOUS
  <2>3. a + d = d * q + r /\ q \in Int /\ r \in 0 .. (d - 1)
    BY <2>2, DivMod
  <2>4. d * p \in Int
    BY <2>1
  <2> HIDE DEF p
  <2> QED BY <2>1, <2>3, <2>4
<1> HIDE DEF p, q, r
<1>2. d * (p + 1) = d * p + d /\ d * p \in Int /\ d * q \in Int
  <2>1. \A n, m \in Int : n * (m + 1) = n * m + n /\ n * m \in Int
    OBVIOUS
  <2> QED BY <2>1, <1>1
<1>3. ~(d * q < d * (p + 1))
  <2> SUFFICES ASSUME d * q < d * (p + 1) PROVE FALSE
    OBVIOUS
  <2>1. d * q + d <= d * (p + 1)
    BY <1>1, MultiplesApart
  <2> QED BY <2>1, <1>1, <1>2
<1>4. r = 0
  BY <1>1, <1>2, <1>3
<1> QED BY <1>4 DEF r

-----------------------------------------------------------------------------
(* Running sums, which the models write as recursive functions *)

\* f[i] is the sum of the first i values of g.
RunningSum(f, g, n) ==
  /\ f \in [0 .. n -> Nat] /\ f[0] = 0
  /\ \A i \in 1 .. n : f[i] = f[i - 1] + g[i]

\* There is such a function.
LEMMA SumExists ==
  ASSUME NEW n \in Nat, NEW g, \A i \in 1 .. n : g[i] \in Nat
  PROVE  \E f : RunningSum(f, g, n)
<1> DEFINE Bad == {k \in 0 .. n : ~\E f : RunningSum(f, g, k)}
<1> SUFFICES ASSUME Bad # {} PROVE FALSE
  OBVIOUS
<1>1. PICK m \in Bad : \A k \in Bad : m <= k
  <2>1. Bad \in SUBSET Nat
    OBVIOUS
  <2> HIDE DEF Bad
  <2> QED BY <2>1, LeastNumber
<1>2. CASE m = 0
  <2>1. RunningSum([i \in 0 .. 0 |-> 0], g, 0)
    BY DEF RunningSum
  <2> QED BY <1>1, <1>2, <2>1
<1>3. CASE m # 0
  <2>1. m - 1 \in 0 .. n /\ m - 1 \notin Bad /\ m \in 1 .. n
    BY <1>1, <1>3
  <2>2. PICK h : RunningSum(h, g, m - 1)
    BY <2>1
  <2> DEFINE f == [i \in 0 .. m |-> IF i < m THEN h[i] ELSE h[m - 1] + g[m]]
  <2>3. \A i \in 0 .. (m - 1) : h[i] \in Nat /\ f[i] = h[i]
    BY <2>1, <2>2 DEF RunningSum
  <2>4. g[m] \in Nat /\ f[m] = h[m - 1] + g[m] /\ m - 1 \in 0 .. (m - 1)
    BY <2>1
  <2>5. f \in [0 .. m -> Nat] /\ f[0] = 0
    BY <2>1, <2>2, <2>3, <2>4 DEF RunningSum
  <2>6. \A i \in 1 .. m : f[i] = f[i - 1] + g[i]
    <3> SUFFICES ASSUME NEW i \in 1 .. m PROVE f[i] = f[i - 1] + g[i]
      OBVIOUS
    <3>1. CASE i = m
      BY <3>1, <2>1, <2>3, <2>4
    <3>2. CASE i # m
      <4>1. i \in 1 .. (m - 1) /\ i - 1 \in 0 .. (m - 1) /\ i \in 0 .. (m - 1)
        BY <3>2, <2>1
      <4> HIDE DEF f
      <4> QED BY <4>1, <2>2, <2>3 DEF RunningSum
    <3> QED BY <3>1, <3>2
  <2> HIDE DEF f
  <2>7. RunningSum(f, g, m)
    BY <2>5, <2>6 DEF RunningSum
  <2> QED BY <1>1, <2>7
<1> QED BY <1>2, <1>3

\* A function with the same recursion agrees with it.
LEMMA SumUnique ==
  ASSUME NEW n \in Nat, NEW g, NEW f, RunningSum(f, g, n),
         NEW h, h[0] = 0, \A i \in 1 .. n : h[i] = h[i - 1] + g[i]
  PROVE  \A i \in 0 .. n : h[i] = f[i]
<1> DEFINE Bad == {k \in 0 .. n : h[k] # f[k]}
<1> SUFFICES ASSUME Bad # {} PROVE FALSE
  OBVIOUS
<1>1. PICK m \in Bad : \A k \in Bad : m <= k
  <2>1. Bad \in SUBSET Nat
    OBVIOUS
  <2> HIDE DEF Bad
  <2> QED BY <2>1, LeastNumber
<1>2. m # 0
  BY <1>1 DEF RunningSum
<1>3. m - 1 \in 0 .. n /\ m - 1 \notin Bad /\ m \in 1 .. n
  BY <1>1, <1>2
<1>4. h[m - 1] = f[m - 1]
  BY <1>3
<1>5. h[m] = f[m]
  BY <1>3, <1>4 DEF RunningSum
<1> QED BY <1>1, <1>5
=============================================================================
