---------------------------- MODULE NumberLemmas ----------------------------
(***************************************************************************)
(* Facts about sets of numbers that several proofs need.  That a set of    *)
(* naturals has a least element stands in for induction: what holds for    *)
(* every number has no least counterexample.                               *)
(***************************************************************************)
EXTENDS Integers, FiniteSets, FiniteSetsExt, FiniteSetTheorems, WellFoundedInduction, TLAPS

\* A set of naturals that is not empty has a least element.
LEMMA LeastNumber ==
    ASSUME NEW T \in SUBSET Nat, T # {}
    PROVE  \E m \in T : \A n \in T : m <= n
<1> DEFINE R == {ss \in Nat \X Nat : ss[1] < ss[2]}
<1>1. IsWellFoundedOn(R, Nat)
  BY NatLessThanWellFounded DEF OpToRel
<1>2. PICK m \in T : \A n \in T : ~(<<n, m>> \in R)
  <2> HIDE DEF R
  <2> QED BY <1>1, WFMin
<1>3. ASSUME NEW n \in T PROVE m <= n
  <2>1. n \in Nat /\ m \in Nat
    OBVIOUS
  <2>2. ~(<<n, m>> \in R)
    BY <1>2
  <2>3. n < m => <<n, m>> \in R
    BY <2>1
  <2> QED BY <2>1, <2>2, <2>3
<1> QED BY <1>3

\* A bounded one has a greatest element, which is what Max chooses.
LEMMA GreatestNumber ==
    ASSUME NEW b \in Nat, NEW T \in SUBSET (0..b), T # {}
    PROVE  Max(T) \in T /\ \A n \in T : n <= Max(T)
<1> DEFINE U == {d \in Nat : b - d \in T}
<1>1. U \in SUBSET Nat /\ U # {}
  <2>1. PICK n : n \in T
    OBVIOUS
  <2>2. n \in 0..b
    BY <2>1
  <2>3. b - n \in Nat /\ b - (b - n) = n
    BY <2>2
  <2>4. b - n \in U
    BY <2>1, <2>3
  <2> QED BY <2>4
<1>2. PICK d \in U : \A e \in U : d <= e
  <2> HIDE DEF U
  <2> QED BY <1>1, LeastNumber
<1>3. b - d \in T
  BY <1>2
<1>4. ASSUME NEW n \in T PROVE b - d >= n
  <2>1. n \in 0..b
    OBVIOUS
  <2>2. b - n \in Nat /\ b - (b - n) = n
    BY <2>1
  <2>3. b - n \in U
    BY <2>2
  <2>4. d <= b - n /\ d \in Nat
    BY <1>2, <2>3
  <2> QED BY <2>1, <2>4
<1>5. \E x \in T : \A y \in T : x >= y
  BY <1>3, <1>4
<1>6. Max(T) \in T /\ \A y \in T : Max(T) >= y
  BY <1>5, Zenon DEF Max
<1>7. T \subseteq Int
  OBVIOUS
<1> QED BY <1>6, <1>7

LEMMA MaxOfTwo ==
    ASSUME NEW a \in Int, NEW b \in Int
    PROVE  Max({a, b}) = IF a >= b THEN a ELSE b
<1> DEFINE m == IF a >= b THEN a ELSE b
<1>1. m \in {a, b} /\ \A y \in {a, b} : m >= y
  OBVIOUS
<1>2. Max({a, b}) \in {a, b} /\ \A y \in {a, b} : Max({a, b}) >= y
  <2> HIDE DEF m
  <2> QED BY <1>1, Zenon DEF Max
<1> QED BY <1>2

LEMMA MinOfTwo ==
    ASSUME NEW a \in Int, NEW b \in Int
    PROVE  Min({a, b}) = IF a <= b THEN a ELSE b
<1> DEFINE m == IF a <= b THEN a ELSE b
<1>1. m \in {a, b} /\ \A y \in {a, b} : m <= y
  OBVIOUS
<1>2. Min({a, b}) \in {a, b} /\ \A y \in {a, b} : Min({a, b}) <= y
  <2> HIDE DEF m
  <2> QED BY <1>1, Zenon DEF Min
<1> QED BY <1>2

-----------------------------------------------------------------------------
(* Counting the members of a set of positions.                             *)

Count(S, n) == Cardinality({m \in S : m <= n})

\* The count starts at 0 and goes up by one at each member.
LEMMA CountStep ==
    ASSUME NEW b \in Nat, NEW S \in SUBSET (1..b), NEW n \in Nat
    PROVE  /\ Count(S, n) \in Nat
           /\ Count(S, 0) = 0
           /\ Count(S, n + 1) = IF n + 1 \in S THEN Count(S, n) + 1 ELSE Count(S, n)
<1>0. \A m \in S : m \in Nat /\ 1 <= m /\ m <= b
  OBVIOUS
<1>1. IsFiniteSet(S)
  <2>1. IsFiniteSet(1..b)
    BY FS_Interval
  <2> QED BY <2>1, FS_Subset
<1> DEFINE A == {m \in S : m <= n}
<1>2. IsFiniteSet(A) /\ Cardinality(A) \in Nat
  <2>1. A \in SUBSET S
    OBVIOUS
  <2> HIDE DEF A
  <2> QED BY <1>1, <2>1, FS_Subset, FS_CardinalityType
<1>3. {m \in S : m <= 0} = {}
  <2>1. \A m \in S : ~(m <= 0)
    BY <1>0
  <2> QED BY <2>1
<1>4. {m \in S : m <= n + 1} = IF n + 1 \in S THEN A \cup {n + 1} ELSE A
  <2>1. \A m \in S : m <= n + 1 <=> m <= n \/ m = n + 1
    BY <1>0
  <2> QED BY <2>1
<1>5. n + 1 \notin A
  OBVIOUS
<1>6. Cardinality(A \cup {n + 1}) = Cardinality(A) + 1
  <2> HIDE DEF A
  <2> QED BY <1>2, <1>5, FS_AddElement
<1> QED BY <1>2, <1>3, <1>4, <1>6, FS_EmptySet DEF Count

\* It never goes down, and is larger after a member.
LEMMA CountGrows ==
    ASSUME NEW b \in Nat, NEW S \in SUBSET (1..b), NEW n \in Nat, NEW p \in Nat, n <= p
    PROVE  /\ Count(S, n) <= Count(S, p)
           /\ n < p /\ p \in S => Count(S, n) < Count(S, p)
<1>0. \A m \in S : m \in Nat /\ 1 <= m /\ m <= b
  OBVIOUS
<1>1. IsFiniteSet(S)
  <2>1. IsFiniteSet(1..b)
    BY FS_Interval
  <2> QED BY <2>1, FS_Subset
<1> DEFINE A == {m \in S : m <= n}
           B == {m \in S : m <= p}
<1>2. A \in SUBSET B /\ IsFiniteSet(B) /\ IsFiniteSet(A)
  <2>0. \A m \in S : m <= n => m <= p
    BY <1>0
  <2>1. A \in SUBSET S /\ B \in SUBSET S /\ A \subseteq B
    BY <2>0
  <2> HIDE DEF A, B
  <2> QED BY <1>1, <2>1, FS_Subset
<1>3. n < p /\ p \in S => p \in B /\ p \notin A
  OBVIOUS
<1>4. Cardinality(A) \in Nat /\ Cardinality(B) \in Nat
  BY <1>2, FS_CardinalityType
<1>5. Cardinality(A) <= Cardinality(B) /\ (Cardinality(B) = Cardinality(A) => A = B)
  <2> HIDE DEF A, B
  <2> QED BY <1>2, FS_Subset
<1> QED BY <1>3, <1>4, <1>5 DEF Count

LEMMA CountAll ==
    ASSUME NEW b \in Nat, NEW S \in SUBSET (1..b)
    PROVE  Count(S, b) = Cardinality(S)
<1>1. \A m \in S : m <= b
  OBVIOUS
<1>2. {m \in S : m <= b} = S
  BY <1>1
<1> QED BY <1>2 DEF Count

\* The k-th member exists.
LEMMA KthMember ==
    ASSUME NEW b \in Nat, NEW S \in SUBSET (1..b), NEW k \in 0..Cardinality(S)
    PROVE  \E n \in 0..b : Count(S, n) = k /\ (n = 0 \/ n \in S)
<1> DEFINE T == {n \in 0..b : Count(S, n) >= k}
<1>0. Count(S, b) \in Nat /\ Count(S, b) = Cardinality(S) /\ b \in 0..b
  <2>1. Count(S, b) \in Nat
    BY CountStep
  <2>2. Count(S, b) = Cardinality(S)
    BY CountAll
  <2> QED BY <2>1, <2>2
<1>1. b \in T
  BY <1>0
<1>2. PICK n \in T : \A m \in T : n <= m
  <2>1. T \in SUBSET Nat /\ T # {}
    BY <1>1
  <2> HIDE DEF T
  <2> QED BY <2>1, LeastNumber
<1>3. n \in 0..b /\ n \in Nat /\ Count(S, n) >= k
  OBVIOUS
<1>4. CASE n = 0
  <2>1. Count(S, 0) = 0
    BY CountStep
  <2>2. Count(S, n) = k /\ k \in Nat
    BY <1>0, <1>3, <1>4, <2>1
  <2> QED BY <1>3, <1>4, <2>2
<1>5. CASE n # 0
  <2>1. n - 1 \in 0..b /\ n - 1 \in Nat /\ (n - 1) + 1 = n /\ ~(n <= n - 1)
    BY <1>3, <1>5
  <2>2. n - 1 \notin T
    BY <1>2, <2>1
  <2>3. Count(S, n - 1) \in Nat
    BY <2>1, CountStep
  <2>4. Count(S, n - 1) < k
    BY <1>0, <2>1, <2>2, <2>3
  <2>5. Count(S, n) = IF n \in S THEN Count(S, n - 1) + 1 ELSE Count(S, n - 1)
    <3> DEFINE q == n - 1
    <3>1. q \in Nat /\ q + 1 = n
      BY <2>1
    <3> HIDE DEF q
    <3>2. Count(S, q + 1) = IF q + 1 \in S THEN Count(S, q) + 1 ELSE Count(S, q)
      BY <3>1, CountStep
    <3>3. Count(S, n) = IF n \in S THEN Count(S, q) + 1 ELSE Count(S, q)
      BY <3>1, <3>2
    <3> QED BY <3>3 DEF q
  <2>6. k \in Nat
    BY <1>0
  <2>7. Count(S, n) = k /\ n \in S
    <3> HIDE DEF T
    <3> QED BY <1>3, <2>3, <2>4, <2>5, <2>6
  <2> QED BY <1>3, <2>7
<1> QED BY <1>4, <1>5
=============================================================================
