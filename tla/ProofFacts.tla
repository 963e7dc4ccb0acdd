----------------------------- MODULE ProofFacts ------------------------------
(***************************************************************************)
(* Facts about finite sets and natural numbers that the proofs about the   *)
(* components share.  Induction is done by least counterexample            *)
(* (LeastElement), because the provers cannot instantiate an induction     *)
(* principle for predicates.                                               *)
(***************************************************************************)
EXTENDS Integers, FiniteSets, FiniteSetsExt, FiniteSetTheorems, TLAPS

\* Counting elements one by one.
LEMMA Counting ==
  ASSUME NEW S, IsFiniteSet(S)
  PROVE  /\ Cardinality(S) \in Nat
         /\ \A x \in S : Cardinality(S) >= 1 /\ Cardinality(S \ {x}) = Cardinality(S) - 1
         /\ \A x : x \notin S => Cardinality(S \cup {x}) = Cardinality(S) + 1
         /\ \A x, y \in S : x # y => Cardinality(S) >= 2
<1>1. Cardinality(S) \in Nat
  BY FS_CardinalityType
<1>2. \A x \in S : Cardinality(S \ {x}) = Cardinality(S) - 1
  BY FS_RemoveElement
<1>3. \A x : x \notin S => Cardinality(S \cup {x}) = Cardinality(S) + 1
  BY FS_AddElement
<1>4. \A x \in S : Cardinality(S) >= 1
  BY <1>1, FS_EmptySet
<1>5. ASSUME NEW x \in S, NEW y \in S, x # y PROVE Cardinality(S) >= 2
  <2>1. IsFiniteSet(S \ {x}) /\ y \in S \ {x}
    BY <1>5, FS_RemoveElement
  <2>2. Cardinality(S \ {x}) \in Nat /\ Cardinality(S \ {x}) # 0
    BY <2>1, FS_EmptySet, FS_CardinalityType
  <2> QED BY <1>1, <1>2, <2>2
<1> QED BY <1>1, <1>2, <1>3, <1>4, <1>5

\* Every set of natural numbers has a least element.
LEMMA LeastElement ==
  ASSUME NEW T \in SUBSET Nat, T # {}
  PROVE  \E x \in T : \A y \in T : x <= y
<1> DEFINE R == OpToRel(<, Nat)
<1>1. IsWellFoundedOn(R, Nat)
  BY NatLessThanWellFounded
<1>2. \A x, y \in Nat : <<x, y>> \in R <=> x < y
  BY DEF OpToRel
<1> HIDE DEF R
<1>3. PICK x \in T : \A y \in T : ~(<<y, x>> \in R)
  BY <1>1, WFMin
<1>4. ASSUME NEW y \in T PROVE x <= y
  <2>1. x \in Nat /\ y \in Nat
    OBVIOUS
  <2>2. ~(y < x)
    BY <1>2, <1>3, <2>1
  <2> QED BY <2>1, <2>2
<1> QED BY <1>4

LEMMA MinOfSet ==
  ASSUME NEW T \in SUBSET Nat, T # {}
  PROVE  Min(T) \in T /\ \A y \in T : Min(T) <= y
BY LeastElement DEF Min

LEMMA MinOfTwo == \A a, b \in Int : Min({a, b}) = IF a <= b THEN a ELSE b
<1> SUFFICES ASSUME NEW a \in Int, NEW b \in Int PROVE Min({a, b}) = IF a <= b THEN a ELSE b
  OBVIOUS
<1>1. \E x \in {a, b} : \A y \in {a, b} : x <= y
  OBVIOUS
<1>2. Min({a, b}) \in {a, b} /\ \A y \in {a, b} : Min({a, b}) <= y
  BY <1>1 DEF Min
<1> QED BY <1>2

\* A finite family of natural numbers has an upper bound: the least number of
\* members of a family without one could be lowered.
LEMMA FamilyIsBounded ==
  \A n \in Nat : \A f \in [1..n -> Nat] : \E b \in Nat : \A i \in 1..n : f[i] <= b
<1> DEFINE Bounded(n, f) == \E b \in Nat : \A i \in 1..n : f[i] <= b
           T == {n \in Nat : \E f \in [1..n -> Nat] : ~Bounded(n, f)}
<1>1. SUFFICES T = {}
  OBVIOUS
<1>2. ASSUME T # {} PROVE FALSE
  <2>1. PICK n \in T : \A m \in T : n <= m
    BY <1>2, LeastElement
  <2>2. PICK f \in [1..n -> Nat] : ~Bounded(n, f)
    BY <2>1
  <2>a. n \in Nat
    BY <2>1
  <2> HIDE DEF T, Bounded
  <2>3. n # 0
    <3>1. n = 0 => \A i \in 1..n : f[i] <= 0
      OBVIOUS
    <3> QED BY <2>2, <3>1 DEF Bounded
  <2>4. n - 1 \in Nat /\ n - 1 \notin T
    <3>1. n - 1 \in Nat /\ ~(n <= n - 1)
      BY <2>a, <2>3
    <3> QED BY <2>1, <3>1
  <2> DEFINE g == [i \in 1..(n - 1) |-> f[i]]
  <2>5. g \in [1..(n - 1) -> Nat]
    BY <2>a, <2>2
  <2>6. PICK b \in Nat : \A i \in 1..(n - 1) : g[i] <= b
    BY <2>4, <2>5 DEF T, Bounded
  <2>7. f[n] \in Nat
    BY <2>a, <2>2, <2>3
  <2>8. PICK c \in Nat : b <= c /\ f[n] <= c
    <3>1. b + f[n] \in Nat /\ b <= b + f[n] /\ f[n] <= b + f[n]
      BY <2>6, <2>7
    <3> QED BY <3>1
  <2>9. ASSUME NEW i \in 1..n PROVE f[i] <= c
    <3>1. CASE i = n
      BY <2>8, <3>1
    <3>2. CASE i # n
      <4>1. i \in 1..(n - 1) /\ g[i] = f[i] /\ f[i] \in Nat
        BY <2>a, <2>2, <3>2
      <4> QED BY <2>6, <2>8, <4>1
    <3> QED BY <3>1, <3>2
  <2> QED BY <2>2, <2>8, <2>9 DEF Bounded
<1> QED BY <1>2

\* Finite sets of natural numbers have a greatest element.
LEMMA MaxOfSet ==
  ASSUME NEW S \in SUBSET Nat, S # {}, IsFiniteSet(S)
  PROVE  Max(S) \in S /\ \A y \in S : y <= Max(S)
<1>1. PICK n \in Nat : ExistsSurjection(1..n, S)
  BY FS_NatSurjection
<1>2. PICK f \in [1..n -> S] : \A y \in S : \E i \in 1..n : f[i] = y
  BY <1>1 DEF ExistsSurjection, Surjection
<1>3. f \in [1..n -> Nat]
  BY <1>2
<1>4. PICK b \in Nat : \A i \in 1..n : f[i] <= b
  BY <1>3, FamilyIsBounded
<1>5. \A y \in S : y <= b
  BY <1>2, <1>4
<1> DEFINE U == {u \in Nat : \A y \in S : y <= u}
<1>6. PICK u \in U : \A w \in U : u <= w
  <2>1. b \in U
    BY <1>5
  <2> QED BY <2>1, LeastElement
<1>7. u \in S
  <2> SUFFICES ASSUME u \notin S PROVE FALSE
    OBVIOUS
  <2>1. \A y \in S : y \in Nat /\ y < u
    BY <1>6
  <2>2. u - 1 \in Nat
    <3>1. PICK y \in S : TRUE
      OBVIOUS
    <3>2. u \in Nat
      BY <1>6
    <3> QED BY <2>1, <3>1, <3>2
  <2>3. u - 1 \in U
    BY <1>6, <2>1, <2>2
  <2> QED BY <1>6, <2>3
<1>8. \E x \in S : \A y \in S : x >= y
  BY <1>6, <1>7
<1> QED BY <1>8 DEF Max


\* What shows that a number is the greatest or the least of a set.
LEMMA MaxIs ==
  ASSUME NEW S \in SUBSET Int, NEW x \in S, \A y \in S : y <= x
  PROVE  Max(S) = x
<1>1. Max(S) \in S /\ \A y \in S : Max(S) >= y
  <2>1. \E z \in S : \A y \in S : z >= y
    OBVIOUS
  <2> QED BY <2>1 DEF Max
<1>2. Max(S) >= x /\ Max(S) <= x /\ Max(S) \in Int /\ x \in Int
  BY <1>1
<1> QED BY <1>2

LEMMA MinIs ==
  ASSUME NEW S \in SUBSET Int, NEW x \in S, \A y \in S : x <= y
  PROVE  Min(S) = x
<1>1. Min(S) \in S /\ \A y \in S : Min(S) <= y
  <2>1. \E z \in S : \A y \in S : z <= y
    OBVIOUS
  <2> QED BY <2>1 DEF Min
<1>2. Min(S) >= x /\ Min(S) <= x /\ Min(S) \in Int /\ x \in Int
  BY <1>1
<1> QED BY <1>2

\* The elements of a finite set of numbers are told apart by how many lie below
\* them, and these counts are 0, 1, ... without a gap.
LEMMA Ranks ==
  ASSUME NEW S \in SUBSET Nat, IsFiniteSet(S)
  PROVE  /\ \A x \in S : Cardinality({a \in S : a < x}) \in 0 .. Cardinality(S) - 1
         /\ \A x, y \in S : x < y =>
              Cardinality({a \in S : a < x}) < Cardinality({a \in S : a < y})
         /\ \A x, y \in S :
              Cardinality({a \in S : a < x}) = Cardinality({a \in S : a < y}) => x = y
         /\ \A k \in 0 .. Cardinality(S) - 1 : \E x \in S : Cardinality({a \in S : a < x}) = k
<1> DEFINE L(x) == {a \in S : a < x}
           m == Cardinality(S)
<1>0. m \in Nat /\ \A a \in S : a \in Nat
  BY Counting
<1>1. \A x : L(x) \in SUBSET S /\ IsFiniteSet(L(x)) /\ Cardinality(L(x)) \in Nat
  <2> SUFFICES ASSUME NEW x PROVE L(x) \in SUBSET S /\ IsFiniteSet(L(x)) /\ Cardinality(L(x)) \in Nat
    OBVIOUS
  <2>1. L(x) \in SUBSET S
    OBVIOUS
  <2>2. IsFiniteSet(L(x))
    BY <2>1, FS_Subset
  <2> QED BY <2>1, <2>2, FS_CardinalityType
<1>2. ASSUME NEW x \in S, NEW T \in SUBSET S, L(x) \cup {x} \subseteq T
      PROVE  Cardinality(L(x)) + 1 <= Cardinality(T) /\ Cardinality(T) \in Nat
  <2>1. x \notin L(x)
    BY <1>0
  <2>2. Cardinality(L(x) \cup {x}) = Cardinality(L(x)) + 1
    BY <1>1, <2>1, Counting
  <2>3. IsFiniteSet(T)
    BY FS_Subset
  <2>4. Cardinality(L(x) \cup {x}) <= Cardinality(T)
    BY <1>2, <2>3, FS_Subset
  <2> QED BY <2>2, <2>3, <2>4, FS_CardinalityType
<1>3. ASSUME NEW x \in S PROVE Cardinality(L(x)) \in 0 .. m - 1
  <2>1. L(x) \cup {x} \subseteq S
    OBVIOUS
  <2>2. Cardinality(L(x)) + 1 <= m
    BY <1>2, <2>1
  <2>3. Cardinality(L(x)) \in Nat
    BY <1>1
  <2> HIDE DEF m
  <2> QED BY ONLY <1>0, <2>2, <2>3
<1>4. ASSUME NEW x \in S, NEW y \in S, x < y PROVE Cardinality(L(x)) < Cardinality(L(y))
  <2>1. L(x) \cup {x} \subseteq L(y) /\ L(y) \in SUBSET S
    <3>1. \A a \in S : a < x => a < y
      <4> TAKE a \in S
      <4>1. a \in Nat /\ x \in Nat /\ y \in Nat
        BY <1>0
      <4> QED BY <1>4, <4>1
    <3>2. L(x) \subseteq L(y)
      BY <3>1
    <3>3. x \in L(y)
      BY <1>4
    <3> QED BY <3>2, <3>3
  <2>2. Cardinality(L(x)) + 1 <= Cardinality(L(y))
    BY <1>2, <2>1
  <2>3. Cardinality(L(x)) \in Nat /\ Cardinality(L(y)) \in Nat
    BY <1>1
  <2> QED BY ONLY <2>2, <2>3
<1>5. ASSUME NEW x \in S, NEW y \in S, x # y PROVE Cardinality(L(x)) # Cardinality(L(y))
  <2>1. x < y \/ y < x
    BY <1>0, <1>5
  <2>2. Cardinality(L(x)) \in Nat /\ Cardinality(L(y)) \in Nat
    BY <1>1
  <2>3. Cardinality(L(x)) < Cardinality(L(y)) \/ Cardinality(L(y)) < Cardinality(L(x))
    BY <1>4, <2>1
  <2> QED BY ONLY <2>2, <2>3
<1>6. \A k \in 0 .. m - 1 : \E x \in S : Cardinality(L(x)) = k
  <2> DEFINE f == [x \in S |-> Cardinality(L(x))]
             T == 0 .. m - 1
  <2>1. f \in [S -> T]
    BY <1>3
  <2>2. \A x, y \in S : f[x] = f[y] => x = y
    BY <1>5
  <2>3. IsFiniteSet(T) /\ Cardinality(T) = m
    <3> HIDE DEF m
    <3>1. 0 \in Int /\ m - 1 \in Int
      BY <1>0
    <3>2. IsFiniteSet(T) /\ Cardinality(T) = IF 0 > m - 1 THEN 0 ELSE (m - 1) - 0 + 1
      BY <3>1, FS_Interval
    <3> QED BY <1>0, <3>2
  <2> HIDE DEF f, T
  <2>4. f \in Injection(S, T)
    BY <2>1, <2>2 DEF Injection, IsInjective
  <2>5. f \in Surjection(S, T)
    BY <2>3, <2>4, FS_Injection
  <2>6. \A k \in T : \E x \in S : f[x] = k
    BY <2>5 DEF Surjection
  <2> QED BY <2>6 DEF f, T
<1> QED BY <1>3, <1>4, <1>5, <1>6

\* Moving a finite set of numbers keeps its size.
LEMMA ShiftedSet ==
  ASSUME NEW T \in SUBSET Nat, IsFiniteSet(T), NEW k \in Nat
  PROVE  IsFiniteSet({a + k : a \in T}) /\ Cardinality({a + k : a \in T}) = Cardinality(T)
<1> DEFINE R == {a + k : a \in T}
           f == [a \in T |-> a + k]
<1>1. f \in [T -> R] /\ \A a, b \in T : f[a] = f[b] => a = b
  OBVIOUS
<1>2. \A y \in R : \E a \in T : f[a] = y
  OBVIOUS
<1> HIDE DEF f, R
<1>3. f \in Surjection(T, R)
  BY <1>1, <1>2 DEF Surjection
<1>4. f \in Injection(T, R)
  BY <1>1 DEF Injection, IsInjective
<1> QED BY <1>3, <1>4, FS_Surjection DEF R

=============================================================================
