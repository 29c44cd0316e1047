------------------------------ MODULE DataLemmas ------------------------------
(***************************************************************************)
(* Facts about naturals, finite sets and sequences that the proofs of      *)
(* several components rest on, the helpers of the community modules among  *)
(* them.  Minimal elements replace induction: what holds of every smaller  *)
(* number is used where it would first fail.                               *)
(***************************************************************************)
EXTENDS Integers, Sequences, FiniteSetsExt, FiniteSetTheorems,
  WellFoundedInduction, TLAPS

-----------------------------------------------------------------------------
(* Naturals                                                                *)

\* The order of the naturals as a set of pairs.
Below == {p \in Nat \X Nat : p[1] < p[2]}

LEMMA BelowWellFounded ==
  /\ IsWellFoundedOn(Below, Nat)
  /\ \A x, y \in Nat : <<x, y>> \in Below <=> x < y
<1>1. OpToRel(<, Nat) = {ss \in Nat \X Nat : ss[1] < ss[2]}
  BY Zenon DEF OpToRel
<1>2. IsWellFoundedOn(Below, Nat)
  BY <1>1, NatLessThanWellFounded, Zenon DEF Below
<1>3. ASSUME NEW x \in Nat, NEW y \in Nat PROVE <<x, y>> \in Below <=> x < y
  <2>1. <<x, y>>[1] = x /\ <<x, y>>[2] = y
    OBVIOUS
  <2>2. QED
    BY <2>1, Zenon DEF Below
<1>4. QED
  BY <1>2, <1>3

\* A set of naturals that is not empty has a least element.
LEMMA LeastExists ==
  ASSUME NEW S \in SUBSET Nat, S # {}
  PROVE  \E x \in S : \A y \in S : x <= y
<1>1. IsWellFoundedOn(Below, Nat)
  BY BelowWellFounded
<1>2. PICK x \in S : \A y \in S : ~(<<y, x>> \in Below)
  BY <1>1, WFMin, Zenon
<1>3. \A y \in S : ~(y < x)
  BY <1>2, BelowWellFounded, Zenon
<1>4. QED
  BY <1>3

\* Min is that element.
LEMMA MinIsLeast ==
  ASSUME NEW S \in SUBSET Nat, S # {}
  PROVE  Min(S) \in S /\ \A y \in S : Min(S) <= y
BY LeastExists, Zenon DEF Min

-----------------------------------------------------------------------------
(* Finite sets                                                             *)

\* One element more, one element less.
LEMMA OneMore ==
  ASSUME NEW S, NEW x, IsFiniteSet(S), x \notin S
  PROVE  IsFiniteSet(S \cup {x}) /\ Cardinality(S \cup {x}) = Cardinality(S) + 1
BY FS_AddElement

LEMMA OneLess ==
  ASSUME NEW S, NEW x \in S, IsFiniteSet(S)
  PROVE  IsFiniteSet(S \ {x}) /\ Cardinality(S \ {x}) = Cardinality(S) - 1
BY FS_RemoveElement

\* A finite set has a natural number of elements, none if it is empty.
LEMMA CardinalityFacts ==
  ASSUME NEW S, IsFiniteSet(S)
  PROVE  Cardinality(S) \in Nat /\ (Cardinality(S) = 0 <=> S = {})
BY FS_CardinalityType, FS_EmptySet

LEMMA EmptyIsFinite == IsFiniteSet({}) /\ Cardinality({}) = 0
BY FS_EmptySet

LEMMA SubsetIsFinite ==
  ASSUME NEW S, NEW T \in SUBSET S, IsFiniteSet(S)
  PROVE  IsFiniteSet(T) /\ Cardinality(T) <= Cardinality(S)
BY FS_Subset

\* Finitely many naturals have an upper bound.
LEMMA FiniteIsBounded ==
  ASSUME NEW S, IsFiniteSet(S), NEW f \in [S -> Nat]
  PROVE  \E n \in Nat : \A x \in S : f[x] <= n
<1> DEFINE Bounded(T) == \E n \in Nat : \A x \in T : f[x] <= n
           Bad == {k \in Nat : \E T \in SUBSET S : Cardinality(T) = k /\ ~Bounded(T)}
<1> SUFFICES ASSUME ~Bounded(S) PROVE FALSE
  OBVIOUS
<1>1. Bad # {}
  <2>1. Cardinality(S) \in Nat
    BY CardinalityFacts
  <2>2. QED
    BY <2>1
<1>2. PICK k \in Bad : \A m \in Bad : k <= m
  BY <1>1, LeastExists
<1>3. PICK T \in SUBSET S : Cardinality(T) = k /\ ~Bounded(T)
  BY <1>2
<1>4. IsFiniteSet(T)
  BY SubsetIsFinite
<1>5. PICK y \in T : TRUE
  BY <1>3
<1> DEFINE U == T \ {y}
<1>6. U \in SUBSET S /\ Cardinality(U) = k - 1 /\ k - 1 \in Nat
  <2>1. IsFiniteSet(U) /\ Cardinality(U) = k - 1
    BY <1>3, <1>4, <1>5, OneLess
  <2>2. Cardinality(U) \in Nat
    BY <2>1, CardinalityFacts
  <2>3. QED
    BY <2>1, <2>2
<1>7. Bounded(U)
  <2>1. k - 1 \notin Bad
    BY <1>2, <1>6
  <2>2. QED
    BY <1>6, <2>1
<1>8. PICK n \in Nat : \A x \in U : f[x] <= n
  BY <1>7
<1>9. Bounded(T)
  <2> DEFINE m == IF f[y] <= n THEN n ELSE f[y]
  <2>1. f[y] \in Nat /\ m \in Nat /\ n <= m /\ f[y] <= m
    BY <1>5, <1>8
  <2>2. \A x \in T : f[x] <= m
    <3> HIDE DEF m
    <3>1. QED
      BY <1>8, <2>1
  <2>3. QED
    BY <2>1, <2>2
<1>10. QED
  BY <1>3, <1>9

\* A bounded set of naturals that is not empty has a greatest element.
LEMMA GreatestExists ==
  ASSUME NEW S \in SUBSET Nat, S # {}, NEW n \in Nat, \A x \in S : x <= n
  PROVE  \E x \in S : \A y \in S : y <= x
<1> DEFINE T == {n - x : x \in S}
<1>1. T \in SUBSET Nat /\ T # {}
  <2>1. \A x \in S : n - x \in Nat
    OBVIOUS
  <2>2. QED
    BY <2>1
<1>2. PICK t \in T : \A u \in T : t <= u
  BY <1>1, LeastExists
<1>3. PICK x \in S : t = n - x
  BY <1>2
<1>4. ASSUME NEW y \in S PROVE y <= x
  <2>1. n - y \in T
    OBVIOUS
  <2>2. n - x <= n - y
    BY <1>2, <1>3, <2>1
  <2>3. QED
    BY <2>2
<1>5. QED
  BY <1>4

\* Max is that element.
LEMMA MaxIsGreatest ==
  ASSUME NEW S \in SUBSET Nat, S # {}, NEW n \in Nat, \A x \in S : x <= n
  PROVE  Max(S) \in S /\ \A y \in S : y <= Max(S)
<1>1. PICK x \in S : \A y \in S : y <= x
  BY GreatestExists
<1>2. \A y \in S : x >= y
  BY <1>1
<1>3. Max(S) \in S /\ \A y \in S : Max(S) >= y
  BY <1>2, Zenon DEF Max
<1>4. QED
  BY <1>3
=============================================================================
