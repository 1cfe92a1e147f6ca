----------------------------- MODULE LeastElements -----------------------------
(***************************************************************************)
(* Induction over the naturals, in a form without operator parameters, and *)
(* least and greatest elements of sets of naturals.  The provers cannot    *)
(* instantiate the induction theorems of the library; here the property is *)
(* a set.                                                                  *)
(***************************************************************************)
EXTENDS Integers, FiniteSets, FiniteSetTheorems, TLAPS

\* A set of naturals has a least element: of the intervals 0 .. n of its
\* members, one holds none of the others properly.
LEMMA LeastNumber ==
    ASSUME NEW T \in SUBSET Nat, T # {}
    PROVE  \E m \in T : \A n \in T : m <= n
<1> DEFINE R == StrictSubsetOrdering(Nat)
           I == {0 .. n : n \in T}
<1>1. I \subseteq FiniteSubsetsOf(Nat)
  <2> SUFFICES ASSUME NEW n \in T PROVE 0 .. n \in SUBSET Nat /\ IsFiniteSet(0 .. n)
    BY DEF FiniteSubsetsOf
  <2> QED BY FS_Interval
<1>2. I # {}
  OBVIOUS
<1>3. \E x \in I : \A y \in I : <<y, x>> \notin R
  <2> HIDE DEF R, I
  <2>1. IsWellFoundedOn(R, FiniteSubsetsOf(Nat))
    BY FS_StrictSubsetOrderingWellFounded DEF R
  <2> QED BY <1>1, <1>2, <2>1, WFMin
<1>4. PICK m \in T : \A n \in T : <<0 .. n, 0 .. m>> \notin R
  BY <1>3
<1>5. ASSUME NEW n \in T, n < m PROVE FALSE
  <2> DEFINE A == 0 .. n
             B == 0 .. m
  <2>1. A \in SUBSET Nat /\ B \in SUBSET Nat
    OBVIOUS
  <2>2. A \subseteq B /\ m \in B /\ m \notin A
    BY <1>5
  <2>3. <<A, B>> \in R
    <3> HIDE DEF A, B
    <3> QED BY <2>1, <2>2 DEF StrictSubsetOrdering
  <2> QED BY <2>3, <1>4
<1> QED BY <1>5

\* Induction: a set that holds zero and successors holds every natural.
LEMMA InductionOverSet ==
    ASSUME NEW S, 0 \in S, \A n \in Nat : n \in S => n + 1 \in S
    PROVE  Nat \subseteq S
<1> SUFFICES ASSUME Nat \ S # {} PROVE FALSE
  OBVIOUS
<1>1. PICK m \in Nat \ S : \A n \in Nat \ S : m <= n
  BY LeastNumber
<1>2. m - 1 \in Nat /\ m - 1 \in S
  BY <1>1
<1> QED BY <1>1, <1>2

\* So does a nonempty set of naturals with a bound.
LEMMA GreatestNumber ==
    ASSUME NEW b \in Nat, NEW T \in SUBSET (0 .. b), T # {}
    PROVE  \E m \in T : \A n \in T : n <= m
<1> DEFINE D == {n \in Nat : n <= b /\ b - n \in T}
<1>1. PICK n \in T : TRUE
  OBVIOUS
<1>2. b - n \in D
  OBVIOUS
<1>3. PICK d \in D : \A e \in D : d <= e
  BY <1>2, LeastNumber
<1>4. ASSUME NEW j \in T PROVE j <= b - d
  <2>1. b - j \in D
    OBVIOUS
  <2> QED BY <1>3, <2>1
<1> QED BY <1>3, <1>4

-----------------------------------------------------------------------------
(* Ranks. *)

TotallyOrders(R, S) ==
    /\ \A x \in S : <<x, x>> \notin R
    /\ \A x, y, z \in S : <<x, y>> \in R /\ <<y, z>> \in R => <<x, z>> \in R
    /\ \A x, y \in S : x = y \/ <<x, y>> \in R \/ <<y, x>> \in R

\* How many elements of S come before each one.
Ranks(R, S) == [x \in S |-> Cardinality({y \in S : <<y, x>> \in R})]

\* Ranks number the elements of a finite set from zero, in their order.
LEMMA RanksNumber ==
    ASSUME NEW S, IsFiniteSet(S), NEW R, TotallyOrders(R, S),
           NEW rank, rank = Ranks(R, S)
    PROVE  /\ Cardinality(S) \in Nat
           /\ \A x \in S : rank[x] \in 0 .. Cardinality(S) - 1
           /\ \A x, y \in S : <<x, y>> \in R => rank[x] < rank[y]
           /\ \A x, y \in S : rank[x] = rank[y] => x = y
           /\ \A n \in 0 .. Cardinality(S) - 1 : \E x \in S : rank[x] = n
<1> DEFINE Before(x) == {y \in S : <<y, x>> \in R}
           m == Cardinality(S)
<1>1. m \in Nat
  BY FS_CardinalityType
<1>2. ASSUME NEW x \in S
      PROVE  /\ IsFiniteSet(Before(x)) /\ Cardinality(Before(x)) \in Nat
             /\ x \notin Before(x) /\ Before(x) \subseteq S
             /\ IsFiniteSet(Before(x) \cup {x})
             /\ Cardinality(Before(x) \cup {x}) = Cardinality(Before(x)) + 1
  <2>1. Before(x) \subseteq S /\ x \notin Before(x)
    BY DEF TotallyOrders
  <2> HIDE DEF Before
  <2>2. IsFiniteSet(Before(x))
    BY <2>1, FS_Subset
  <2> QED BY <2>1, <2>2, FS_CardinalityType, FS_AddElement
<1>3. \A x \in S : rank[x] = Cardinality(Before(x))
  BY DEF Ranks
<1>4. ASSUME NEW x \in S PROVE rank[x] \in 0 .. m - 1
  <2>1. Before(x) \cup {x} \subseteq S
    BY <1>2
  <2> HIDE DEF Before
  <2>2. Cardinality(Before(x) \cup {x}) <= m
    BY <2>1, FS_Subset
  <2>3. PICK c : c = Cardinality(Before(x))
    OBVIOUS
  <2>4. c \in Nat /\ c + 1 <= m /\ rank[x] = c
    BY <1>2, <1>3, <2>2, <2>3
  <2> QED BY <1>1, <2>4
<1>5. ASSUME NEW x \in S, NEW y \in S, <<x, y>> \in R PROVE rank[x] < rank[y]
  <2>1. Before(x) \cup {x} \subseteq Before(y)
    BY <1>5 DEF TotallyOrders
  <2> HIDE DEF Before
  <2>2. Cardinality(Before(x) \cup {x}) <= Cardinality(Before(y))
    BY <1>2, <2>1, FS_Subset
  <2>3. PICK c, d : c = Cardinality(Before(x)) /\ d = Cardinality(Before(y))
    OBVIOUS
  <2>4. c \in Nat /\ d \in Nat /\ c + 1 <= d /\ rank[x] = c /\ rank[y] = d
    BY <1>2, <1>3, <2>2, <2>3
  <2> QED BY <2>4
<1>6. ASSUME NEW x \in S, NEW y \in S, rank[x] = rank[y] PROVE x = y
  <2>1. rank[x] \in Int /\ rank[y] \in Int
    BY <1>1, <1>4
  <2>2. ~(rank[x] < rank[y]) /\ ~(rank[y] < rank[x])
    BY <1>6, <2>1
  <2>3. <<x, y>> \notin R /\ <<y, x>> \notin R
    BY <1>5, <2>2
  <2> QED BY <2>3 DEF TotallyOrders
<1>7. ASSUME NEW n \in 0 .. m - 1 PROVE \E x \in S : rank[x] = n
  <2> DEFINE T == 0 .. m - 1
  <2>1. IsFiniteSet(T) /\ Cardinality(T) = m
    <3>1. 0 \in Int /\ m - 1 \in Int /\ (0 > m - 1 <=> m = 0)
      BY <1>1
    <3>2. IsFiniteSet(T) /\ Cardinality(T) = IF 0 > m - 1 THEN 0 ELSE (m - 1) - 0 + 1
      BY <3>1, FS_Interval
    <3> QED BY <1>1, <3>1, <3>2
  <2> HIDE DEF T
  <2>2. rank \in [S -> T]
    <3>1. \A x \in S : rank[x] \in T
      BY <1>4 DEF T
    <3> QED BY <3>1 DEF Ranks
  <2>3. rank \in Injection(S, T)
    BY <1>6, <2>2 DEF Injection, IsInjective
  <2>4. rank \in Surjection(S, T)
    BY <2>1, <2>3, FS_Injection
  <2>5. n \in T
    BY DEF T
  <2> QED BY <2>4, <2>5 DEF Surjection
<1> QED BY <1>1, <1>4, <1>5, <1>6, <1>7
=============================================================================
