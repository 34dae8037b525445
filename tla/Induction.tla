------------------------------- MODULE Induction -------------------------------
(***************************************************************************)
(* Induction over the naturals and over finite sets, stated for a set of   *)
(* good values instead of a predicate, so that it can be cited: a smallest *)
(* value that is not good would contradict the step.                       *)
(***************************************************************************)
EXTENDS Integers, FiniteSetTheorems, WellFoundedInduction, TLAPS

\* A set of naturals that is not empty has a least element.
LEMMA LeastExists ==
  ASSUME NEW T \in SUBSET Nat, T # {}
  PROVE  \E i \in T : \A j \in T : i <= j
<1> DEFINE Less == {pair \in Nat \X Nat : pair[1] < pair[2]}
<1>1. IsWellFoundedOn(Less, Nat)
  BY NatLessThanWellFounded, Zenon DEF OpToRel
<1> HIDE DEF Less
<1>2. PICK i \in T : \A j \in T : ~ (<<j, i>> \in Less)
  BY <1>1, WFMin
<1>3. ASSUME NEW j \in T PROVE i <= j
  <2>1. ~ (<<j, i>> \in Nat \X Nat /\ j < i)
    BY <1>2 DEF Less
  <2> QED
    BY <2>1, SMT
<1> QED
  BY <1>3

\* A set that holds 0, and each natural up to n whose predecessor it holds,
\* holds every natural up to n.
LEMMA UpTo ==
  ASSUME NEW n \in Nat, NEW Good, 0 \in Good,
         \A i \in 1 .. n : i - 1 \in Good => i \in Good
  PROVE  \A i \in 0 .. n : i \in Good
<1> DEFINE Bad == {i \in 0 .. n : i \notin Good}
<1> SUFFICES ASSUME Bad # {} PROVE FALSE
  OBVIOUS
<1>1. PICK i \in Bad : \A j \in Bad : i <= j
  <2>1. Bad \in SUBSET Nat
    OBVIOUS
  <2> HIDE DEF Bad
  <2> QED
    BY <2>1, LeastExists
<1>2. i \in 1 .. n
  OBVIOUS
<1>3. i - 1 \in Bad
  BY <1>2
<1> QED
  BY <1>1, <1>2, <1>3

\* A collection that holds the empty set, and each other subset of a finite set
\* S if it holds it without a certain element, holds S.
LEMMA ByElements ==
  ASSUME NEW S, IsFiniteSet(S), NEW Good, {} \in Good,
         \A T \in SUBSET S : T # {} => \E x \in T : T \ {x} \in Good => T \in Good
  PROVE  S \in Good
<1> DEFINE n == Cardinality(S)
<1> DEFINE Levels == {k \in 0 .. n : \A T \in SUBSET S : Cardinality(T) = k => T \in Good}
<1>1. n \in Nat
  BY FS_CardinalityType
<1>2. \A T \in SUBSET S : IsFiniteSet(T) /\ Cardinality(T) \in 0 .. n
  BY <1>1, FS_Subset, FS_CardinalityType
<1>3. 0 \in Levels
  BY <1>1, <1>2, FS_EmptySet
<1>4. ASSUME NEW k \in 1 .. n, k - 1 \in Levels PROVE k \in Levels
  <2> SUFFICES ASSUME NEW T \in SUBSET S, Cardinality(T) = k PROVE T \in Good
    OBVIOUS
  <2>1. T # {}
    <3>1. Cardinality({}) = 0
      BY FS_EmptySet
    <3> QED
      BY <3>1
  <2>2. PICK x \in T : T \ {x} \in Good => T \in Good
    BY <2>1
  <2>3. Cardinality(T \ {x}) = k - 1
    <3>1. IsFiniteSet(T)
      BY <1>2
    <3> QED
      BY <3>1, FS_RemoveElement
  <2>4. T \ {x} \in Good
    BY <1>4, <2>3
  <2> QED
    BY <2>2, <2>4
<1> HIDE DEF Levels
<1>5. \A k \in 0 .. n : k \in Levels
  BY <1>1, <1>3, <1>4, UpTo
<1>6. n \in Levels
  BY <1>1, <1>5
<1> QED
  BY <1>6 DEF Levels

\* How many numbers there are from 1 to n, and from 0 to n - 1.
LEMMA CountUpTo ==
  ASSUME NEW n \in Nat
  PROVE  /\ IsFiniteSet(1 .. n) /\ Cardinality(1 .. n) = n
         /\ IsFiniteSet(0 .. n - 1) /\ Cardinality(0 .. n - 1) = n
<1>1. IsFiniteSet(1 .. n) /\ Cardinality(1 .. n) = IF 1 > n THEN 0 ELSE n - 1 + 1
  <2> 1 \in Int /\ n \in Int
    OBVIOUS
  <2> QED
    BY FS_Interval
<1>2. IsFiniteSet(0 .. n - 1) /\ Cardinality(0 .. n - 1) = IF 0 > n - 1 THEN 0 ELSE n - 1 - 0 + 1
  <2> 0 \in Int /\ n - 1 \in Int
    OBVIOUS
  <2> QED
    BY FS_Interval
<1> QED
  BY <1>1, <1>2
=============================================================================
