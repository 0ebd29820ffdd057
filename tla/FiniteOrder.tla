---------------------------- MODULE FiniteOrder ----------------------------
(***************************************************************************)
(* Facts about finite sets on which the proofs of several components rest. *)
(* The induction on the number of elements is a search for the smallest    *)
(* counterexample: the induction theorems of the library take an operator, *)
(* the minimum of a set of numbers does not.                               *)
(***************************************************************************)
EXTENDS Integers, FiniteSets, FiniteSetTheorems, WellFoundedInduction, TLAPS

(* Every non-empty set of natural numbers has a least element.             *)
LEMMA LeastNumber ==
    ASSUME NEW N, N \subseteq Nat, N # {}
    PROVE  \E m \in N : \A n \in N : m <= n
  <1>1. PICK m \in N : \A n \in N : ~ <<n, m>> \in OpToRel(<, Nat)
    BY WFMin, NatLessThanWellFounded
  <1>2. \A n \in N : ~ n < m
    BY <1>1 DEF OpToRel
  <1>3. QED
    BY <1>2

(* A finite set that is not empty has a maximal element in every strict    *)
(* order R.                                                                *)
LEMMA MaximalElement ==
    ASSUME NEW S, IsFiniteSet(S), S # {}, NEW R,
           \A x \in S : <<x, x>> \notin R,
           \A x, y, z \in S : <<x, y>> \in R /\ <<y, z>> \in R => <<x, z>> \in R
    PROVE  \E x \in S : \A y \in S : <<x, y>> \notin R
  <1> DEFINE Bad == {T \in SUBSET S : T # {} /\ \A x \in T : \E y \in T : <<x, y>> \in R}
             Sizes == {Cardinality(T) : T \in Bad}
  <1>1. SUFFICES ASSUME S \in Bad PROVE FALSE
    OBVIOUS
  <1>2. \A T \in SUBSET S : IsFiniteSet(T) /\ Cardinality(T) \in Nat
    BY FS_Subset, FS_CardinalityType
  <1>3. Sizes \subseteq Nat /\ Sizes # {}
    BY <1>1, <1>2
  <1>4. PICK T \in Bad : \A U \in Bad : Cardinality(T) <= Cardinality(U)
    <2> HIDE DEF Sizes
    <2>1. PICK m \in Sizes : \A n \in Sizes : m <= n
      BY <1>3, LeastNumber
    <2>2. QED
      BY <2>1 DEF Sizes
  <1>5. PICK x \in T : TRUE
    OBVIOUS
  <1>6. T \ {x} \in SUBSET S /\ Cardinality(T \ {x}) = Cardinality(T) - 1
    <2>1. IsFiniteSet(T)
      BY <1>2
    <2>2. Cardinality(T \ {x}) = IF x \in T THEN Cardinality(T) - 1 ELSE Cardinality(T)
      BY <2>1, FS_RemoveElement
    <2>3. QED
      BY <1>5, <2>2
  <1>7. T \ {x} \notin Bad
    <2> HIDE DEF Bad
    <2>1. Cardinality(T) \in Nat /\ ~ Cardinality(T) <= Cardinality(T) - 1
      <3>1. T \in SUBSET S
        BY DEF Bad
      <3>2. Cardinality(T) \in Nat
        BY <1>2, <3>1
      <3>3. QED
        BY <3>2
    <2>2. QED
      BY <1>4, <1>6, <2>1
  <1>8. PICK z \in T : <<x, z>> \in R
    BY <1>5
  <1>9. x # z
    BY <1>5, <1>8
  <1>10. PICK y \in T \ {x} : \A w \in T \ {x} : <<y, w>> \notin R
    BY <1>6, <1>7, <1>8, <1>9
  <1>11. <<y, x>> \in R
    BY <1>10
  <1>12. <<y, z>> \in R
    BY <1>5, <1>8, <1>10, <1>11
  <1>13. QED
    BY <1>8, <1>9, <1>10, <1>12

(* A set that gains at most one element stays finite.                      *)
LEMMA OneMore ==
    ASSUME NEW S, IsFiniteSet(S), NEW x, NEW T, T \subseteq S \cup {x}
    PROVE  IsFiniteSet(T)
  BY FS_AddElement, FS_Subset
=============================================================================
