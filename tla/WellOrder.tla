----------------------------- MODULE WellOrder -----------------------------
(* Nonempty sets of natural numbers have a least element: what the proofs    *)
(* use where they would use induction.                                       *)
EXTENDS FiniteSetTheorems, TLAPS

\* Less than on Nat, as a relation, is well founded.
LEMMA LessThanRelation ==
  \E R : IsWellFoundedOn(R, Nat) /\ \A x, y \in Nat : x < y => <<x, y>> \in R
<1>1. \A x, y \in Nat : x < y => <<x, y>> \in OpToRel(<, Nat)
  BY DEF OpToRel
<1> QED BY <1>1, NatLessThanWellFounded, Zenon

\* A nonempty set of natural numbers has a least element.
LEMMA HasLeast ==
  ASSUME NEW T \in SUBSET Nat, T # {}
  PROVE  \E i \in T : \A j \in T : i <= j
<1>1. PICK R : IsWellFoundedOn(R, Nat) /\ \A x, y \in Nat : x < y => <<x, y>> \in R
  BY LessThanRelation
<1>2. IsWellFoundedOn(R, Nat) /\ T \subseteq Nat
  BY <1>1
<1>3. PICK i \in T : \A j \in T : ~ (<<j, i>> \in R)
  BY <1>2, WFMin, Zenon
<1>4. ASSUME NEW j \in T PROVE i <= j
  <2>1. i \in Nat /\ j \in Nat /\ ~(<<j, i>> \in R)
    BY <1>2, <1>3
  <2>2. ~(j < i)
    BY <1>1, <2>1
  <2> QED BY <2>1, <2>2
<1> QED BY <1>4

\* What holds of a finite set when it holds of all that are smaller by one
\* element holds of every subset.
LEMMA SubsetInduction ==
  ASSUME NEW S, IsFiniteSet(S), NEW T,
         \A s \in SUBSET S : (\A x \in s : s \ {x} \in T) => s \in T
  PROVE  \A s \in SUBSET S : s \in T
<1> DEFINE Sizes == {n \in Nat : \E s \in SUBSET S : s \notin T /\ Cardinality(s) = n}
<1>1. \A s \in SUBSET S : IsFiniteSet(s) /\ Cardinality(s) \in Nat
  BY FS_Subset, FS_CardinalityType
<1>2. CASE Sizes = {}
  BY <1>1, <1>2
<1>3. CASE Sizes # {}
  <2>1. PICK n \in Sizes : \A m \in Sizes : n <= m
    <3> HIDE DEF Sizes
    <3>1. Sizes \subseteq Nat
      BY DEF Sizes
    <3> QED BY <1>3, <3>1, HasLeast
  <2>2. PICK s \in SUBSET S : s \notin T /\ Cardinality(s) = n
    BY <2>1
  <2>3. PICK x \in s : s \ {x} \notin T
    BY <2>2
  <2>4. Cardinality(s \ {x}) = n - 1 /\ s \ {x} \in SUBSET S
    BY <1>1, <2>2, <2>3, FS_RemoveElement
  <2>5. n - 1 \in Nat
    BY <1>1, <2>4
  <2>6. n - 1 \in Sizes
    BY <2>3, <2>4, <2>5
  <2> QED BY <2>1, <2>5, <2>6
<1> QED BY <1>2, <1>3
=============================================================================
