------------------------------ MODULE SequenceFacts ------------------------------
(***************************************************************************)
(* Facts about numbers and sequences that the proofs about pure algorithms *)
(* rest on: a set of natural numbers has a least element, and what         *)
(* SelectInSeq of the community modules, which is defined by Min, finds.   *)
(*                                                                         *)
(* The least element stands in for induction: the theorems of              *)
(* NaturalsInduction take the induction hypothesis as an operator, and no  *)
(* installed prover can instantiate one; a set of counterexamples is a     *)
(* first-order parameter.                                                  *)
(***************************************************************************)
EXTENDS Integers, Sequences, SequencesExt, FiniteSetTheorems, TLAPS

\* A set of natural numbers has a least element: of the intervals 1 .. n with n
\* in the set, one has no other of them as a strict subset.
LEMMA LeastNat ==
  ASSUME NEW T, T \subseteq Nat, T # {}
  PROVE  \E n \in T : \A m \in T : n <= m
<1> PICK k \in T : TRUE
  OBVIOUS
<1> DEFINE R == StrictSubsetOrdering(1 .. k)
           A == {D \in SUBSET (1 .. k) : \E n \in T : D = 1 .. n}
<1>1. IsWellFoundedOn(R, SUBSET (1 .. k))
  <2>1. IsFiniteSet(1 .. k)
    BY FS_Interval
  <2>2. FiniteSubsetsOf(1 .. k) = SUBSET (1 .. k)
    BY <2>1, FS_FiniteSubsetsOfFinite
  <2> QED BY <2>2, FS_StrictSubsetOrderingWellFounded
<1>2. A # {} /\ A \subseteq SUBSET (1 .. k)
  OBVIOUS
<1>3. PICK D \in A : \A E \in A : << E, D >> \notin R
  <2> HIDE DEF A, R
  <2> QED BY <1>1, <1>2, WFMin
<1>4. PICK n \in T : D = 1 .. n
  OBVIOUS
<1>5. ASSUME NEW m \in T, m < n PROVE FALSE
  <2>1. 1 .. m \in A
    BY <1>4, <1>5
  <2>2. 1 .. m \subseteq 1 .. n /\ n \in 1 .. n /\ n \notin 1 .. m
    BY <1>5
  <2>3. << 1 .. m, D >> \in R
    BY <2>1, <2>2, <1>4 DEF StrictSubsetOrdering
  <2> QED BY <1>3, <2>1, <2>3
<1> QED BY <1>5

\* The Min of FiniteSetsExt on natural numbers.
LEMMA MinOfNat ==
  ASSUME NEW T, T \subseteq Nat, T # {}
  PROVE  Min(T) \in T /\ \A m \in T : Min(T) <= m
BY LeastNat DEF Min

\* What SelectInSeq computes from the set of matching positions.
LEMMA FirstIndex ==
  ASSUME NEW n \in Nat, NEW I \in SUBSET (1 .. n),
         NEW k, k = IF I # {} THEN Min(I) ELSE 0
  PROVE  \/ k = 0 /\ I = {}
         \/ k \in I /\ \A j \in 1 .. k - 1 : j \notin I
<1>1. CASE I # {}
  <2>1. I \subseteq Nat
    OBVIOUS
  <2>2. k \in I /\ \A m \in I : k <= m
    BY <1>1, <2>1, MinOfNat
  <2>3. \A j \in 1 .. k - 1 : j < k
    BY <2>1, <2>2
  <2>4. \A j \in 1 .. k - 1 : j \notin I
    BY <2>1, <2>2, <2>3
  <2> QED BY <2>2, <2>4
<1>2. CASE I = {}
  BY <1>2
<1> QED BY <1>1, <1>2
=============================================================================
