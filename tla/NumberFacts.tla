---------------------------- MODULE NumberFacts ----------------------------
(***************************************************************************)
(* Least and greatest elements of sets of numbers, for the proofs about    *)
(* operators that use Min and Max.                                         *)
(***************************************************************************)
EXTENDS Integers, FiniteSetsExt, WellFoundedInduction, TLAPS

\* A set of naturals that is not empty has a least element, and Min is it.
LEMMA MinIsLeast ==
    ASSUME NEW S \in SUBSET Nat, S # {}
    PROVE  Min(S) \in S /\ \A n \in S : Min(S) =< n
<1> DEFINE R == OpToRel(<, Nat)
<1>1. \A n, m \in Nat : n < m => <<n, m>> \in R
  <2>1. ASSUME NEW n \in Nat, NEW m \in Nat, n < m PROVE <<n, m>> \in R
    <3>1. <<n, m>> \in Nat \X Nat /\ <<n, m>>[1] < <<n, m>>[2]
      BY <2>1
    <3>2. QED
      BY <3>1, Zenon DEF OpToRel
  <2>2. QED
    BY <2>1
<1>2. IsWellFoundedOn(R, Nat)
  BY NatLessThanWellFounded
<1> HIDE DEF R
<1>3. PICK m \in S : \A n \in S : <<n, m>> \notin R
  <2>1. S \subseteq Nat /\ S # {}
    OBVIOUS
  <2>2. QED
    BY <1>2, <2>1, WFMin, Zenon
<1>4. ASSUME NEW n \in S PROVE m =< n
  <2>1. n \in Nat /\ m \in Nat
    OBVIOUS
  <2>2. ~(n < m)
    BY <1>1, <1>3, <2>1, Zenon
  <2>3. QED
    BY <2>1, <2>2
<1>5. QED
  BY <1>4, Zenon DEF Min

\* A set of naturals with a bound that is not empty has a greatest element.
LEMMA MaxIsGreatest ==
    ASSUME NEW S \in SUBSET Nat, S # {}, NEW b \in Nat, \A n \in S : n =< b
    PROVE  Max(S) \in S /\ \A n \in S : n =< Max(S)
<1> DEFINE T == {b - n : n \in S}
<1>1. T \in SUBSET Nat /\ T # {}
  <2>1. PICK n \in S : TRUE
    OBVIOUS
  <2>2. b - n \in T
    OBVIOUS
  <2>3. ASSUME NEW t \in T PROVE t \in Nat
    OBVIOUS
  <2>4. QED
    BY <2>2, <2>3
<1>2. Min(T) \in T /\ \A t \in T : Min(T) =< t
  BY <1>1, MinIsLeast
<1>3. PICK m \in S : Min(T) = b - m
  BY <1>2
<1>4. \A n \in S : b - m =< b - n
  BY <1>2, <1>3
<1>5. \A n \in S : m >= n
  BY <1>4
<1>6. Max(S) \in S /\ \A n \in S : Max(S) >= n
  BY <1>5, Zenon DEF Max
<1>7. QED
  BY <1>6
=============================================================================
