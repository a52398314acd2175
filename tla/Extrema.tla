------------------------------- MODULE Extrema -------------------------------
(* Sets of numbers have least and greatest elements. *)
EXTENDS WellFoundedInduction, TLAPS

LEMMA MinExists ==
    ASSUME NEW T \in SUBSET Nat, T # {}
    PROVE  \E m \in T : \A t \in T : m <= t
<1> DEFINE Less == OpToRel(<, Nat)
<1>1. IsWellFoundedOn(Less, Nat)
  BY NatLessThanWellFounded
<1> HIDE DEF Less
<1>2. PICK m \in T : \A t \in T : ~(<<t, m>> \in Less)
  BY <1>1, WFMin
<1>3. ASSUME NEW t \in T, t < m PROVE FALSE
  <2>1. <<t, m>> \in {ss \in Nat \X Nat : ss[1] < ss[2]}
    BY <1>3
  <2>2. Less = {ss \in Nat \X Nat : ss[1] < ss[2]}
    BY DEF Less, OpToRel
  <2> QED
    BY <1>2, <2>1, <2>2
<1>4. \A t \in T : m <= t
  BY <1>3
<1> QED
  BY <1>4

LEMMA MaxExists ==
    ASSUME NEW n \in Nat, NEW S \in SUBSET (0 .. n), S # {}
    PROVE  \E x \in S : \A y \in S : x >= y
<1> DEFINE T == { n - x : x \in S }
<1>1. T \subseteq Nat
  OBVIOUS
<1>2. T # {}
  OBVIOUS
<1> HIDE DEF T
<1>3. PICK m \in T : \A t \in T : m <= t
  BY <1>1, <1>2, MinExists
<1>4. PICK x \in S : m = n - x
  BY <1>3 DEF T
<1>5. \A y \in S : n - x <= n - y
  BY <1>3, <1>4 DEF T
<1> QED
  BY <1>5
=============================================================================
