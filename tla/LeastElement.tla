------------------------------ MODULE LeastElement -------------------------------
(* Both loops over g_tcb_probes that look for a slot end at the first one that *)
(* fits: the least element of a set of indices, which the models CHOOSE.       *)
EXTENDS Integers, WellFoundedInduction, TLAPS

LessThan == {ss \in Nat \X Nat : ss[1] < ss[2]}

\* A nonempty set of natural numbers has a least element.
LEMMA LeastExists ==
  ASSUME NEW S \in SUBSET Nat, S # {}
  PROVE  \E i \in S : \A j \in S : i <= j
<1>1. IsWellFoundedOn(LessThan, Nat)
  BY NatLessThanWellFounded DEF OpToRel, LessThan
<1>2. PICK i \in S : \A j \in S : ~ <<j, i>> \in LessThan
  BY <1>1, WFMin
<1>3. ASSUME NEW j \in S PROVE i <= j
  <2>1. <<j, i>>[1] = j /\ <<j, i>>[2] = i /\ <<j, i>> \in Nat \X Nat
    OBVIOUS
  <2>2. j < i => <<j, i>> \in LessThan
    BY <2>1, Zenon DEF LessThan
  <2> QED
    BY <1>2, <2>2
<1> QED
  BY <1>3

================================================================================
