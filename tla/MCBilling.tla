------------------------------ MODULE MCBilling ------------------------------
(* Courses cost three, so the payments of one and two can meet, miss and    *)
(* overshoot what is left.                                                *)
EXTENDS Billing, TLC

MCPrice   == [g \in Groups |-> 3]
MCAmounts == {1, 3}

MCSymmetry == Permutations(Workers) \cup Permutations(Payments)
=============================================================================
