------------------------------- MODULE MCPayroll ------------------------------
(* Two groups, two requests at a time, two slips.               *)
EXTENDS Payroll, TLC

CONSTANTS g1, g2, h1, h2, p1, p2

MCGroups   == {g1, g2}
MCHandlers == {h1, h2}
MCSlips    == {p1, p2}

(* One that pays, one whose deduction exceeds the rest.         *)
MCOffers == {[gross |-> 2, bonus |-> 1, deduction |-> 1], [gross |-> 1, bonus |-> 0, deduction |-> 2]}

MCSymmetry == Permutations(MCGroups) \cup Permutations(MCHandlers) \cup Permutations(MCSlips)
=============================================================================
