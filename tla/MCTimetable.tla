------------------------------ MODULE MCTimetable -----------------------------
(* Two groups, two lessons, two overlapping times of day.       *)
EXTENDS Timetable, TLC

CONSTANTS g1, g2, h1, h2, l1, l2

MCGroups   == {g1, g2}
MCHandlers == {h1, h2}
MCLessons  == {l1, l2}

Early == [from |-> 1, to |-> 3]
Late  == [from |-> 2, to |-> 4]
MCRows ==
  {[status |-> "scheduled", group |-> g1, slot |-> Early],
   [status |-> "cancelled", group |-> g1, slot |-> Early],
   [status |-> "scheduled", group |-> g2, slot |-> Late],
   [status |-> "scheduled", group |-> g2, slot |-> NoSlot]}

MCSymmetry == Permutations(MCHandlers) \cup Permutations(MCLessons)
=============================================================================
