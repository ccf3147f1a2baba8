------------------------------ MODULE MCReminders -----------------------------
(* Two students of one group, two requests at a time.                      *)
EXTENDS Reminders, TLC

CONSTANTS s1, s2, h1, h2

MCStudents == {s1, s2}
MCHandlers == {h1, h2}
MCScores   == {0, 3}
MCExamXp   == [score \in {5} |-> score * 2]

MCSymmetry == Permutations(MCStudents) \cup Permutations(MCHandlers)
=============================================================================
