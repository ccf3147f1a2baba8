CONSTANTS
  s1 = s1
  s2 = s2
  h1 = h1
  h2 = h2
  Students <- MCStudents
  Handlers <- MCHandlers
  Scores <- MCScores
  XpMax = 2
  ExamXp <- MCExamXp
  MaxRequests = 3
  MaxEdits = 1
  MaxFaults = 1
SPECIFICATION Spec
SYMMETRY MCSymmetry
INVARIANTS XpFromGrades RemindedOnce MissedExplained
CHECK_DEADLOCK FALSE
