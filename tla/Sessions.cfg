SPECIFICATION Spec
CONSTANTS
  c1 = c1
  Users = {u1}
  Centers = {c1}
  Home <- MCHome
  Workers = {w1, w2}
  MaxToken = 3
SYMMETRY MCSymmetry
INVARIANTS
  OneSessionPerLogin
  ReplayExplained
  ReplayClosesUnlessOvertaken
PROPERTY
  ImplementsLoginChain
