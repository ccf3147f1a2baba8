SPECIFICATION Spec
CONSTANTS
  u1 = u1
  u2 = u2
  u3 = u3
  h1 = h1
  h2 = h2
  Centers = {c1}
  Users = {u1, u2, u3}
  Handlers = {h1, h2}
  Values = {trial, archived}
  Default = trial
  Archived = archived
  MaxRequests = 5
SYMMETRY MCSymmetry
CHECK_DEADLOCK FALSE
INVARIANTS
  AdminLossExplained
  DriftExplained
