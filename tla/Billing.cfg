SPECIFICATION Spec
CONSTANTS
  Students = {s1}
  Groups = {g1}
  Periods = {p1}
  Copies = 3
  Payments = {a1, a2, a3}
  Workers = {w1, w2}
  Price <- MCPrice
  Amounts <- MCAmounts
  MaxRequests = 6
SYMMETRY MCSymmetry
CHECK_DEADLOCK FALSE
INVARIANTS
  DriftExplained
  OverpayBounded
  DuplicatesBounded
