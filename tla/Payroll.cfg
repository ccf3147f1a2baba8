CONSTANTS
  g1 = g1
  g2 = g2
  h1 = h1
  h2 = h2
  p1 = p1
  p2 = p2
  CenterGroups <- MCGroups
  Handlers <- MCHandlers
  Slips <- MCSlips
  Offers <- MCOffers
  MaxRuleRequests = 3
  MaxFaults = 1
SPECIFICATION PayrollSpec
SYMMETRY MCSymmetry
INVARIANTS RulesAsAsked PaidOnce
CHECK_DEADLOCK FALSE
