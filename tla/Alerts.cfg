SPECIFICATION FairSpec
CONSTANTS
  t1 = t1
  d1 = d1
  d2 = d2
  o1 = o1
  o2 = o2
  Orgs = {o1, o2}
  Tasks = {t1}
  Users = {d1, d2}
  OrgOf <- MCOrgOf
  SlaDays = 1
  MaxFaults = 1
INVARIANTS
  AlertedOnce
  EscalatedMeansTold
  SlaKept
PROPERTIES
  EventuallyEscalated
