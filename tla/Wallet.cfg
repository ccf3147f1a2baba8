SPECIFICATION Spec
CONSTANTS
  Students = {s1}
  Items = {i1, i2}
  Workers = {w1, w2}
  Refs = {r1}
  Configs <- MCConfigs
  DefaultConfig <- MCDefault
  Prices <- MCPrices
  Grades <- MCGrades
  ManualXP <- MCManual
  MaxRequests = 4
SYMMETRY MCSymmetry
INVARIANTS
  CoinsMatchLedger
  PricedAtLevel
  PurchasesPaid
  AwardedOnce
PROPERTY LedgerOnlyGrows
