SPECIFICATION Spec
CONSTANTS
  Buyers = {b1, b2}
  Seeders = {s1, s2}
  Kinds <- OneKind
  Deployments <- OneServer
  Paths <- NoPaths
  Default = Default
  DefaultKind = "pg_cond"
  Quantities = {1}
  Stocks = {1}
  MaxRestarts = 1
  MaxAstray = 0
  None = None
INVARIANTS CorrectAdaptersNeverAlarm
SYMMETRY BuyerSymmetry
