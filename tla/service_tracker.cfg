SPECIFICATION Spec
CONSTANTS
  Buyers = {b1, b2}
  Seeders = {s1, s2}
  Kinds <- AllServed
  Deployments <- Servers
  Paths <- Adapters
  Default = Default
  DefaultKind = "redis_lua"
  Quantities = {1, 2, 3}
  Stocks = {2}
  MaxRestarts = 1
  MaxAstray = 1
  None = None
INVARIANTS NoMissedOversell GaugeNeverUnderstates RefusedMeansUntouched
PROPERTIES NoFalseAlarm
SYMMETRY BuyerSymmetry
