SPECIFICATION Spec
CONSTANTS
  Buyers = {b1, b2}
  Seeders = {s1}
  Deployments <- OnlyOptimistic
  Quantities = {1}
  Stocks = {1, 2}
  RowAtStart = {TRUE}
  MaxAttempts = 2
  MaxConns = 2
  None = None
INVARIANT VersionMovesWithRow
