SPECIFICATION Spec
CONSTANTS
  Buyers = {b1, b2}
  Seeders = {s1}
  Deployments <- Coordinated3
  Quantities = {1, 2}
  Stocks = {1, 2}
  RowAtStart = {TRUE, FALSE}
  MaxAttempts = 2
  MaxConns = 2
  None = None
INVARIANTS TypeOK Conservation OrdersWithinSeed
PROPERTY RefinesSale
