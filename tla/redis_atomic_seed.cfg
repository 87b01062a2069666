SPECIFICATION Spec
CONSTANTS
  Buyers = {b1, b2, b3}
  Seeders = {s1}
  Deployments <- AtomicAlone
  Quantities = {1, 2}
  Stocks = {1, 2}
  MaxResends = 0
  None = None
INVARIANT NeverOversells
