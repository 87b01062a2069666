SPECIFICATION Spec
CONSTANTS
  Buyers = {b1, b2, b3}
  Seeders = {s1}
  Deployments <- Both
  Quantities = {1, 2}
  Stocks = {2}
  MaxResends = 1
  None = None
SYMMETRY BuyerSymmetry
INVARIANTS TypeOK Ledger OversellsOnlyStrays RefusalsHaveACause
PROPERTY RefinesSale
