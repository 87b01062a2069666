SPECIFICATION FairSpec
CONSTANTS
  Buyers = {b1, b2}
  Seeders = {s1}
  Quantities = {1, 2}
  Stocks = {2}
  ChanCap = 1
  None = None
INVARIANT TypeOK
PROPERTIES RefinesSale EveryCallReturns
