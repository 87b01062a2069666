SPECIFICATION FairSpec
CONSTANTS
  Buyers = {b1, b2, b3}
  Seeders = {}
  Deployments <- Together
  Quantities = {1}
  Stocks = {2}
  RowAtStart = {TRUE, FALSE}
  MaxAttempts = 2
  MaxConns = 2
  None = None
INVARIANTS StockNeverNegative OrderMatchesAnswer NoLostUpdate
INVARIANTS OutOfStockIsTrue ExhaustionIsContention
PROPERTY EveryCallReturns
