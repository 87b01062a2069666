SPECIFICATION FairSpec
CONSTANTS
  Buyers = {b1, b2}
  Seeders = {s1, s2}
  Quantities = {1, 2}
  Stocks = {1}
  StartStocks = {2, None}
  None = None
INVARIANTS TicketLedger RefusalsHaveACause SeedReplacesThePile OrdersHaveTickets
PROPERTIES BuyersNeverWait SeedsReturn RefinesSale
