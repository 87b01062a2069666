SPECIFICATION FairSpec
CONSTANTS
  r1 = r1
  Buyers = {b1, b2}
  Seeders = {s1}
  Replicas = {r1, r2}
  Homes <- Together
  Quantities = {1}
  Stocks = {1}
  SeededFirst = {TRUE}
  MaxSends = 2
  MaxFaults = 2
  None = None
INVARIANTS TypeOK QuotaLedger CommittedIsRecorded NoDuplicateOrders SeedIsClean
PROPERTY AcceptedIsRecorded
