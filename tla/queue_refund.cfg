SPECIFICATION Spec
CONSTANTS
  r1 = r1
  Buyers = {b1}
  Seeders = {}
  Replicas = {r1}
  Homes <- Together
  Quantities = {1}
  Stocks = {1}
  SeededFirst = {TRUE}
  MaxSends = 1
  MaxFaults = 0
  None = None
INVARIANT RefundedIsNotQueued
