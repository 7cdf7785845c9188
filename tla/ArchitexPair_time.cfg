SPECIFICATION MCSpec
CONSTANTS
  u = u
  Accounts = {u}
  Parts = {"flash", "prices"}
  Dead = dead  Self = self  NoOne = noone  Setter = u
  Tokens0 = 6  Tokens1 = 6
  Holding0 <- MCHolding0
  Holding1 <- MCHolding1
  FEE = 2
  FEE_BASE = 10
  MINIMUM_LIQUIDITY = 1
  MaxReserve = 5
  Payments = {1, 3}
  Shares = {1}
  Withdrawals = {0, 1}
  Loans = {0, 2}
  RESOLUTION = 2
  SUM_WRAP = 7
  TIME_WRAP = 3
  MaxTime = 4
PROPERTIES
  ReadsAreSafe
  SharesKeepTheirGrowth
CHECK_DEADLOCK FALSE
