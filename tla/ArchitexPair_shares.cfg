SPECIFICATION MCSpec
CONSTANTS
  u = u
  Accounts = {u}
  Parts = {"shares"}
  Dead = dead  Self = self  NoOne = noone  Setter = u
  Tokens0 = 36  Tokens1 = 36
  Holding0 <- MCHolding0
  Holding1 <- MCHolding1
  FEE = 2
  FEE_BASE = 10
  MINIMUM_LIQUIDITY = 1
  MaxReserve = 36
  Payments = {12}
  Shares = {11}
  Withdrawals = {0, 5}
  Loans = {}
  RESOLUTION = 1
  SUM_WRAP = 2
  TIME_WRAP = 2
  MaxTime = 0
INVARIANTS
  PairSound
  LiquidityLasts
PROPERTIES
  SharesKeepTheirGrowth
CHECK_DEADLOCK FALSE
