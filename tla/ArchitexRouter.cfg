SPECIFICATION MCSpec
CONSTANTS
  tA = tA  tB = tB  tC = tC  u = u
  Tokens = {tA, tB, tC}
  Address <- MCAddress
  Users = {u}
  Dead = dead  Self = self
  Treasuries = {treasury}  NoOne = noone
  HeldA = 24  HeldB = 24  HeldC = 8
  Holding <- MCHolding
  FEE = 1
  FEE_BASE = 10
  MINIMUM_LIQUIDITY = 1
  MaxReserve = 1000
  Deposits = {4}
  Removals = {1, 2}
  Paths <- MCPaths
  Payments = {3}
  Purchases = {1}
  Gifts = {3, 11}
  PermitValues = {1, 2, 99}
  Unlimited = 99
  USDC = tB
  Slippages = {0, 1}
  BPS_DENOMINATOR = 10
INVARIANTS
  LiquidityIsSafe
  TradesAreFair
PROPERTIES
  EveryPairGains
CHECK_DEADLOCK FALSE
