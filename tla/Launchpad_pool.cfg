SPECIFICATION Spec
CONSTANTS
  t1 = t1  t2 = t2  u1 = u1  u2 = u2  h1 = h1  p1 = p1  p2 = p2
  Tokens = {t1}
  Users = {u1}
  HookPlugins = {}
  Pad = pad  Router = router  Dead = dead  NoOne = noone
  Pair <- MCPair1
  Deployer = u1
  FEE_BPS = 1
  BPS = 10
  CURVE_SUPPLY = 12
  POOL_SUPPLY = 3
  VIRTUAL_TOKENS_0 = 16
  VIRTUAL_USDC_0 = 4
  MAX_CREATOR_FEE_BPS = 2
  MAX_LAUNCH_FEE = 1
  MINIMUM_LIQUIDITY = 1
  MaxReserve = 1000
  InitialUsdc <- MCUsdcPool
  CreatorFees = {0}
  LaunchFees = {0}
  BuyAmounts = {15, 4}
  SellAmounts = {5}
  Recipients = {p1}
  UsdcAmounts = {3}
  TokenAmounts = {2}
  LpAmounts = {2}
INVARIANTS
  BooksSound
  GraduationIsSafe
PROPERTIES
  PoolSharesNotDiluted
CHECK_DEADLOCK FALSE
