SPECIFICATION MCSpec
CONSTANTS
  u1 = u1  u2 = u2  pool = pool  self = self
  Users = {u1, u2}
  launchpad = pad  pair = pool  Dead = dead  Self = self  NoOne = noone
  TOTAL = 4
  MIN_ELIGIBLE_SUPPLY = 2
  DRIP_PERIOD = 3
  MAGNITUDE = 5
  Recipients = {u1, u2, pool, self}
  Amounts = {1, 2}
  Deposits = {1, 2}
  Steps = {2}
  MaxTime = 6
  MaxDistributed = 3
  FEE_BPS = 1
  BPS = 20
  CURVE_SUPPLY = 48
  VIRTUAL_TOKENS_0 = 64
  VIRTUAL_USDC_0 = 16
  CreatorFees <- MCCreatorFees
  BuyAmounts <- MCBuyAmounts
  SellAmounts <- MCSellAmounts
  MaxVirtualUsdc = 80
INVARIANTS
  CurveKeepsItsWord
  StreamNeverFails
PROPERTIES
  NothingMadeOrLost
  EarnsByTimeOnly
  DividendsRefined
SYMMETRY MCSymmetry
CHECK_DEADLOCK FALSE
