SPECIFICATION MCSpec
CONSTANTS
  Plans <- MCPlans
  GasCaps <- MCGasCaps
  MaxFaults <- MCMaxFaults
  Terminals <- MCTerminals
  Codes = {1, 3}
  Sessions <- MCSessions
  Encodes <- MCEncodes
  Constructs <- MCConstructs
  OldFactory <- MCOldFactory
  MaxAge = 1
  MaxFresh = 2
  MaxTroubles <- MCMaxTroubles
  Q96 = 256
  MIN_TICK <- MCMinTick
  MAX_TICK = 12
  TICK_SPACING = 2
  WORD = 4
  MAX_TURNS = 9
  SQRT <- MCSqrt
  BPS = 100
  FEE_BPS = 1
  MAX_TOTAL_FEE_BPS = 60
  SNIPE_BLOCKS = 3
  SNIPE_START_BPS = 60
  BID_DISCOUNT_TICKS = 2
  BID_SPAN_TICKS = 4
  CURVE_SUPPLY = 2400
  POOL_SUPPLY = 600
  VIRTUAL_USDC_0 = 190
  VIRTUAL_TOKENS_0 = 3200
  USD = 10
  LIFT_TICKS = 2
  LP_BELOW = 2
  LP_ABOVE = 4
  A <- MCAmounts
  CreatorFees = {5}
  MaxBlock = 6
  MaxCurveTrades = 1
  MaxAfter = 1
  MaxSyncs = 1
INVARIANTS
  JournalIsTrue
  RecordedHasCode
  LaunchHolds
PROPERTIES
  RehearsalsFinish
  DeploysKept
  LiftReaches
CHECK_DEADLOCK FALSE
