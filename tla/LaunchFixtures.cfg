SPECIFICATION Spec
CONSTANTS
  cora = cora
  alice = alice
  Owners = {cora, alice}
  Creator = cora
  Buyers = {alice}
  Plugin = plugin
  BPS = 20
  FEE_BPS = 1
  MAX_CREATOR_FEE_BPS = 4
  CURVE_SUPPLY = 4800
  POOL_SUPPLY = 1200
  VIRTUAL_TOKENS_0 = 6400
  VIRTUAL_USDC_0 = 16
  SNIPE_BLOCKS = 2
  SNIPE_START_BPS = 18
  MAX_TOTAL_FEE_BPS = 19
  BID_DISCOUNT_TICKS = 1
  PRICE_SCALE = 1000000
  ROOT_SCALE = 1000
  Q96 = 300
  MAX_TICK = 13
  FIXTURE_USDC_BALANCE = 120
  FIXTURE_LAUNCH_FEE = 1
  Launches <- MCLaunches
  Shares <- MCShares
  MAGNITUDE = 65536
  DRIP_PERIOD = 4
  MIN_ELIGIBLE = 300
  RUN_INTERVAL = 4
  RUN_CAP_BPS = 2
  MIN_RUN_USDC = 3
  HintTarget = 4
  BuyAmounts = {20, 80}
  SellAmounts = {60, 600}
  FirstBuys = {0, 40}
  Approvals = {120}
  Steps = {2}
  MaxTime = 6
  MaxTrades = 2
INVARIANTS
  MarketIsSound
  SheetsAreTrue
  ModelsAgree
PROPERTIES
  RunsArePaced
CHECK_DEADLOCK FALSE
