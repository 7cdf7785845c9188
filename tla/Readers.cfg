SPECIFICATION MCSpec
CONSTANTS
  c1 = c1  c2 = c2  p1 = p1
  Cores = {c1, c2}  Pools = {p1}  Router = router
  Born <- MCBorn
  LateBlock = 4
  MayFail = {c1}
  DayBlocks = 3
  MAX_TRADES_KEPT = 20
  MaxHead = 4
  Workers = {1, 2}
  WindowBlocks = 3
  Endpoints = 2
  Attempts = 2
  MaxFaults = 2
  Feeds <- MCFeeds
  Created = 2
  PageRows = 1
  MaxPages = 3
  MaxShown = 2
  WINDOW = 0
  MaxTailWindows = 2
  RpcWindows = 2
  MaxTailLogs = 2
  HEAD_TOLERANCE = 0
  LastBlock = 5
  Mishaps = 1
INVARIANTS
  EveryBlockOnce
  TapeIsComplete
  HistoryIsWhole
PROPERTIES
  ReadersFinish
CHECK_DEADLOCK FALSE
