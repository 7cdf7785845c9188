SPECIFICATION FairSpec
CONSTANTS
  Owners = {me, other}
  Nobody = Nobody
  MaxAsks = 8
  Pages <- MCPages
  Prices <- MCPrices
  StartPrice = 3
  Fees = {1, 2}
  Slippage = 1
INVARIANTS
  OnlyConfirmedSigned
  FormsAreHonest
PROPERTIES
  RunsEnd
CHECK_DEADLOCK FALSE
