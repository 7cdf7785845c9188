SPECIFICATION MCSpec
CONSTANTS
  Suite = {"split", "buyback", "deepen", "holders", "combo"}
  Paused = {"buyback"}
  MAX_PAYEES = 2
  MAX_COMBO_ENTRIES = 2
  TOTAL_BPS = 2
  MAX_SHARE = 1
  Creator = "creator"
  Texts <- MCTexts
  Scenes <- MCScenes
  Details = {"none", "told", "wrong"}
  Pictures = {"none", "drawn"}
  LaunchpadsRead = {"v13"}
  DAY = 2
  UPLOADS_PER_WINDOW = 1
  MaxSaves = 2
  MaxMishaps = 2
  Gateways <- MCGateways
  Retries = 1
  MaxVisits = 3
  MaxTroubles = 1
  Tabs = {t1, t2}
  Passwords = {1}
  MaxBorn = 2
  MaxStores = 2
  MaxOpens = 2
  Parts = {"create"}
INVARIANTS
  NoneIsPaidUnchecked
CHECK_DEADLOCK FALSE
