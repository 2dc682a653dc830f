SPECIFICATION MCSpec
CONSTANTS
  Parts = {"plans", "race", "goal", "monitors", "notice"}
  k1 = k1 k2 = k2 k3 = k3 s1 = s1 None = none  p = p q = q
  Procs = {p, q}  Runners = {p, q}
  Keys = {k1, k2}
  ScanKeys = {s1}
  NoKey = none
  Kinds = {"rebalance", "contribution"}
  Notify = TRUE
  MaxRuns = 2
  MaxEdits = 5
  FewEdits = 1
  MaxCycle = 1
  Rules = {1}
  PortfolioOf <- OnePortfolio
  RuleLimit = 1
  MaxVersion = 2
  MaxBreaches = 2
  MaxDigests = 2
  Users = {u1, u2}  Browsers = {b1, b2}  Owner = u1  u1 = u1  u2 = u2  b1 = b1  b2 = b2
  Limit = 2  MaxKills = 1  MaxEndpoint = 2  MaxToggles = 2
SYMMETRY Symmetry
CHECK_DEADLOCK FALSE
INVARIANTS OneOpenPlan PlansRestOnOneState FillsFollowThePlannedLedger LatchTellsNotice DigestsCarryTheirBreaches NoticesReachTheSubscribed PlansAreAccountedFor
PROPERTIES LifecycleKept
