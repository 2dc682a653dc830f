SPECIFICATION MCSpec
CONSTANTS
  Parts = {"monitors"}
  k1 = k1 k2 = k2 k3 = k3 s1 = s1 None = none  p = p q = q
  Procs = {p}  Runners = {p}
  Keys = {k1}
  ScanKeys = {}
  NoKey = none
  Kinds = {"rebalance"}
  Notify = FALSE
  MaxRuns = 1
  MaxEdits = 1
  FewEdits = 1
  MaxCycle = 1
  Rules = {1}
  PortfolioOf <- OnePortfolio
  RuleLimit = 1
  MaxVersion = 2
  MaxBreaches = 1
  MaxDigests = 1
  Users = {u1, u2}  Browsers = {b1, b2}  Owner = u1  u1 = u1  u2 = u2  b1 = b1  b2 = b2
  Limit = 2  MaxKills = 1  MaxEndpoint = 2  MaxToggles = 2
SYMMETRY Symmetry
CHECK_DEADLOCK FALSE
INVARIANTS LatchIsOfThisVersion
