SPECIFICATION MCSpec
CONSTANTS
  Parts = {"ops", "circuit", "monitors", "goals", "plans"}
  q = q h = h p1 = p1 i1 = i1 k1 = k1 k2 = k2 s1 = s1 none = none  NoCall = none  NoKey = none
  Requests = {"a", "b", "c"}  Lease = 4  Retention = 5  MaxRun = 2
  Calls = {1, 2}  Quotes = {q}  Histories = {h}  Threshold = 2  OpenFor = 2  Fresh = 1  Stale = 2
  MaxCall = 1  Deployments <- MCDeployments  Mock = TRUE
  Rules = {1, 2}  PortfolioOf <- OwnPortfolios  RuleLimit = 1  Procs = {p1}
  MaxVersion = 1  MaxBreaches = 1  MaxDigests = 1
  Portfolios = {1, 2}  Invocations = {i1}  MonthLength = 2  ContributionDays = {1, 2}  LastDay = 3  TargetDate = 3
  Troubles = {TRUE, FALSE}  Followed = {"snapshots", "contributions", "rebalances"}  Limit = 1  FirstDay <- MCFirstDay
  Keys = {k1, k2}  ScanKeys = {s1}  Kinds = {"contribution"}  Notify = FALSE  MaxRuns = 2  MaxEdits = 3  MaxCycle = 1
CHECK_DEADLOCK FALSE
INVARIANTS NoImmediateDuplicate CircuitIsSound
PROPERTIES AllAreAnswered CircuitRecovers NothingWaitsForEver
