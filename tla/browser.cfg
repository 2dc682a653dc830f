SPECIFICATION MCSpec
CONSTANTS
  Parts = {"evaluators", "watchlist", "alerts", "market", "desk", "assistant"}
  e1 = e1 e2 = e2 u1 = u1 u2 = u2 none = none NoUser = none Nobody = none None = none s1 = s1 s2 = s2 d1 = d1 d2 = d2
  Alerts = {1, 2}
  Condition <- Mixed
  Prices <- AroundTarget
  Target = 1
  Evaluators = {e1, e2}
  BatchSize = 1
  Lease = 3
  MaxRun = 2
  LostAnswers = FALSE
  Owners = {u1}
  Users = {u1, u2}
  Symbols = {s1, s2}
  MaxEdits = 2
  MaxSessions = 2
  MaxLosses = 1
  MaxLogins = 2
  MaxFailures = 1
  Ids = {1}
  Count = 3
  Coins = {1}
  Charted = {1}
  Pages = {"all", "chart"}
  Wanted <- MCWanted
  Chunk = 2
  MaxMoves = 3
  Portfolios = {d1, d2}
  Begun <- MCBegun
  Linked = d2
  MaxChanges = 1
  MaxRequests = 1
  MaxFaults = 1
  MaxSignIns = 1
  MaxText = 2
  MaxRounds = 4
  MaxQuestions = 2
CHECK_DEADLOCK FALSE
INVARIANTS OneEvaluatorPerAlert ShownIsOfTheSession SignInKeepsTheLocalList
PROPERTIES FiresOnCrossing EachIsVisitedAgain ShowsTheServersLists NothingVerifiedIsMadeUp ShownInOrder EveryQuestionIsAnswered
