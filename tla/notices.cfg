SPECIFICATION MCSpec
CONSTANTS
  Parts = {"queues", "ops", "gateway"}
  w1 = w1 w2 = w2 d1 = d1 d2 = d2  i1 = i1 i2 = i2 alpaca = alpaca
  Deliveries = {d1, d2}
  Workers = {w1, w2}
  Limit = 3
  Lease = 2
  MaxRun = 1
  Instances = {i1, i2}
  Providers = {alpaca}
  Configured <- MCConfigured
  Window = 1
  CaptureAge = 1
  Target = 990
  MaxP95 = 1
  Latencies = {1}
  Listed = 1
  Kept = 2
  CaptureRun = 0
  MaxClock = 4
  MaxEvents = 2
  MaxCaptures = 1
  Clients = {r1, r2}  r1 = r1  r2 = r2
  Routes <- MCRoutes  ClientKeys = {g1}  g1 = g1  None = none  NoInstance = none
  MaxActive = 1  MaxReceived = 3  MaxFailures = 1
CHECK_DEADLOCK FALSE
INVARIANTS OneWorkerPerNotice ClosedPlansAreSilent GoodWordIsEarned AnswersAreTrue ActiveStayNearTheLimit
PROPERTIES EveryNoticeIsSettled
