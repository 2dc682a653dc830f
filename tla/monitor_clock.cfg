SPECIFICATION MCSpec
CONSTANTS
  Portfolios = {1}  Invocations = {i1, i2}  i1 = i1  i2 = i2
  MonthLength = 2  ContributionDays = {1, 2}  LastDay = 1  TargetDate = 2
  Troubles = {TRUE}  Followed = {"contributions"}  Limit = 1  MaxEdits = 3  FirstDay <- MCFirstDay
  Parts = {"market"}
  k1 = k1 k2 = k2 k3 = k3 k4 = k4 k5 = k5
  Procs = {"p", "q"}
  Keys = {k1, k2, k3, k4}
  Entries <- MCEntries
  Batches <- OneBatch
  TradeTimes = {1, 2}
  FutureSlack = 1
  Readers = {"r"}
  PageSize = 2
  MaxClock = 3
  MaxRows = 4
  Whole = 10
  Scale = 4  MinimumSlack = 1  CostSlack = 20  AmountSlack = 2
  CashSymbol = 0
  MaxCents = 500
  FillMove = 5
  PriceMove = 1
  Prices = {3, 5}
  Books <- MCBooks
  Deposits <- MCDeposits
  NoQuote = NoQuote
  stock = stock coin = coin foreign = foreign
  Stocks = {stock}
  Coins = {coin}
  Foreign = {foreign}
  Replies <- MCReplies
  Configs <- MCConfigs
  MaxDeviation = 1
  MaxAge = 0
  Delay = 1
  LkgLife = 2
  FallbackPrice <- MCFallbackPrice
  FallbackAge = 5
  Held <- MCHeld
  MaxRisk = 2
  Few = 1
  Many = 2
  Days <- MCDays
  Bars <- MCBars
  Rules <- MCRules
  Captures = {c1, c2}  c1 = c1  c2 = c2
  Amounts = {1}  Quoted = {1}  Estimates = {}  Histories <- MCHistories
  Bucket = 1  Day = 1  Listed = 2  LastCapture = 2  MaxTrades = 2
  Tabs = {t1, t2}  t1 = t1  t2 = t2
  Alerts = {1, 2}  Above = {1}  Ticks = {0, 2, 3}  Target = 1  Seed = 0  MaxStores = 4
  None = none
  Forms = {"goal", "policy", "rule", "execution"}  Typed <- MCTyped  blank = blank  Panels = {none, t1, t2}
  MaxAmount = 5000  MaxName = 2  MaxShocks = 2  Minute = 2  FormDay = 4  MaxTyped <- MCMaxTyped  LastMinute = 4  MaxStored = 2
  Years = {2025, 2026, 2027, 2028}  Dates <- MCDates
SYMMETRY Symmetry
CHECK_DEADLOCK FALSE
INVARIANTS NoVerifiedPriceIsNoticed
