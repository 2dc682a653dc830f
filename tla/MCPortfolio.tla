----------------------------- MODULE MCPortfolio -----------------------------
(***************************************************************************)
(* One run for parts that meet in no variable: the ledger of a portfolio, the *)
(* planners of rebalances and of contributions, the dates of its goal, the    *)
(* quotes its rules are judged with, its returns, the alerts of a browser's   *)
(* own, the forms of the portfolio page, and the calendars of the charts.  A *)
(* behaviour is one of one part; the others keep still.                      *)
(***************************************************************************)
EXTENDS PortfolioLedger, GoalSchedule, MarketQuotes, LocalAlerts

CONSTANTS
  Parts,                 \* the parts to check
  k1, k2, k3, k4, k5, i1, i2, c1, c2, t1, t2,
  Scale, MinimumSlack, CostSlack, AmountSlack, CashSymbol, MaxCents, FillMove, PriceMove, Books, Prices, Deposits, stock, coin, foreign,
  Captures, Amounts, Quoted, Estimates, Histories, Bucket, Day, Listed, LastCapture, MaxTrades,
  None, Forms, Typed, blank, Panels, MaxAmount, MaxName, MaxShocks, Minute, FormDay, MaxTyped, LastMinute, MaxStored,
  Years, Dates

VARIABLES
  part,
  job, rest, cash, taxes, orders, outcome,                                  \* OrderOptimizer
  book, phase, base, plan,                                                  \* RebalancePlanner
  deposit, step, remaining, bought, projection, verdict,                    \* ContributionPlanner
  time, bookings, rows, reading, candles,                                   \* PortfolioReturns
  followed, saved, edition, shownVersion, form, submitted, approvedAt, minute,  \* PanelForms
  calendar, endDate                                                         \* TradingCalendar

optimizerVars == <<job, rest, cash, taxes, orders, outcome>>
rebalanceVars == <<book, phase, base, plan>>
contributionVars == <<deposit, step, remaining, bought, projection, verdict>>

returnsVars == <<time, bookings, rows, reading, candles>>
sheetVars == <<followed, saved, edition, shownVersion, form, submitted, approvedAt, minute>>
dateVars == <<calendar, endDate>>

Rebalance == INSTANCE RebalancePlanner WITH MaxMove <- PriceMove
Contribution == INSTANCE ContributionPlanner WITH MaxMove <- FillMove
Returns == INSTANCE PortfolioReturns WITH
  clock <- time, ledger <- bookings, snapshots <- rows, Prices <- Quoted, MaxClock <- LastCapture
Sheets == INSTANCE PanelForms WITH
  Kinds <- Forms, Blank <- blank, Day <- FormDay, MaxClock <- LastMinute, MaxVersion <- MaxStored,
  stored <- saved, version <- edition, request <- submitted, clock <- minute
Charts == INSTANCE TradingCalendar

-----------------------------------------------------------------------------
(* The ledger.  Keys are interchangeable; rows are told apart by their identifiers. *)

Deposit == [kind |-> "deposit", symbol |-> "none", qty |-> 0, cash |-> 2]
Buy     == [kind |-> "buy",     symbol |-> "NVDA", qty |-> 1, cash |-> 2]
Sell    == [kind |-> "sell",    symbol |-> "NVDA", qty |-> 1, cash |-> 2]

MCEntries == {Deposit, Buy, Sell}
NoBatches == [run \in {} |-> <<>>]
OneBatch  == [run \in {"run"} |-> <<Deposit, Buy>>]

Symmetry == Permutations(Keys)

-----------------------------------------------------------------------------
(* Portfolios and deposits, with and without costs.                            *)

Lot(id, s, q, c) == [id |-> id, symbol |-> s, quantity |-> q, unitCost |-> c]
Costless == [fifo |-> TRUE, fixed |-> 0, commission |-> 0, buySlippage |-> 0, sellSlippage |-> 0,
             salesTax |-> 0, gainsTax |-> 0, maxCost |-> 10]
MCPolicies ==
    {Costless, [Costless EXCEPT !.fixed = 1, !.maxCost = 3], [Costless EXCEPT !.buySlippage = 1, !.sellSlippage = 1],
     [Costless EXCEPT !.salesTax = 1, !.gainsTax = 5, !.commission = 1], [Costless EXCEPT !.fifo = FALSE]}
MCBooks ==
    {[cash |-> c, holdings |-> h, targets |-> t, threshold |-> 1, minimum |-> m, policy |-> p, lots |-> l,
      prices |-> (1 :> 5 @@ 2 :> 4 @@ 3 :> 3), verified |-> v, recent |-> {1, 2, 3}, stamp |-> 0] :
        c \in {2, 10}, h \in {(1 :> 8 @@ 2 :> 12), (1 :> 16 @@ 2 :> 16 @@ 3 :> 2)}, v \in {{1, 2, 3}, {1, 2}},
        t \in {(0 :> 2 @@ 1 :> 4 @@ 3 :> 4), (2 :> 10), (1 :> 5 @@ 2 :> 4)},
        m \in {2, 5}, p \in MCPolicies,
        l \in {<<Lot(1, 1, 4, 2), Lot(2, 2, 16, 5), Lot(3, 1, 12, 6)>>, <<Lot(1, 1, 8, 1)>>}}
MCDeposits ==
    {[goal |-> g, monthly |-> dm[1], rate |-> r, periods |-> n, overdue |-> n = 0, active |-> TRUE,
      cash |-> c, values |-> v, targets |-> t, minimum |-> dm[2], policy |-> p, prices |-> (1 :> 2 @@ 2 :> 3),
      verified |-> e, recent |-> {1, 2}] :
        g \in {20, 60}, dm \in {<<6, 0>>, <<5, 4>>, <<5, 5>>, <<12, 0>>, <<12, 3>>}, r \in {-1, 1}, n \in {0, 3}, c \in {0, 3},
        v \in {(1 :> 9 @@ 2 :> 0), (1 :> 7 @@ 2 :> 4)},
        t \in {(0 :> 3 @@ 1 :> 3 @@ 2 :> 4), (1 :> 5 @@ 2 :> 5), (1 :> 6)},
        p \in {Costless, [Costless EXCEPT !.fixed = 1, !.maxCost = 2],
              [Costless EXCEPT !.fixed = 1, !.maxCost = 3], [Costless EXCEPT !.buySlippage = 5, !.commission = 1]},
        e \in {{1}, {1, 2}}}

-----------------------------------------------------------------------------
(* Replies of providers, deployments and rules.                                *)

Bar(p, a) == [price |-> p, age |-> a]
Snapshot(trade, newest, open) ==
    [trade |-> trade, minute |-> newest, daily |-> Bar(20, 1), previous |-> Bar(18, 2), open |-> open]
Now(raw) == [raw |-> raw, cached |-> FALSE]
Cached(raw) == [raw |-> raw, cached |-> TRUE]
Ticker(p, a, l) == [price |-> p, age |-> a, last |-> l]
MCReplies ==
    "alpaca" :> (stock :> {Now(Snapshot(Bar(20, 0), NoQuote, TRUE)), Now(Snapshot(NoQuote, NoQuote, TRUE)),
                           Cached(Snapshot(NoQuote, Bar(28, 0), FALSE)),
                           Now([Snapshot(Bar(20, 0), NoQuote, TRUE) EXCEPT !.previous = NoQuote])}
                 @@ coin :> {Now([Snapshot(Bar(5, 0), NoQuote, TRUE) EXCEPT !.daily = Bar(5, 1)])})
    @@ "finnhub" :> (stock :> {Now([price |-> 20, age |-> 0, open |-> TRUE]), Now([price |-> 28, age |-> 1, open |-> TRUE]),
                           Cached([price |-> 20, age |-> 1, open |-> TRUE])}
                     @@ coin :> {})
    @@ "coinbase" :> (stock :> {} @@ coin :> {Now(Ticker(NoQuote, NoQuote, 9))})
AllProviders == {"alpaca", "coinbase", "finnhub"}
MCConfigs ==
    {[mode |-> m, on |-> AllProviders, mock |-> FALSE, feed |-> "live", finnhub |-> "delayed"] : m \in {"quorum", "primary", "failover"}}
    \cup {[mode |-> "failover", on |-> {"finnhub"}, mock |-> TRUE, feed |-> "live", finnhub |-> "live"]}
    \cup {[mode |-> "quorum", on |-> {}, mock |-> k, feed |-> "live", finnhub |-> "live"] : k \in BOOLEAN}
MCHeld == stock :> [quantity |-> 1, cost |-> 24] @@ coin :> [quantity |-> 3, cost |-> 5]
          @@ foreign :> [quantity |-> 1, cost |-> 0]
MCFallbackPrice == stock :> 22 @@ coin :> 4 @@ foreign :> 3
MCRules ==
    {[kind |-> "thesis_invalidation", condition |-> c, symbol |-> stock, value |-> v] :
        <<c, v>> \in {<<"price_below", 21>>, <<"price_above", 25>>, <<"drawdown_from_entry_pct", 3>>,
                      <<"weight_above_pct", 6>>, <<"no_verified_price_days", 1>>}}
    \cup {[kind |-> "thesis_invalidation", condition |-> "no_verified_price_days", symbol |-> foreign, value |-> 1]}
    \cup {[kind |-> "risk_threshold", value |-> 6]}
    \cup {[kind |-> "stress_scenario", value |-> 3, shock |-> (stock :> -5 @@ coin :> -25 @@ foreign :> 0)]}
MCDays == 1..3
MCBars == {0..3}
MCHistories == {(0 :> 1) @@ (2 :> 2)}
MCFirstDay == [p \in Portfolios |-> p]

\* What is typed into the forms: the values next to the limits of every check, one of them beyond.
MCTyped == [
  name |-> {0, 1, 3}, target |-> {blank, 0, 5, 10, 5000, 5010}, date |-> {blank, 0, 1},
  return |-> {blank, -500, -510, 500, 510}, amount |-> {blank, 15, 5000, 5010}, day |-> {blank, 5, 280, 290},
  shareA |-> {blank, 0, 5999, 5998, 10000}, shareB |-> {4000, 3999, -1}, twin |-> {TRUE},
  drift |-> {blank, 1, 1000, 1010}, minTrade |-> {blank, -10, 5010}, fixed |-> {blank, -10, 5, 5000, 5010},
  bps |-> {blank, 100000, 100010}, tax |-> {blank, 1000, 1010},
  condition |-> {"price_above", "weight_above_pct", "no_verified_price_days"}, symbol |-> {0, 2, 3},
  value |-> {blank, 0, 5, 10, 3650, 3660, 10000, 10010}, comparison |-> {"below"}, level |-> {blank, 0, -10000, 10010},
  shocks |-> {<<[to |-> "blank", by |-> 0]>>, <<[to |-> "named", by |-> blank]>>,
              <<[to |-> "named", by |-> -1010]>>, <<[to |-> "named", by |-> 10000]>>},
  loss |-> {blank, 0, 10000, 10010}, enabled |-> {FALSE}, interval |-> {blank, 5, 10, 87600, 87610},
  quantity |-> {blank, 0, 9, 10, 30}, price |-> {blank, 0, 97, 103, 104}, fees |-> {blank, -10, 10},
  tradeAt |-> {blank, 0, 1, 20}]

\* Two fields of a rule and of a fill: a value next to the condition that says how to read it, a quantity
\* next to its price.
MCMaxTyped == [goal |-> 1, policy |-> 1, rule |-> 2, execution |-> 2]

\* Both changes of the American clocks, holidays that fall on a weekend, and two ends of a year.
MCDates ==
  LET Between(from, to) == Charts!utcDate(from[1], from[2], from[3])..Charts!utcDate(to[1], to[2], to[3])
  IN  Between(<<2026, 1, 15>>, <<2026, 2, 31>>) \cup Between(<<2026, 5, 26>>, <<2026, 6, 8>>)
      \cup Between(<<2026, 9, 20>>, <<2026, 10, 30>>) \cup Between(<<2026, 11, 18>>, <<2027, 0, 8>>)
      \cup Between(<<2027, 11, 18>>, <<2028, 0, 10>>)

-----------------------------------------------------------------------------
MCInit ==
  /\ part \in Parts
  /\ Init /\ ScheduleInit
  /\ CASE part = "rebalance" -> Rebalance!Init
       [] part = "contribution" -> Contribution!Init
       [] OTHER -> job = 0 /\ rest = 0 /\ cash = 0 /\ taxes = 0 /\ orders = 0 /\ outcome = 0
  /\ part # "rebalance" => book = 0 /\ phase = 0 /\ base = 0 /\ plan = 0
  /\ part # "contribution" =>
       deposit = 0 /\ step = 0 /\ remaining = 0 /\ bought = 0 /\ projection = 0 /\ verdict = 0
  /\ QuotesInit /\ (part # "market" => config = CHOOSE c \in Configs : TRUE)
  /\ TabsInit
  /\ IF part = "returns" THEN Returns!ReturnsInit
     ELSE time = 0 /\ bookings = 0 /\ rows = 0 /\ reading = 0 /\ candles = 0
  /\ IF part = "forms" THEN Sheets!Init
     ELSE /\ followed = 0 /\ saved = 0 /\ edition = 0 /\ shownVersion = 0 /\ form = 0
          /\ submitted = 0 /\ approvedAt = 0 /\ minute = 0
  /\ IF part = "calendar" THEN Charts!CalendarInit ELSE calendar = 0 /\ endDate = 0

restVars == <<optimizerVars, rebalanceVars, contributionVars, quoteVars, scheduleVars>>
otherVars == <<returnsVars, localVars, sheetVars, dateVars>>

MCNext ==
  \/ part = "ledger" /\ Next /\ UNCHANGED <<part, restVars, otherVars>>
  \/ part = "rebalance" /\ Rebalance!Next
     /\ UNCHANGED <<part, vars, contributionVars, quoteVars, scheduleVars, otherVars>>
  \/ part = "contribution" /\ Contribution!Next
     /\ UNCHANGED <<part, vars, rebalanceVars, quoteVars, scheduleVars, otherVars>>
  \/ part = "market" /\ QuotesNext
     /\ UNCHANGED <<part, vars, optimizerVars, rebalanceVars, contributionVars, scheduleVars, otherVars>>
  \/ part = "goals" /\ ScheduleNext
     /\ UNCHANGED <<part, vars, optimizerVars, rebalanceVars, contributionVars, quoteVars, otherVars>>
  \/ part = "returns" /\ Returns!ReturnsNext /\ UNCHANGED <<part, vars, restVars, localVars, sheetVars, dateVars>>
  \/ part = "tabs" /\ TabsNext /\ UNCHANGED <<part, vars, restVars, returnsVars, sheetVars, dateVars>>
  \/ part = "forms" /\ Sheets!Next /\ UNCHANGED <<part, vars, restVars, returnsVars, localVars, dateVars>>
  \/ part = "calendar" /\ Charts!CalendarNext /\ UNCHANGED <<part, vars, restVars, returnsVars, localVars, sheetVars>>

allVars == <<part, vars, restVars, otherVars>>
MCSpec == MCInit /\ [][MCNext]_allVars

-----------------------------------------------------------------------------
(* The properties of the parts.                                                *)

\* Sells and buys together never reach below the cash that the policy keeps, a deposit buys all it
\* can, and a goal is told the least contribution that reaches it.
PlansSpendRight ==
  /\ part = "rebalance" => Rebalance!ReserveNeverBroken
  /\ part = "contribution" =>
       Contribution!ReserveNeverBroken /\ Contribution!DepositIsUsed /\ Contribution!RequiredIsLeast

\* A rebalance plan that was found safe can be approved as long as nothing has changed, and an
\* approved contribution plan that is filled as estimated completes.
SafePlansAreCarriedOut ==
  /\ [][part = "rebalance" => Rebalance!OnlyChangesExpire]_allVars
  /\ [](part = "contribution" => Contribution!EstimatedFillsComplete)

\* A rebalance plan never spends cash that the policy wants to be kept as cash.
TargetCashProtected == part = "rebalance" => Rebalance!TargetCashProtected

\* Prices that never move make no return, however captures and transactions overlap.
NoReturnFromStandingPrices == part = "returns" => Returns!NoReturnFromStandingPrices

\* What a form accepts and what the server accepts agree, and an edit that changes nothing keeps all.
FormsKeepTheirWord ==
  /\ [](part = "forms" => Sheets!FormsAgree)
  /\ [][part = "forms" => Sheets!UnchangedEditKeeps]_allVars

\* A chart of the American market has a bar where the server says that the market is open, longer
\* ranges show what shorter ones show, and a day ends with its last bar.
ChartsFollowTheMarket == part = "calendar" => Charts!ChartsFollowTheMarket
=============================================================================
