----------------------------- MODULE MarketQuotes -----------------------------
(***************************************************************************)
(* From the replies of market-data providers to the verdict of a monitor     *)
(* rule: getMarketQuotes asks the configured providers, reconciles what they  *)
(* reply and keeps a last known good value for each symbol                   *)
(* (server/market/service.ts, quality.ts, last-known-good.ts); a portfolio is *)
(* valued with the answer and its risk computed from histories                *)
(* (server/portfolio/service.ts, src/domain/portfolio/valuation.ts, risk.ts); *)
(* evaluateRule judges rules on that observation                              *)
(* (server/monitors/evaluate.ts).                                            *)
(*                                                                         *)
(* Every timestamp is an age, in days.  A market value is price * quantity;  *)
(* percentages are compared after multiplication, out of Whole.              *)
(***************************************************************************)
EXTENDS Integers, FiniteSetsExt, Functions

CONSTANTS
    NoQuote,
    Stocks, Coins,   \* symbols of the US region
    Foreign,         \* symbols of the catalog that no provider covers
    Replies,         \* Replies[provider][symbol]: answers of a provider, from its cache or not
    Configs,         \* deployments: mode, providers configured, feeds, mock fallback
    MaxDeviation,    \* QUOTE_MAX_DEVIATION_BPS, out of Whole
    MaxAge,          \* QUOTE_MAX_AGE_*_SECONDS
    Delay,           \* what a delayed feed adds to it
    LkgLife,         \* LAST_KNOWN_GOOD_SECONDS
    FallbackPrice, FallbackAge,
    Held,            \* Held[symbol]: quantity and cost of a position
    MaxRisk,         \* MAX_RISK_POSITIONS
    Few, Many,       \* the aligned days a metric and an available metric need
    Days, Bars,      \* days of the local simulation; histories a provider may have
    Rules,           \* the monitor rules of the portfolio
    Whole

VARIABLES
    config,    \* the deployment
    asked,     \* "idle", "primary", "all", "settled" or "judged"
    replies,   \* by provider and symbol
    quotes,   \* by symbol
    lkg,       \* last known good quotes, by symbol
    kept,      \* the days of the last verified history, by symbol
    captured,  \* symbols whose quote is good enough for alerts and observations
    verdicts   \* by rule

quoteVars == <<config, asked, replies, quotes, lkg, kept, captured, verdicts>>

-----------------------------------------------------------------------------
(* What providers send and what is made of it.                               *)

Maybe(S) == S \cup {NoQuote}
RawPrice == [price : Nat, age : Nat]
Raw(p) ==
    CASE p = "alpaca" -> [trade : Maybe(RawPrice), minute : Maybe(RawPrice), daily : Maybe(RawPrice),
                          previous : Maybe(RawPrice), open : BOOLEAN]
      [] p = "coinbase" -> [price : Maybe(Nat), age : Maybe(Nat), last : Maybe(Nat)]
      [] p = "finnhub" -> [price : Maybe(Nat), age : Maybe(Nat), open : BOOLEAN]
Modes == {"live", "delayed", "snapshot", "stale", "fallback"}
RemoteQuotePatch ==
    [price : Nat, age : Nat, open : BOOLEAN, mode : Modes, delayed : BOOLEAN,
     quality : {"provider", "verified", "degraded", "synthetic"},
     decision : {"none", "accepted", "stale", "degraded"}]

-----------------------------------------------------------------------------
(* The catalog: a provider is asked only for what it supports.               *)

Catalog == Stocks \cup Coins \cup Foreign
InRegion == Catalog \ Foreign
Providers == {"alpaca", "coinbase", "finnhub"}
Supports(p) ==
    CASE p = "alpaca" -> InRegion
      [] p = "coinbase" -> Coins
      [] p = "finnhub" -> Stocks
Priority(p) == CASE p = "alpaca" -> 0 [] p = "coinbase" -> 1 [] p = "finnhub" -> 2

\* Feeds are live or delayed (config.ts:125), and transactions name symbols of the catalog only
\* (transactions.ts:80).
ASSUME QuotesAssumption ==
    /\ NoQuote \notin RemoteQuotePatch /\ LkgLife \in Nat
    /\ FallbackAge \in Nat /\ \A s \in Catalog : FallbackPrice[s] \in Nat
    /\ \A c \in Configs : {c.feed, c.finnhub} \subseteq {"live", "delayed"}
    /\ \A p \in Providers, s \in InRegion : Replies[p][s] \subseteq [raw : Raw(p), cached : BOOLEAN]
    /\ DOMAIN Held \subseteq Catalog

NoReplies == [p \in Providers |-> [s \in InRegion |-> NoQuote]]

\* The local simulation, clearly marked.
FallbackQuote(s) ==
    [price |-> FallbackPrice[s], age |-> FallbackAge, open |-> s \in Coins, mode |-> "fallback",
     delayed |-> FALSE, quality |-> "synthetic", decision |-> "degraded"]

-----------------------------------------------------------------------------
(* Quality.                                                                  *)

\* provenance.delayedSeconds, which a quote of a delayed feed keeps when it comes from the cache.
OldestAllowed(q) == IF q.delayed THEN MaxAge + Delay ELSE MaxAge
Valid(q) == q # NoQuote /\ (q.open => q.age <= OldestAllowed(q))
Usable(q) ==
    /\ Valid(q)
    /\ q.mode \notin {"stale", "fallback", "mock"}
    /\ q.quality \notin {"degraded", "synthetic"}
AlertEligible(q) ==
    /\ q.mode \in {"live", "delayed"}
    /\ q.quality \in {"provider", "verified"}
    /\ q.decision \notin {"degraded", "rejected"}

LargerOf(a, b) == IF a > b THEN a ELSE b
Distance(a, b) == IF a > b THEN a - b ELSE b - a
Deviates(q, r) == Distance(q.price, r.price) * Whole > MaxDeviation * LargerOf(q.price, r.price)

RankByPriority(q, p) == Priority(p)
\* valid.sort: what a failed provider still has in its cache comes last.
Rank(q, p) == Priority(p) + IF q.mode = "stale" THEN 3 ELSE 0
Candidates(s) == {p \in Providers : Valid(replies[p][s])}
Chosen(s) ==
    CHOOSE p \in Candidates(s) :
        \A r \in Candidates(s) : Rank(replies[p][s], p) <= Rank(replies[r][s], r)
Freshest(s) ==
    CHOOSE p \in Candidates(s) :
        \A r \in Candidates(s) :
            \/ replies[p][s].age < replies[r][s].age
            \/ replies[p][s].age = replies[r][s].age
               /\ Rank(replies[p][s], p) <= Rank(replies[r][s], r)
Decision(q) == IF q.mode = "stale" THEN "stale" ELSE "accepted"

\* At most two providers support a symbol: the chosen one and a peer.
Alone(s) ==
    LET q == replies[Chosen(s)][s] IN [q EXCEPT !.decision = Decision(q)]
Confirmed(s) ==
    LET q == replies[Chosen(s)][s]
    IN  [q EXCEPT !.quality = "verified", !.decision = Decision(q)]
Quarantined(s) ==
    [replies[Freshest(s)][s] EXCEPT !.mode = "snapshot", !.quality = "degraded",
                                    !.decision = "degraded"]
Contradicted(s) ==
    \E p, r \in Candidates(s) : Deviates(replies[p][s], replies[r][s])
Reconcile(s) ==
    IF Candidates(s) = {} THEN NoQuote
    ELSE IF Contradicted(s) THEN Quarantined(s)
    ELSE IF Cardinality(Candidates(s)) = 1 THEN Alone(s)
    ELSE Confirmed(s)

-----------------------------------------------------------------------------
(* Last known good.                                                          *)

WorthKeeping(q) ==
    /\ q.mode \in {"live", "delayed", "snapshot"}
    /\ q.quality \in {"provider", "verified"}
LastKnownGoodAsStored(s) == lkg[s].quote
LastKnownGood(s) ==
    [lkg[s].quote EXCEPT !.mode = "stale", !.quality = "verified", !.decision = "stale"]
NothingKept == [quote |-> NoQuote, life |-> 0]

Good(s) == LET q == Reconcile(s) IN q # NoQuote /\ q.quality # "degraded"
\* unread: symbols whose last known good value cannot be read.
Answer(s, unread) ==
    IF s \in Foreign THEN IF config.mock THEN FallbackQuote(s) ELSE NoQuote
    ELSE IF Good(s) THEN Reconcile(s)
    ELSE IF lkg[s].life > 0 /\ s \notin unread THEN LastKnownGood(s)
    ELSE IF Reconcile(s) # NoQuote THEN Reconcile(s)
    ELSE IF config.mock THEN FallbackQuote(s)
    ELSE NoQuote

-----------------------------------------------------------------------------
(* The request for quotes.                                                   *)

\* Alpaca's snapshot has up to three prices, each with its time: the latest trade, the last
\* minute and the day.  Without the day's bar or the one before there is no quote.
SnapshotPatch(raw) ==
    LET last == IF raw.trade # NoQuote THEN raw.trade
                ELSE IF raw.minute # NoQuote THEN raw.minute ELSE raw.daily
    IN  IF raw.daily = NoQuote \/ raw.previous = NoQuote THEN NoQuote
        ELSE [price |-> last.price, age |-> last.age, open |-> raw.open, mode |-> config.feed,
              delayed |-> config.feed = "delayed", quality |-> "provider", decision |-> "none"]

\* Coinbase's ticker may come without its price, then the day's last one counts, and without
\* its time, then the quote is said to be of now.  Coins are always traded.
CoinbaseQuote(raw) ==
    LET price == IF raw.price # NoQuote THEN raw.price ELSE raw.last
    IN  IF price = NoQuote THEN NoQuote
        ELSE [price |-> price, age |-> IF raw.age = NoQuote THEN 0 ELSE raw.age, open |-> TRUE,
              mode |-> "live", delayed |-> FALSE, quality |-> "provider", decision |-> "none"]

FinnhubQuote(raw) ==
    IF raw.price = NoQuote \/ raw.age = NoQuote THEN NoQuote
    ELSE [price |-> raw.price, age |-> raw.age, open |-> raw.open, mode |-> config.finnhub,
          delayed |-> config.finnhub = "delayed", quality |-> "provider", decision |-> "none"]

QuoteOf(p, raw) ==
    CASE p = "alpaca" -> SnapshotPatch(raw)
      [] p = "coinbase" -> CoinbaseQuote(raw)
      [] p = "finnhub" -> FinnhubQuote(raw)
\* What the cache of a failing provider still has.
MarkStale(q) == IF q = NoQuote THEN NoQuote ELSE [q EXCEPT !.mode = "stale", !.quality = "verified"]

\* What a provider may reply for a symbol when it is asked for the symbols wanted.
MayReply(p, s, wanted) ==
    {NoQuote} \cup
    IF p \in config.on /\ s \in Supports(p) \cap wanted
    THEN {IF r.cached THEN MarkStale(QuoteOf(p, r.raw)) ELSE QuoteOf(p, r.raw) : r \in Replies[p][s]}
    ELSE {}
\* A symbol that fails is left out of what the provider returns, the others are not.
OneReplies(p, wanted) ==
    LET may == [s \in InRegion |-> MayReply(p, s, wanted)]
    IN  {f \in [InRegion -> UNION Range(may)] : \A s \in InRegion : f[s] \in may[s]}

QuotesInit ==
    /\ config \in Configs
    /\ asked = "idle"
    /\ replies = NoReplies
    /\ quotes = [s \in Catalog |-> NoQuote]
    /\ lkg = [s \in InRegion |-> NothingKept]
    /\ kept = [s \in InRegion |-> {}]
    /\ captured = {}
    /\ verdicts = [r \in Rules |-> "none"]

\* marketProviderMode other than quorum: Alpaca first.
AskPrimary ==
    /\ asked = "idle" /\ config.on # {} /\ config.mode # "quorum"
    /\ \E f \in OneReplies("alpaca", InRegion) : replies' = [NoReplies EXCEPT !["alpaca"] = f]
    /\ asked' = IF config.mode = "primary" /\ "alpaca" \in config.on THEN "all" ELSE "primary"
    /\ UNCHANGED <<config, quotes, lkg, kept, captured, verdicts>>

AskRest ==
    /\ asked = "primary"
    /\ LET missing == {s \in InRegion : ~ Usable(replies["alpaca"][s])}
       IN  \E f \in OneReplies("coinbase", missing), g \in OneReplies("finnhub", missing) :
               replies' = [replies EXCEPT !["coinbase"] = f, !["finnhub"] = g]
    /\ asked' = "all"
    /\ UNCHANGED <<config, quotes, lkg, kept, captured, verdicts>>

AskAll ==
    /\ asked = "idle" /\ config.on # {} /\ config.mode = "quorum"
    /\ \E f \in OneReplies("alpaca", InRegion), g \in OneReplies("coinbase", InRegion),
          h \in OneReplies("finnhub", InRegion) :
           replies' = [p \in Providers |->
                          CASE p = "alpaca" -> f [] p = "coinbase" -> g [] p = "finnhub" -> h]
    /\ asked' = "all"
    /\ UNCHANGED <<config, quotes, lkg, kept, captured, verdicts>>

\* No provider is configured: the simulation, or an error, which leaves positions unpriced.
Unconfigured ==
    /\ asked = "idle" /\ config.on = {}
    /\ quotes' = [s \in Catalog |-> IF config.mock THEN FallbackQuote(s) ELSE NoQuote]
    /\ asked' = "settled"
    /\ UNCHANGED <<config, replies, lkg, kept, captured, verdicts>>

\* The loop over the symbols in region; a write or a read of the cache may fail.
Settle ==
    /\ asked = "all"
    /\ \E broken \in SUBSET InRegion :
           /\ quotes' = [s \in Catalog |-> Answer(s, broken)]
           /\ lkg' = [s \in InRegion |->
                         IF Good(s) /\ WorthKeeping(Reconcile(s)) /\ s \notin broken
                         THEN [quote |-> Reconcile(s), life |-> LkgLife] ELSE lkg[s]]
    /\ asked' = "settled"
    /\ UNCHANGED <<config, replies, kept, captured, verdicts>>

-----------------------------------------------------------------------------
(* Valuation of the positions held.                                          *)

Priced == {s \in DOMAIN Held : quotes[s] # NoQuote}
ValueOf(s) == Held[s].quantity * quotes[s].price
Total == MapThenSumSet(ValueOf, Priced)
QuoteQuality(s) ==
    LET q == quotes[s]
    IN  IF q = NoQuote THEN "unpriced"
        ELSE IF /\ q.quality \in {"provider", "verified"}
                /\ q.mode \in {"live", "delayed", "snapshot"}
                /\ q.decision \in {"none", "accepted"}
        THEN "verified" ELSE "estimated"
OverallQuality ==
    LET qualities == {QuoteQuality(s) : s \in DOMAIN Held}
    IN  IF qualities \subseteq {"verified"} THEN "verified"
        ELSE IF Cardinality(qualities) = 1 THEN CHOOSE q \in qualities : TRUE
        ELSE "mixed"
\* asOfISO: a portfolio is no fresher than its oldest priced component.
OldestAge == Max({quotes[s].age : s \in Priced} \cup {0})

-----------------------------------------------------------------------------
(* Risk, from one year of daily closes.                                      *)

\* {} is an empty answer; Fails is none at all, an open circuit or a stale cache.
Fails == {-1}
\* A provider's bars from before the range are dropped.
Candles(bars) == bars \cap Days
Simulated == [quality |-> "synthetic", days |-> Days]
HistoryOf(s, reply) ==
    IF s \in Foreign \/ "alpaca" \notin config.on \/ (reply # Fails /\ Candles(reply) = {}) THEN Simulated
    ELSE IF reply # Fails THEN [quality |-> "verified", days |-> Candles(reply)]
    ELSE IF kept[s] # {} THEN [quality |-> "stale", days |-> kept[s]]
    ELSE Simulated
\* The histories of the largest positions.
Selected ==
    CHOOSE top \in SUBSET Priced :
        /\ Cardinality(top) = Min({MaxRisk, Cardinality(Priced)})
        /\ \A s \in top, t \in Priced \ top : ValueOf(s) >= ValueOf(t)

ReturnDays(history) == history.days \ {Min(history.days)}
DataQuality(histories, of) ==
    IF of = {} \/ \E s \in of : histories[s].quality = "synthetic" THEN "synthetic"
    ELSE IF \A s \in of : histories[s].quality = "verified" THEN "verified"
    ELSE "mixed"
ComputePortfolioRisk(histories) ==
    LET eligible == {s \in DOMAIN histories : Cardinality(ReturnDays(histories[s])) >= Few}
        covered  == MapThenSumSet(ValueOf, eligible)
        aligned  == {d \in Days : \A s \in eligible : d \in ReturnDays(histories[s])}
    IN  [dataQuality |-> DataQuality(histories, eligible),
         status |->
             IF covered = 0 \/ Cardinality(aligned) < Few THEN "insufficient-data"
             ELSE IF Cardinality(aligned) >= Many /\ 10 * covered >= 8 * Total THEN "available"
             ELSE "partial",
         topHolding |-> Max({ValueOf(s) : s \in Priced} \cup {0})]

-----------------------------------------------------------------------------
(* Rules.                                                                    *)

Decide(breached) == IF breached THEN "breached" ELSE "clear"

NoVerifiedPrice(r) ==
    LET age == quotes[r.symbol].age
    IN  CASE QuoteQuality(r.symbol) = "verified" -> "clear"
          [] QuoteQuality(r.symbol) = "unpriced" -> "deferred"
          [] OTHER -> IF age < OldestAge THEN "deferred" ELSE Decide(age - OldestAge > r.value)

Priceful(r) ==
    LET price == quotes[r.symbol].price
        cost  == Held[r.symbol].cost
    IN  CASE r.condition = "price_below" -> Decide(price < r.value)
          [] r.condition = "price_above" -> Decide(price > r.value)
          [] r.condition = "drawdown_from_entry_pct" ->
                 IF cost = 0 THEN "deferred" ELSE Decide((cost - price) * Whole > r.value * cost)
          [] r.condition = "weight_above_pct" ->
                 Decide(ValueOf(r.symbol) * Whole > r.value * Total)

EvaluateThesis(r) ==
    IF r.symbol \notin DOMAIN Held THEN "deferred"
    ELSE IF r.condition = "no_verified_price_days" THEN NoVerifiedPrice(r)
    ELSE IF QuoteQuality(r.symbol) # "verified" THEN "deferred"
    ELSE Priceful(r)

EvaluateRisk(r, risk) ==
    IF risk.dataQuality # "verified" \/ risk.status # "available" THEN "deferred"
    ELSE Decide(risk.topHolding * Whole > r.value * Total)

\* runPortfolioScenario: the shocks that match a position add up, a price never falls below 0.
Shocked(s, r) == LET pct == r.shock[s] IN (ValueOf(s) * Max({Whole + pct, 0})) \div Whole
EvaluateStress(r) ==
    IF OverallQuality # "verified" THEN "deferred"
    ELSE LET after == MapThenSumSet(LAMBDA s : Shocked(s, r), Priced)
         IN  Decide((Total - after) * Whole > r.value * Total)

EvaluateRule(r, risk) ==
    CASE r.kind = "thesis_invalidation" -> EvaluateThesis(r)
      [] r.kind = "risk_threshold" -> EvaluateRisk(r, risk)
      [] r.kind = "stress_scenario" -> EvaluateStress(r)

BuildObservation ==
    /\ asked = "settled"
    /\ \E reply \in [InRegion \cap Selected -> Bars \cup {{}, Fails}] :
           LET histories == [s \in Selected |-> HistoryOf(s, IF s \in Foreign THEN {} ELSE reply[s])]
           IN  /\ verdicts' = [r \in Rules |-> EvaluateRule(r, ComputePortfolioRisk(histories))]
               /\ kept' = [s \in InRegion |->
                              IF s \in Selected /\ histories[s].quality = "verified"
                              THEN histories[s].days ELSE kept[s]]
    /\ asked' = "judged"
    /\ UNCHANGED <<config, replies, quotes, lkg, captured>>

\* The routes that store quotes as observations, or show them to price alerts.
CaptureMarket ==
    /\ asked = "settled"
    /\ captured' = {s \in Catalog : quotes[s] # NoQuote /\ AlertEligible(quotes[s])}
    /\ asked' = "judged"
    /\ UNCHANGED <<config, replies, quotes, lkg, kept, verdicts>>

\* The next request, perhaps a day later.
Aged(entry, days) ==
    IF entry.life <= days THEN NothingKept
    ELSE [quote |-> [entry.quote EXCEPT !.age = @ + days], life |-> entry.life - days]
Later ==
    /\ asked = "judged"
    /\ \E days \in {0, 1} : lkg' = [s \in InRegion |-> Aged(lkg[s], days)]
    /\ \E lost \in {{}, InRegion} : kept' = [s \in InRegion |-> IF s \in lost THEN {} ELSE kept[s]]
    /\ replies' = NoReplies
    /\ quotes' = [s \in Catalog |-> NoQuote]
    /\ captured' = {}
    /\ verdicts' = [r \in Rules |-> "none"]
    /\ asked' = "idle"
    /\ UNCHANGED config

QuotesNext ==
    \/ AskPrimary \/ AskRest \/ AskAll \/ Unconfigured
    \/ Settle
    \/ BuildObservation
    \/ CaptureMarket
    \/ Later

QuotesSpec == QuotesInit /\ [][QuotesNext]_quoteVars

-----------------------------------------------------------------------------
(* Properties.                                                               *)

Judged(r) == verdicts[r] \in {"clear", "breached"}
PriceRules ==
    {r \in Rules : /\ r.kind = "thesis_invalidation"
                   /\ r.condition \in {"price_below", "price_above", "drawdown_from_entry_pct"}}

\* A provider replied with this price in this very request, recently enough, and no other
\* provider's valid reply contradicts it.
LivePrice(s) ==
    \E p \in Candidates(s) :
        /\ replies[p][s].mode # "stale"
        /\ replies[p][s].price = quotes[s].price
        /\ ~ Contradicted(s)

\* A rule on a price is judged, and a price is stored as an observation or shown to alerts, only
\* when a provider replied with it now and no other contradicts it: a last known good value, a
\* cached one, a quarantined one and a simulated one never get there (evaluate.ts:86, quality.ts:214).
JudgedPricesAreLive ==
    /\ \A r \in PriceRules : Judged(r) => r.symbol \in InRegion /\ LivePrice(r.symbol)
    /\ \A s \in captured : s \in InRegion /\ LivePrice(s)

\* A reply that is good enough is used, although the preferred provider has only its cache or an
\* old value, and although an earlier answer is kept: failover loses no quote (service.ts:106).
GoodReplyIsUsed ==
    asked = "settled" =>
        \A s \in DOMAIN Held \cap InRegion :
            (\E p \in Candidates(s) : replies[p][s].mode # "stale") /\ ~ Contradicted(s)
                => QuoteQuality(s) = "verified"

\* Only uncontradicted replies of the same request are judged or captured, and a good one is used.
RepliesAreUsedRight == JudgedPricesAreLive /\ GoodReplyIsUsed

\* evaluate.ts:153 says that no_verified_price_days exists to fire precisely when a price is not
\* verified: once the last price of a position is older than the days of the rule, it is breached.
NoVerifiedPriceIsNoticed ==
    \A r \in Rules :
        (/\ Judged(r) /\ r.kind = "thesis_invalidation" /\ r.condition = "no_verified_price_days"
         /\ QuoteQuality(r.symbol) = "estimated" /\ quotes[r.symbol].age > r.value)
            => verdicts[r] = "breached"
=============================================================================
