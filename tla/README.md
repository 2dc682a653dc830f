# A verification of Synapsu

Synapsu (`perplexity-finance`) is a personal finance application: a React client, Vercel
functions (`routes/`, `server/`), and a Supabase database whose `security definer`
functions (`supabase/migrations/*.sql`) carry out every change of state that matters, each
in one transaction. Two daily cron jobs do the rest: `evaluate-alerts` at 00:05 and
`daily-maintenance` at 00:20 (`vercel.json`). A function lives at most 60 seconds.

The database keeps single steps honest. What is hard is what happens *between* them: a
service reads five things by five queries and writes one result; two cron runs overlap; a
function is killed with half of its batch settled; the answer of a committed call is lost
and the caller tries again; an owner edits what a background run is just judging; a page
shows the answer of a request made for what was selected before. This project models those
steps, checks them with TLC on small instances and proves the main invariants with TLAPS
for all instances.

## 1. Inventory

| Part | State | Operations | What makes it correct |
|---|---|---|---|
| Portfolio ledger | `portfolio_transactions` (append-only), `portfolios.status`, `updated_at` | append, reverse latest, completion of a plan, archive/restore, paged reconstruction | trade order, one row per key, reversals once and from the end, nothing negative, reads that are a ledger that existed |
| Investment plans (rebalance, contribution) | `portfolio_rebalance_runs`, their events, policy, goal, a service call's reads | generate, approve, reject, complete, expire, sweep; edits of goal, policy, ledger | one open plan, an audit trail that explains it, what is booked is what was planned, every plan closes |
| Calculations of plans | none (pure functions) | orders within cash and costs, rebalance plan, contribution plan, goal projection, costs of fills | reserves are kept to the cent, deposits are used, the least contribution is least, safe plans can be carried out |
| Goals and contribution schedule, snapshots | `portfolio_goals`, next date, scan cursors | save, transition, the daily batch of snapshots, contributions and rebalances | one plan per cycle, everything reached in its turn |
| Price alerts | `price_alerts` with evaluation leases | create, delete, claim, observe, trigger, release | one evaluator per alert, fires exactly on crossings and once, every alert gets its turn |
| Delivery queues, sending | three `*_deliveries` tables; mails sent; `push_subscriptions` | claim with sweep, send, mark, manual retry, closing of a plan; subscribe, sign out, expire | one worker per notice, silence after a plan closed, every notice settles, sent means received |
| Monitor rules and digests | `portfolio_monitor_rules` with lease and latch, `monitor_breaches`, `monitor_digests` | save, delete, claim, evaluate, append breach, record, list, enqueue | a rule is latched exactly when its notice stands, a digest carries its breaches, every rule is evaluated |
| Market data | circuit breaker and cache per instance, last known good | fetch with fallback, probe, reconcile, value, judge | live is fresh, one probe, circuits recover, judged prices are live ones of the same request |
| Operations console | `ops_action_idempotency` | claim key, execute, complete, release, prune | one executor per key, no immediate duplicate, answers that agree |
| Operations summary, health, release gate | provider events in memory, snapshots and incidents in the database | call, capture, prune, report | nothing is called well that nobody has seen well |
| Requests at the gateway | a request's program, the commits it makes | checks, reads, writes, replay, failure, answer | answers tell what was done and show what belongs together |
| Portfolio returns | `portfolio_snapshots`, ledger, benchmark | capture, append, reverse, read | standing prices make no return |
| Browser: sync and stores | watchlist, alerts, local alerts of tabs | session, load, edit, poll, storage event | the local list survives sign-in, owners see their own, lists converge |
| Browser: market | shown quotes and candles, simulation, poll rotation | tick, poll, mount, hide | what was verified is not made up again, every symbol is asked |
| Browser: portfolio page, forms | selection, panels, one load, one request; drafts | select, poll, submit, answer; type, submit | a page shows its selection, forms and server agree |
| Browser: calendars of charts | none (pure functions of an asset's calendar and a date) | holidays, session windows, sessions of a range, instants of bars | a chart has a bar where the server says that the market is open |
| AI answers | the messages of the bar, the panel, the server's rounds of tools | ask, call tools, answer, fall back, show, close | no answer under another question, every question is answered |
| Pages, configuration | little or none | | see section 8 |

How they meet: a completed plan appends to the **ledger** (`complete_*_run` calls
`append_portfolio_transaction`), and the ledger's `updated_at` is the version a **plan** is
pinned to. The numbers of a plan come from the **calculations**, its prices from the **market
data**, its existence from a **scan** or a request at the **gateway**. A plan of a scan enqueues
**deliveries** and closing it disables them; a triggered **alert** and a dispatched **digest**
enqueue deliveries, too. A **goal** edit expires its open contribution plan. The daily
maintenance runs snapshots, scans, drains and monitors one after the other in one function,
so each of them may be cut short. The **browser** knows all of this through loads and polls
that overtake each other.

The hazards of this code, each at its line and with the properties aimed at it, are listed
under `hazards` in `PROJECT.json`.

## 2. Modules

| Module | Models | Checked through | Proofs |
|---|---|---|---|
| `PortfolioLedger` | the ledger of one portfolio and its paged readers | `MCPortfolio` | `PortfolioLedgerProofs` |
| `GoalSchedule` | dates of goals; the daily batches of snapshots, contributions, rebalances | `MCPortfolio`, `MCServices` | `PortfolioLedgerProofs` |
| `OrderOptimizer`, `RebalancePlanner`, `ContributionPlanner` | orders of a plan within cash and costs; plans of both kinds from portfolio to fills | `MCPortfolio` | |
| `MarketQuotes` | replies of providers, reconciled, kept, valued and judged | `MCPortfolio` | `PortfolioLedgerProofs` |
| `PortfolioReturns` | snapshots of one portfolio and the returns computed from them | `MCPortfolio` | |
| `LocalAlerts` | alerts of tabs, kept in one browser | `MCPortfolio` | `PortfolioLedgerProofs` |
| `PanelForms` | forms against what the server accepts | `MCPortfolio` | |
| `TradingCalendar` | the calendars and bars of charts, in browser and server | `MCPortfolio` | |
| `PlanWorkflow` | the plans of one portfolio, both kinds, with policy, goal and service calls | `MCPlanWorkflow`, `MCServices` | `PlanWorkflowProofs` |
| `PlanLifecycle` | what the owner is promised about plans (abstract) | refined by `PlanWorkflow` | refinement proved |
| `MonitorRules` | rules, latches, breaches and digests of one user | `MCPlanWorkflow`, `MCServices` | `MonitorRulesProofs` |
| `NoticeSending` | one notice through mail and push, and the subscriptions | `MCPlanWorkflow` | `NoticeSendingProofs` |
| `AlertEvaluation` | alerts, leases, overlapping evaluators | `MCBrowser` | `BrowserProofs` |
| `PriceAlert` | what the owner of an alert is promised (abstract) | refined by `AlertEvaluation` | refinement proved |
| `WatchlistSync`, `AlertSync`, `BrowserMarket`, `PortfolioDesk` | what a browser shows | `MCBrowser` | `BrowserProofs` |
| `Assistant` | questions, tools and answers | `MCBrowser` | `BrowserProofs` (safety) |
| `DeliveryQueue` | the three delivery queues | `MCNotices` | `DeliveryQueueProofs` |
| `ApiGateway` | requests: checks, calls, commits, answers | `MCNotices` | `ApiGatewayProofs` |
| `OpsWatch` | reports to operators | `MCNotices` | `DeliveryQueueProofs` |
| `OpsIdempotency` | one key of the operations console | `MCServices` | `ServicesProofs` |
| `ProviderCircuit` | circuit and cache of one provider | `MCServices`, `MCProviderCircuit` | `ServicesProofs` |

The `MC*` modules name model values and small data sets and put parts side by side that meet
in no variable: a behaviour of such a run is one of one part, chosen in the initial state,
while the others rest. Every definition that is proved about is the one that is checked.
`PROJECT.json` maps every definition that models code to the lines it stands for. Operators
named as *mutant* in a comment are plausible bugs: each is put in the place of the definition it
varies, and the run must then refute the property it is paired with.

### 2.1 The ledger, goals and plans

**PortfolioLedger.** A database function is split in `Begin*`, when its transaction starts and
`now()` is frozen, and `Commit*`, when it holds `select ... for update` on the portfolio and
takes effect. So the order of `created_at` and the order of commits can differ, which is where
replay order (`trade_at, created_at, id`) and commit order part. `Accepts` is the body of
`append_portfolio_transaction` after its key lookup; `IsLatestActive` the subquery of the
reversal; `CommitComplete` the loop of a completion, all fills or none. `CommitReplay`
answers a known key, whatever it was first used for. `Abort` stands for every raise and
for every connection lost before the commit. A reader takes the portfolio row, then the
count, then pages, each as a query of its own, as `listPortfolioTransactions` does, and
refuses a short page. Identifiers are random, so a batch, whose rows share `created_at`,
takes its identifiers in any order.

**PlanWorkflow.** `calls[p]` is a service call between its queries: `BeginRebalance` and
`BeginContribution` look the key up and read the goal; `ReadPolicy`, `ReadTargets`,
`ReadPortfolio` and `ReadLedger` are the queries of generation; `CreateRebalance` and
`CreateContribution` are the database functions, which compare the versions that were read.
`BeginDecision`, `Assess` and then `Approve`, `Reject`, `Expire` or `Complete` are the decisions,
where the assessment reads everything again before the database is asked. Versions stand for
`updated_at` columns and only grow. Prices are abstracted to the choice whether a plan
looks safe. `Sweep` is `expire_portfolio_rebalance_runs`; `Lapse` is the end of a plan's
validity. `live` says that the plan still has open deliveries.

**The planners.** `OrderOptimizer` walks through the orders, sells before buys, with FIFO lots,
taxes, fixed and relative costs and the cash to keep back, in cents rounded as the code rounds
them. `RebalancePlanner` goes from drift over optimized orders to what generation, approval and
execution judge; `ContributionPlanner` from projection over the split of a deposit to the
validity of its plan and the costs of its fills. They share `OrderOptimizer`'s variables, so
that a mistake there shows in both.

**GoalSchedule.** Days count from 0, months have `MonthLength` of them. An invocation of the
maintenance is a job with a list, a place in it and what it read of the present one;
`Followed` names the cursor a behaviour follows. Edits of the owner, a second invocation and the
end by the platform come between any two of its steps.

**PortfolioReturns.** A capture values the portfolio (`Value`) and stores the row (`Store`) in two
steps, so a stored row may be computed from an older ledger than its time says; the reader
computes time-weighted and money-weighted returns and the comparison with a benchmark.

### 2.2 Alerts, monitors, deliveries

**AlertEvaluation.** `order` ranks armed alerts by `coalesce(last_evaluated_at, created_at)`, the
order of `claim_due_price_alerts`. An evaluator's batch keeps the price each alert was claimed
with; `Observe`, `Trigger` and `Release` compare it with a quote loaded later and then
write, guarded by the alert's state and by nothing else. `Tick` ends leases and no
function outlives `MaxRun`; `Kill` can happen at any time. `LostAnswers` lets a committed
call look failed, after which the evaluator releases the alert once more.

**DeliveryQueue.** One module for three tables: `queue`, chosen in `Init`, says which, and the few
differences are conditions on it. A digest counts an attempt when it fails, the others
when they are claimed; the digest functions record a result whatever the row has become;
a digest cannot be brought back by an operator; the notice of a plan is only claimable
while the plan is pending and is disabled with it. `Accept` separates the provider's
answer from its record, so that everything may happen between the two; the phase
`unsure` is a worker whose record was committed while its answer was lost, and which will
record a failure. `refusals` is a history variable.

**NoticeSending.** What an attempt does: the mail under its key, the list of subscriptions read
once, the pushes one after another, the deletion of endpoints that are gone, the mark of the
row. Browsers sign in and out, subscribe, unsubscribe and lose their endpoints meanwhile; a
kill may come between any two steps. The mail service, which answers a known key without
sending, and the push service are external.

**MonitorRules.** `ClaimRules` leases the due rules in the order they wait in; an observation is
made of one portfolio; each rule is then evaluated, its digest found or inserted, its breach
appended and its state recorded, the steps of `monitor-service.ts`, each of which may fail, lose
its answer or be the last before a kill. The record of an error latches a rule whose breach was
appended. Listing and enqueuing send the digest. What an observation says of a rule is a free
choice. `notified` and `hit` are history variables: whether a notice stands, and which rules an
edit, a lost answer or a crash met half way.

### 2.3 Market data, operations, requests

**ProviderCircuit.** Circuit and cache of one server instance, with the two callers that drive
them. A call is at one of the points between reading memory, reading Upstash, asking the provider
(alone or together with another), writing the entry and telling the circuit. Times are what is
left of them, so the model runs for ever and needs no bound on a clock.

**MarketQuotes.** One request: the providers are asked (`AskPrimary`, `AskRest`, `AskAll`), their
replies settled against each other and the last known good values (`Settle`, `BuildObservation`),
and the result is valued and judged (`CaptureMarket` and what reads it). Every timestamp is an age
in days.

**OpsIdempotency.** One key: `Claim` leases it, `Execute` is `executeAction`, `Complete` records the
response, `Replay` answers from the record, `ExecuteFails` releases, `CompleteFails` keeps the lease.
`reported` counts executions that came to their end since lease or record last ran out.

**OpsWatch.** Events in the memory of two instances, the capture that stores what its own instance
remembers, the report of incidents; summary, health check and release gate are functions of the
state, read with queries of their own, each of which may fail. Incidents are numbered as they happen,
so that a list of the newest is the largest numbers of a set, and a capture's rows of all
providers are one batch.

**ApiGateway.** The database is the sequence of its commits, a handler the sequence of its calls,
by route and operation; calls made in one `Promise.all` are a set. A call passes, is refused,
fails before or after its commit; keyed and versioned functions know what was done before.

### 2.4 The browser

**WatchlistSync, AlertSync.** A load is asked, read at the server and applied; edits, newer loads and
new sessions overtake it. Polls begin when both first loads are in, or as soon as that of the
alerts fails, the watchlist's being still under way then. Edits are sent as calls that are applied in any order, fail or answer
late. **LocalAlerts** stores whole lists from several tabs. **BrowserMarket** tells prices apart
by where they come from: seed, simulation, provider. **PortfolioDesk** reduces what a page holds to
versions of its data: a load is nine reads between its start and its answer. **PanelForms** opens
a form on what is stored (for rules in the panel of the portfolio or of one thesis, which shows its
own rules and fills in its own symbol), lets fields be typed over with the values next to every
limit, submits it while something else is saved, and compares what the form, the route and the
database accept.

**TradingCalendar** computes with dates as numbers of days, as the code does with those of
`Date.UTC`: holidays and their observed days, sessions of each range, the hour of New York by the
browser's own rule and by the server's time zone, and the instants of the bars. **Assistant**
reduces texts to the steps in which they appear; the model may ask for tools, answer with or
without a text, or fail, and the panel shows an answer as long as it is open.

## 3. Runs

Five runs check that what should hold does; seven more each refute one sentence that the
repository says of itself (section 7).

| Run | Parts and instance | What it shows |
|---|---|---|
| `portfolio_books` | a ledger with 2 invocations, 3 keys, deposit/buy/sell, one plan of two fills, a reader with pages of 2, 3 starts, 4 rows; rebalance and contribution plans over a grid of portfolios, policies and deposits; 3 providers in all modes; one goal with 2 invocations and 3 edits; 2 overlapping captures; 2 tabs with 2 alerts; 4 forms; charts of both markets around the turns of the clocks, of holidays and of years | active rows carry trade times in commit order; a key names one row; a read whose portfolio version is still current is exact, and unless a call overtook another replay never sells what was not bought and nothing goes negative; reversals peel the end; one plan per cycle; plans spend only what they may, and safe ones can be carried out; only uncontradicted replies of the same request are judged; standing prices make no return; local alerts fire by what their tab saw; forms and server agree; charts have a bar where the market is open |
| `plan_workflow` | 2 invocations, 2 user keys, a scan key, both kinds, 2 plans, 1 edit; contribution plans with 2 edits of the goal, and with 3 edits and 1 invocation; 2 monitor runs, 1 rule of up to 2 versions, 2 breaches, 2 digests; 1 notice, 2 attempts, 1 kill, 2 users and 2 browsers | one open plan; plans rest on one state; fills go onto the planned ledger; the trail tells the life of a plan, which follows its goal; the whole implements `PlanLifecycle`; the latch tells whether a notice stands; a digest used by one run at a time loses no breach; what is marked sent was received once, and push that is on is subscribed |
| `browser` | 2 evaluators, 2 alerts of both conditions, prices around the target, lease 3 against runs of 2; a watchlist of 2 symbols; alerts of 2 users; a market of 3 symbols polled by 2; a page with 2 portfolios; 2 questions to the assistant | one evaluator per alert, which implements `PriceAlert`; the local list survives sign-in; alerts are those of the session (`ShownIsOfTheSession`), a page shows panels of its selection and never goes back (`ShownInOrder`); lists and page come to show what the server has (`ShowsTheServersLists`); every alert is claimed and every symbol asked again and again (`EachIsVisitedAgain`); verified prices are kept; questions are answered in their place |
| `notices` | 2 notices in each of the 3 queues, 2 workers, 3 attempts, lease 2 against runs of 1; 2 requests at a time at 14 routes, 1 key, 3 received, 1 failure; 2 instances, 1 provider, 2 events or faults, 1 capture | one worker per notice; closed plans are silent; every notice settles; answers tell what was done and show what belongs together; the active alerts exceed their limit by no more than the requests at once; nothing is called well that nobody saw well |
| `services` | 3 requests with lease 4 against runs of 2, retention 5; a circuit with 2 calls and both deployments; 2 rules with limit 1; 2 portfolios with limit 1 and a troubled maintenance; contribution plans nobody decides | no immediate duplicate; live answers are fresh and one probe is out at a time; whoever comes again is answered; circuits recover; every rule, goal and portfolio has its turn and every plan closes (`NothingWaitsForEver`) |
| `ledger_torn_read`, `rebalance_cash`, `monitor_clock`, `goal_date` | `MCPortfolio`, the part they are about | **violated** (section 7) |
| `plan_second_approval`, `monitors_edit` | `MCPlanWorkflow` | **violated** |
| `market_probe` | `MCProviderCircuit` | **violated** |

Every property of a passing run is paired in `PROJECT.json` with a plausible bug in a mapped
definition (a dropped guard, a missing sweep, a swapped column) under which the same
run refutes it.

### Bounds, and why they are enough

* **Parts.** Parts of a run share no variable, so putting them side by side hides nothing; what
  they do to each other is a free choice in each (an edit, a lapse, a price).
* **Two actors.** Every hazard listed is a race of two: two evaluators of an alert, two
  runs of a digest, a call and an edit. Three requests in `services`, so that one can die, one
  execute again and one be answered from the record.
* **Ledger:** three starts give two overlapping calls and a third that meets their result;
  a page of 2 with up to 4 rows makes reads of two pages. The torn read needs five starts:
  its own run leaves everything else out.
* **Plans:** two plans are enough for one to replace the other and to be replayed under
  the other's key. Numbers of keys matter only as *same* or *different*. `Edits` sums versions and is
  2 before the first edit, so `PlanBounds` counts the owner's own (`Edited`), in three parts: with
  both kinds of plan and two invocations at once one edit (`FewEdits`), of portfolio, policy or goal;
  with a contribution plan being generated beside another invocation, the goal saved and then edited,
  paused, closed or renewed once more; with contribution plans and one invocation at a time, three
  edits of anything, so that a goal is changed while its plan is pending or approved, and again
  after that. A completion and the reversal of what it booked come on top.
* **Planners:** amounts up to 500 cents with four parts to the cent, so that every rounding of the
  code (down, up, nearest) differs from the exact value; books with and without each cost; deposits
  with an order of just the minimum and one of just the highest cost. The tolerances of the code
  (1e-9 and 1e-6 dollars) are small against a cent and large or small against the rounding of a
  quantity, by its price; `MinimumSlack`, `AmountSlack` and `CostSlack` are likewise less than a cent,
  and `MinimumSlack` covers the rounding at a price of 2, not at 3.
* **Goals:** months of two days and a target in the second month: enough for a day to be moved
  away and back, for a month to be missed and for a goal to be archived and begun again.
* **Alerts:** prices 0 to 2 around the target 1 are below, at and above.
* **Time:** leases and durations are small, in the code's *order*: whether a lease outlives
  a function, not by how much.
* **Queues:** three attempts stand for the five (six for digests) of `retryAt`: the first, one in
  between and the last.
* **Monitors:** two versions, two breaches and two digests allow an edit under a run, a second
  excursion, and a digest left open by a failed run. `Room` keeps a breach from being observed
  when there is no room for its rows.
* **Requests:** one route in a behaviour; two slots used again, so that a third request meets what
  two concurrent ones left; one failure anywhere.
* **Browser:** two edits, sessions or faults of each kind let one thing overtake another and be
  overtaken. The list that survives sign-in is checked for one user of the browser: with
  another user's session between two of hers, a call of the first may be applied in the second.
* **Forms:** the values next to the limits of every check, one of them beyond. Two fields of a rule
  or of a fill are typed over (a value beside the condition that says how to read it, a quantity
  beside its price), one of a goal or a policy. Rules are edited in the portfolio's panel and in
  those of two theses of one symbol, whose new rules have that symbol filled in, as in the code.
* **Calendars:** the days around both changes of the American clocks, holidays that fall on
  weekends and two ends of a year, for ranges up to a year; of the Korean table the two years it
  shares with them. The ranges of five years and of seven days, which go through the same
  functions, are not evaluated.
* **Assistant:** four rounds of tools, as in the code; answers of up to two steps, so that one is
  between its first and its last; two questions, so that one may follow an unfinished one.
* All bounds on counters are constants named `Max*` and appear as guards.

Deadlock is not reported: each system may be at rest, and the bounded ones stop when their
bounds are used up. Symmetry is used only in runs whose properties are not liveness.

### Fairness, and why the code justifies it

* `PlanWorkflow`: weak fairness of `Lapse` (time passes) and `Sweep` (every scan begins with
  it, and scans are daily). Nothing is assumed of users.
* `AlertEvaluation`: time passes and the cron job comes back every day (weak fairness of `Tick` and
  `Claim`); strong fairness of `Settle`: a function is not killed or cut off from the database
  each time.
* `DeliveryQueue`: time passes, a lapsed plan is closed by the next scan, and a due row is
  taken and answered if that is possible again and again. Strong fairness says that the
  platform does not stop each worker just before its record; without it `EveryNoticeSettles`
  is false, and that is the code: attempts of a digest are only counted when recorded.
* `MonitorRules`: intervals and leases pass, runs begin and go on; if runs begin for ever, some of
  them record what they judged. A rule that killed each run judging it would keep its place at
  the head of the queue for ever.
* `OpsIdempotency`: operators come back until they are answered; if operations are taken up for
  ever, they do not fail every time.
* `GoalSchedule`: days pass, invocations go on, and the maintenance is untroubled again and again.
* `ProviderCircuit`: calls are answered or run into their timeout, events are forgotten, time
  passes and requests keep coming.
* `Assistant`: a call of the model is given up after a minute and the platform ends the request;
  the panel's timer goes on while it is open.
* Browser: calls are answered, timers fire, and often enough a load is answered before the next
  edit or poll (strong fairness of `Replace` and `LoadAnswered`).

In a run of several parts the strong conditions of different parts are joined into one: only
the actions of one part are ever enabled in a behaviour, so each is a condition on that part.

## 4. Proofs

All proofs are checked by tlapm to the last leaf; nothing is assumed but the named
assumptions on constants in each module and what a theorem states. The constants (number
of invocations, keys, alerts, rows, attempts, lengths of leases, limits) are arbitrary. The
theorems a reader should know of are listed under `theorems` in `PROJECT.json`.

**Ledger.** `TypeCorrect`; then `RowsInv`, which says that rows and keys determine each
other, that every answer names a row of its key, and that a reversal's target is a row
that is no reversal, is inductive and gives `KeyNamesOneRow` and `ReversalsAreFinal`.
`CommitOrderIsTradeOrder` uses that `Accepts` compares with all active rows under the
lock and that a step only ever makes rows inactive or appends. The completion, which
appends a sequence of rows each checked against the ones before it, is the long case.
`ReversalsTakeTheLast` combines the two: only `CommitReverse` names an active row, the row it
names is the last in replay order, and as long as rows started in the order they are committed
in, that is the row committed last, because trade times of active rows do not decrease.

`LedgerIsSoundAlways` has three parts. *Fresh reads* (`FreshReadIsExactAlways`): `ReadsInv` says
that a reader that has not been overtaken holds the pages of the present rows up to where it is,
and is inductive because every commit gives the portfolio a version that no reader has. That is
`Moments`: the start of a transaction under way is no version, no reader's version, no row's
`created_at` and no other transaction's start. In the code that is the resolution of `now()`,
microseconds, and no more. The two are mutually inductive with the types. *Sums*: cash and shares
are folds over finite sets, and what is said of them (any element can be added last, only what is
added counts, zeros can be left out) needs an induction over sets. The library's induction
theorems cannot be instantiated here, but its well-foundedness of strict inclusion can: among the
sets that would be exceptions one contains no other (`ASmallestSet`). *Rows*: `SoundRows` says
that no transaction that sells writes another row of that symbol, that the rows up to each sell
cover it (`Sold`, if no transaction overtook another), and that no balance or position *at any
row* is negative (`Solvent`, if every row started later than the one before). The end of the
ledger alone would not be inductive: a reversal returns to what was there before its target. An
append is covered by what `Accepts` compared; a reversal takes back the latest row, and what the
sells before it needed stays (`SoldAfterReversal`), or the end of the ledger, which leaves
balances that were there before (`SolventAfterReversal`). `SoldInReplay` then carries `Sold` from
commit order to replay order: they differ only in rows of one transaction, which weigh nothing in
each other's symbol. The last needs that a completed plan sells a symbol in one row only, which is
`unique(run_id, symbol)` of `202607130002_p7_rebalance_workflow.sql:163` and part of
`LedgerAssumption`. Balances are only claimed when no row has negative cash: a sale may cost more
than it brings.

**Goals.** `CycleInv` says that the plans are a sequence in which no goal has two of one cycle
(`OnePlanPerCycle`). It is inductive because the generation of a plan looks the cycle up in the
same step that inserts, whatever edits of the goal and other invocations did since the scan.

**Quotes and local alerts.** `MarketInv` types replies and kept quotes and says that whatever is
vouched for is a live price of a provider that answered this request and that no other reply
contradicts; a last known good, a simulated or a quarantined quote never is (`AnswersVouched`).
From it `RepliesAreUsedRightAlways`. Of the constants it needs `QuotesAssumption`: feeds are live
or delayed (`config.ts:125`) and transactions name symbols of the catalog (`transactions.ts:80`).
`Baselines` says that a tab has a baseline only for an alert it holds, and one it has witnessed;
`FiresOnlyWhileHeldAlways` follows, for any number of tabs that store over each other.

**Plans.** The table of plans changes in five ways only (`RunsEffect`: touched, moved, dropped,
booked, inserted), which is proved once, and each property then against those five. `Typed` adds
to the type invariant what a call carries from its earlier steps: the plan it decides about
exists, and what it read later is at least as new as what it read before (`ReadsInOrder`). That
order is why comparing the two versions *after* the reads is enough: `RowsOK`, inductive with
`Typed`, gives `PlansRestOnOneState`, `FillsFollowThePlannedLedger` and `NoticesOnlyWhilePending`.
`OneOpenPlan` and `KeyRecordsOneEvent` are inductive on top of `Typed`. `LifecycleImplemented`
maps every step to a step of `PlanLifecycle` or a stutter; it needs `OneOpenPlan` for the step
that replaces an open plan, and `RowsOK` to know that an approved plan has not been booked.
`PlansAreAccountedForAlways` needs all of these: the events about a plan form a chain from its
creation to its present status (`Trails`), where a step adds at most one event per plan, and which
starts where the chain ended; an open contribution plan belongs to an active goal at the version
it was planned for (`PlanFollowsGoal`), because every edit of the goal expires that plan in the
same step. So every property the run `plan_workflow` checks of plans is proved.

**Alerts.** Under `LeaseOutlivesRun` (`Lease > MaxRun`, no answer lost) `HeldAlone` is inductive:
an armed alert in a batch is still leased, for at least as long as its evaluator can
live, is in no other batch, and was last observed at the price it was claimed with.
`OneEvaluatorPerAlertAlways` and the refinement `FiresOnCrossingAlways` follow.
`LateResultsChangeNothingAlways` needs none of it. The assumption is not for free:
`config.ts` lets a deployment set the lease to 30 seconds, below the 60 of a function; with
the default of 90 it holds.

**Monitors.** `RunsInv` types the runs and says that a run judges rules it has in hand. For the
latch it is joined with `Findings` (what a run owes, it found) and, for every rule, `Kept`: a rule
that no edit, crash or lost answer has met is in hand of at most one run, which saw its present
state; a breach owed is notified; and latched, or owed, is the same as notified.
`LatchTellsNotice` follows. The exceptions are in `hit`, and they are needed: TLC finds each of
them. For digests `RunsInv` is joined with `RowsAttached` (a breach is in a digest that exists)
and `Carried`: a digest that only one run has used carries in its message what was attached to it
before it was enqueued. These invariants count breaches with finite cardinalities but need no
induction over them.

**Deliveries and sending.** `Held` says that a row in a batch is as it was claimed (its age is the
worker's, its attempts are the item's) unless its worker or the end of its plan settled it;
with `MaxRun < Lease` it cannot be swept, hence not claimed again. `Bounded` relates refusals to
attempts per status and queue; it needs `Held` because the worker decides from the item it
claimed and not from the row. The sweeps wait five or ten minutes. `ClosedPlansAreSilentAlways`
and `SentStaysSentAlways` hold for any lease. `NoticesReachTheSubscribedAlways` rests on `OutInv`
(a row marked *sent* has been received, and an attempt about to mark it saw that accepted) and
`SubscribedInv` (a browser that told its user that push is on is subscribed, and its endpoint is
the one the database has for that user).

**Reports.** `WatchInv` follows a success from the call to the report: what an instance remembers
lies within its window and ends with the last success it knows (`Remembered`), a row that a
capture wrote as *up* rests on an answer no older than a window and the time the job may take
(`Written`, `CaptureRuns`). Merging the memory of the reporting instance with the database keeps
that (`MergedIsTrue`), and the newest of two lists of incidents are among the newest of both
(`NewestOfBoth`). `GoodWordIsEarnedAlways` follows for any number of instances, providers and lost
queries.

**What a browser shows.** `Accounted` (alerts): whatever is listed, and whatever a load under way
will list, is of the account signed in. `ListIsWhole` (watchlist): while nothing fails and nobody
edits, the browser's and the server's symbols together stay what they were and each write carries
all of them; without the condition it is false, and section 6 says how. `Fed` (prices): once a
quote was verified, the engine's ticks no longer touch it. `DeskIsTrue` (page): requests and loads
under way carry views of the portfolio they were made for, nothing newer than the server had when
they began, and whatever is on the page is of the loaded portfolio; `ShownInOrderAlways` is an
action property and follows with it. `Conversation` (assistant): only the last message waits,
exactly while the server works, and nothing empty is under way.

**Operations and providers.** With `MaxRun < Lease` (60 against 120 seconds) a running request
owns a lease that has at least as much time left as the request may still live, and lease or
record cover every report and every answer: `InvAlways`, from which the three safety properties
follow. For a provider, `CircuitInv` follows each call through its points: a call on the way is
for a key of the cache (`KeyedOnTheWay`), a live answer was served within its age (`LiveServed`),
a call that is out when the circuit opens ends before it half-opens (`OpenedLater`, by
`CircuitAssumption`, `MaxCall < OpenFor`), so that the calls out in a half-open circuit are its
one probe (`ProbeFirst`, `OneProbe`). `CircuitIsSound` is the part of it that a caller notices.

**Requests.** A handler is a concatenation of small programs, so what may follow what is established
for concatenations first, and from it, for every operation of the fourteen routes, that its program is
`Sound`: it only reads, or it makes one write, alone in its step, after which nothing but reads
comes and before which no table it writes was shown; a keyed one is the only write of a keyed
operation, and the insert of an alert comes after the count. `GatewayInv` then says of every
request under way what it has still to do (`TodoOK`), what its answer will be entitled to say
(`ToldOK`: the write is to come, is done, or was done under the key), and what its view holds
(`ShownOK`: with a plan's row every detail up to it, unless that is still to be read). A commit of
another request disturbs none of these (`RowStable`), because a request that shares its key has
either shown nothing yet or finds the key known. `AnswersAreTrueAlways` follows.
`ActiveStayNearTheLimitAlways` counts: active alerts, together with the requests that have passed the
count and not inserted yet, stay below the limit and the number of slots; only a count below the
limit adds such a request, and each insert uses one up.

### Only model-checked

* *Out of the prover's reach: liveness.* `EachIsVisitedAgain`, `ShowsTheServersLists`,
  `EveryQuestionIsAnswered` (whose safety part is proved), `EveryNoticeIsSettled`,
  `AllAreAnswered`, `CircuitRecovers` and `NothingWaitsForEver` need fairness and `ENABLED`.
* *Out of the prover's reach: induction over data.* `PlansSpendRight`, `SafePlansAreCarriedOut`
  and `NoReturnFromStandingPrices` are about what loops over orders, lots and rows compute in
  integer division, and `ChartsFollowTheMarket` about walks through a calendar: what a fold over a
  *sequence* gives has no smallest exception to start from that the provers could use.
* *Not proved.* `FormsKeepTheirWord`: every field of four forms against every check, a finite
  question per field that TLC decides at the limits.

## 5. Abstractions to keep in mind

* Amounts are small integers. Rounding is modelled where plans are computed (cents, parts of a
  share, basis points), and left out in the ledger.
* Prices, quotes and observations are free choices: whatever a market may do, it may do here.
* Random identifiers matter only between rows of one transaction, and are any order there.
* Each database function is one step once it holds its locks. The ledger shows what the wait
  for a lock changes (`now()` is older than the commit); in the other modules no function
  orders rows by `now()` in a way that could tell.
* Two due rows of a queue are claimed in any order, and a claim takes any subset of them: due
  times of retries and batch sizes are more regular than that.
* Users see only what they could see: owners edit the version they have been shown, and
  clients choose any key, an old one included.
* `GoalSchedule`: months of `MonthLength` days; one followed cursor per behaviour; the expiry of an
  open plan is part of the step that settles it; one target date.
* `MarketQuotes` keeps mode, age and agreement of a quote; news, fundamentals and predictions show
  what a provider said. `ProviderCircuit` has one symbol per kind of call; a failed history is answered
  there as *nothing*, where the code may have a last known good one, marked as stale: neither is
  live, and neither changes the circuit.
* `ApiGateway`: one route per behaviour; the valuation and the assessment of a plan read in one step.
* `OpsWatch`: a report reads everything at one moment, clocks of instances agree, `MaxEvents` bounds
  calls and faults together; freshness samples, the evaluator's heartbeat, backlog counts and
  configuration checks are left out.
* `PortfolioReturns`: one symbol; the rate of XIRR is reduced to its sign; the annualised figure and
  the warnings are left out.
* `TradingCalendar`: a chart is the set of its bars' instants. `Assistant`: texts are lengths; the
  history sent along, the tools and the log of answers are left out.
* Browser: a list is a set; one symbol in `LocalAlerts`; one alert per user in `AlertSync`; in
  `PortfolioDesk` an effect runs with the event that causes it, both kinds of plan are one list, and
  one user is signed in.

## 6. Where the code keeps its promises only conditionally

Met while modelling; each is visible as a condition in a property or as a behaviour of the
model, not as a run of its own.

**Ledger and plans**

* *Costs of a sale.* A sale brings its proceeds less its fees
  (`202607120004_p4_portfolio_intelligence.sql:182`), and of a sale only the quantity is compared with
  what is there (`:295`): fees above the proceeds may leave a negative balance. Hence the condition
  on cash in `NothingNegative`.
* *Overtaking.* Two appends with equal `trade_at` may commit in another order than they started in
  (`202607120004_p4_portfolio_intelligence.sql:269` refuses only what is strictly earlier). Replay
  orders them by `created_at`; a sell can come before its buy, and the reconstruction throws.
  Hence `NoneOvertaken` in `ReconstructionAgrees`.
* *Batches.* Rows of one completion share `created_at`, so a random `id` decides which of them is
  the latest, and a deposit can be reversed before the buy it paid for
  (`202607120004_p4_portfolio_intelligence.sql:379`). Hence `RowsStartedInOrder` in
  `NothingNegative` and `ReversalsPeelTheEnd`.
* *A replayed open plan.* A generation answered with the plan that is already open does not
  record its key (`202607130002_p7_rebalance_workflow.sql:456`), so the key can be used again.
* *Plans that cannot be approved.* A rebalance plan is generated although a price it holds but does
  not trade is older than 96 hours, and can then never be approved. A plan that sells more than it
  buys breaks its own reserve as soon as there is any cost. The rounding of a sale's quantity may
  bring a cent less than the plan counts on.
* *Orders of just the minimum.* A quantity is rounded down to 1e-12 shares
  (`order-optimizer.ts:155`), so an order planned at exactly the minimum is worth a little less once
  it is filled to the letter. The service forgives 1e-9 dollars (`contribution-service.ts:693`,
  `rebalance-service.ts:623`), which the rounding exceeds at prices above 1,000 dollars: the plan is
  expired. Below, the service lets it pass and the database refuses it, which forgives nothing
  (`202607140001_p8_goal_contributions.sql:1270`, `202607130002_p7_rebalance_workflow.sql:783`): the
  plan stays approved and its fills cannot be entered until one is raised by hand. Hence `FallsShort`
  in `EstimatedFillsComplete`; all three outcomes are in the run, where a price of 2 stands for the
  cheap asset and one of 3 for the dear one.
* *Goals.* A listed goal whose day is edited before its visit gets a plan for a date in the future
  (`contribution-service.ts:383`). Missed months are caught up one per day, while the periods that
  remain are counted from today. A rebalance plan made right after the contributions scan keeps
  the slot of the portfolio from the next due contribution for its 72 hours
  (`daily-maintenance.ts:61`).
* *Snapshots.* A portfolio so slow that the function is killed before its mark stays first, and
  starves the others (`snapshot-portfolios.ts:40`).
* *Locks.* `validate_p9_actual_costs` locks the plan's row before its completion takes the advisory
  lock (`202607140002_p9_order_cost_optimization.sql:1023`), the others take them the other way round; PostgreSQL ends one of them, which
  is `Abandon`.

**Alerts, monitors, deliveries**

* *Released by somebody else.* After a lost answer an evaluator releases an alert that another
  one may hold by then (`server/alerts/evaluator.ts:101`). Hence the second half of
  `LeaseOutlivesRun`.
* *A sent digest sent again.* The digest functions record a result without looking at the row
  (`202608050001_p10_monitor_rules.sql:413`), so a lost answer turns *sent* into *retry*. Hence
  the exception in `SentStaysSent`, and one attempt more in `AttemptsAreBounded`.
* *Breaches between listing and enqueuing.* With two runs on one digest, a breach appended after
  the first listed its rows and before it enqueued them is in no message
  (`server/monitors/monitor-service.ts:235`). Hence `shared` in `DigestsCarryTheirBreaches`.
* *Half a breach.* A crash, or a lost answer, between the append and the record of a breach
  leaves the rule armed with its notice sent: it notifies again. Hence `hit` in
  `LatchTellsNotice`.
* *Sending.* A failing deletion of a dead subscription ends the attempt (`delivery.ts:94`), so
  devices that were reached are reached again; a device that timed out is not tried again once
  another one accepted; a worker that read its list before an endpoint moved to another user
  sends to that user once; signing out leaves the subscription. That a mail is not sent twice is
  the promise of the provider's key.
* *Rules from unverified inputs.* `weight_above_pct` and `risk_threshold` are decided from inputs
  that `evaluate.ts:135` says a rule is not decided from. Changes of monitor rules carry no key
  (`monitor-rules.ts:21`, against `README.md:83`).

**Market data and operations**

* *Quotes.* A stale cached peer that deviates from a live quote degrades or blocks it
  (`quality.ts:155`). A quote of a closed session is valid at any age. The valuation accepts
  snapshots, alerts only live or delayed prices.
* *Circuits.* A loader that n requests share counts n failures. `OneProbe` needs a call to end before
  an opened circuit half-opens; `PROVIDER_CIRCUIT_OPEN_MS` may be set as low as a second
  (`config.ts:175`). A slow write to Upstash makes a good answer count as a failure.
* *Operations.* A lost completion, or an operation that fails after part of its effect, is
  executed again when the lease has run out, or at once when it was released. Hence
  *immediate*, and *came to its end*, in `NoImmediateDuplicate`.
* *Reports.* Only the 50 newest open incidents are read, so an old critical one falls off the list and
  the gate passes (`summary.ts:387`); a capture reopens an incident that was resolved by hand;
  a new instance that captures before it has called a provider hides an older good sample with an
  unprobed one.
* *Requests.* A committed call whose row cannot be read again is answered as failed, or as a
  conflict (`workflowConflict`); its key reveals it. Requests without keys (alerts, portfolios,
  theses, rules) are done twice when repeated. The limits of active alerts and portfolios are
  counted before the insert (`alerts.ts:37`, `portfolios.ts:27`), and an archived portfolio is
  restored without a count. Policy and targets, alerts and their deliveries, are read by two
  queries each.

**Returns and browser**

* *Returns.* XIRR counts a deposit up to the time of the last row, whose value may be of an earlier
  ledger; a reversal of an old trade shows as a return; overlapping captures stored out of order
  make intervals that never were; the benchmark may begin later than the portfolio.
* *Watchlist.* When the first load fails or is overtaken, later loads replace: local symbols are lost
  (`P2_CHANGELOG.md:26`). Each renewal of the token merges again and brings removed symbols back.
  An edit in flight is hidden by a load that began meanwhile.
* *Alerts.* A creation that is answered after signing out adds the alert; marking as seen includes
  what was triggered after the panel was opened; two tabs that store at once take over each
  other's list (`P1_CHANGELOG.md:25`), and the baseline of a local alert is not used after a reload.
* *Market.* Before the first verified quote a simulated tick overwrites the last candle of a
  provider's history; a poll without an answer holds up the later ones.
* *Page.* The answer of the policy dialog is not compared with the selection; the goal dialog sends
  the version of the goal at submission and fields of its opening, and so overwrites what came
  between (`P8_CHANGELOG.md:7`); each submission has a fresh key, so a user who repeats one books
  it twice (`P4_CHANGELOG.md:31`); a failed list is not asked for again; a load of more than a poll's
  interval is given up by each poll; a failed optional read looks like *no policy* or *no goal*.
* *Assistant.* An answer is finished by the panel: closing the panel while one is awaited or shown
  leaves the bar busy until the page is loaded again (`AskBar.tsx:31`, `ChatPanel.tsx:98`). Hence
  *or the panel is closed* in `EveryQuestionIsAnswered`.
* *Forms.* Execution forms offer the present minute, which may lie before the approval; the policy
  form takes commissions in parts of a cent; a blank drift, minimum or return counts as 0; a
  default target of less than 0.005 % is offered as 0, which the dialog refuses. For a thesis in
  percent the route's schema (`monitor-rules.ts:78`) lets 0 through and the database does not; only
  the form's own check keeps such a rule from failing there.

## 7. Findings

Seven runs refute what the repository says of itself.

* `ledger_torn_read`: `listPortfolioTransactions` counts first and reads pages afterwards. An
  append that is dated before a reversal row and commits in between pushes that row, the last one,
  off the end; every page is full, so the check for "ledger changed during reconstruction" does
  not fire, and a reversed transaction counts as active. `FreshReadIsExact` shows why plans are
  not hurt: they compare `updated_at`, which was read before.
* `plan_second_approval`: `rebalance-workflow.ts:49` says that only plans awaiting review can be
  approved. `approveRebalanceRun` takes *not pending* for one more reason to expire, and the
  database expires approved plans: a second approval under a new key ends the plan.
* `monitors_edit`: `CONTRACT.md:346` says that an edited threshold can never be suppressed by a
  latch of the previous one. `record_monitor_evaluation` does not compare versions: a run
  that judged the old version latches the new one.
* `monitor_clock`: `evaluate.ts:153` describes a rule that fires when a price has not been verified for
  days. The days are counted up to the *oldest* timestamp of the portfolio's prices, this one
  included, so they are never positive and the rule never fires.
* `goal_date`: `upsert_portfolio_goal` computes the next date from today whenever the day changes.
  Moving the day away and back on the day of a planned cycle makes that cycle the next one
  again; each visit then finds its old plan and nothing moves the date on.
* `market_probe`: `ARCHITECTURE.md:68` takes a half-open circuit to *closed* or *open*. A probe whose
  loader fails while a fresh entry is at hand tells the circuit nothing: it stays half-open with
  its probe out and refuses every request of this instance.
* `rebalance_cash`: `P9_CHANGELOG.md:8` says that the optimizer protects target cash. The reserve it is
  handed is what the base plan leaves, which is less than the target when sells below the minimum are
  left out and the buys they pay for are not; such a plan is approved and can never be completed.

## 8. Not modelled

* **The tools and texts of AI answers**, and the record of them, on which nothing depends.
* **Pages and components without state**, static data, seeds, the drawing of charts: rendering.
* **Statistics of daily returns** (volatility, drawdown, VaR): formulas over real numbers without
  branches that a small instance would tell apart.
* **The bucket in Upstash, public market routes, response headers, the parsing of configuration.**
* **The ledger in memory** of a deployment without a database, and the audit rows of the console.
* **Wording of messages, SQL grants and row security**: who may call is taken for granted.
* **The order of all steps within one maintenance function** is modelled for snapshots,
  contributions and rebalances (`GoalSchedule`); the drains and the monitors are modules of their
  own that may be cut short at any point.

## 9. Plan

The order followed puts what moves money first, then what the owner is told, then what is shown.

1. Ledger, plans and their lifecycle, alerts, deliveries, monitors, operations console: modelled,
   checked, and their safety proved.
2. Goals and schedules, planners, quotes, provider circuits, returns, requests, sending, reports:
   modelled and checked; the safety of goals, circuits, requests and sending proved.
3. The browser: modelled and checked.
4. The safety of quotes, local alerts, reports, of what a browser shows and of the sums of the
  ledger: proved.

What is left:

* `FormsKeepTheirWord`, form by form, which first needs the forms' records written out field by field.
* The planners: that one order's fill keeps the reserve is provable order by order, since
  `OrderOptimizer` takes one order per step; the FIFO lots behind its taxes are a recursion that is not.
* Deeper instances of the runs: three readers' pages, a third evaluator, a second goal.
