----------------------------- MODULE ApiGateway -----------------------------
(***************************************************************************)
(* A request's way through the server: the checks every route makes before *)
(* its handler, the calls the handler makes of the database, one after     *)
(* another and some at once, and the answer.  A call may be refused, fail  *)
(* before or after it was committed, and an instance may be killed, so an  *)
(* answer says one thing and the database may hold another.                *)
(*                                                                         *)
(* The database is the sequence of its commits.  A handler is its program: *)
(* a sequence of sets of calls, the calls of a set being made at once.     *)
(* Request identifiers are slots that are used again after the answer;     *)
(* every behaviour is about the requests of one route.                     *)
(***************************************************************************)
EXTENDS Integers, Sequences, FiniteSets, SequencesExt

CONSTANTS
  Clients,      \* slots of requests: how many are served at once
  Routes,       \* the routes looked at
  ClientKeys,   \* idempotency keys
  None,         \* no key, no version
  MaxActive,    \* alertMaxPerUser, and the limit of portfolios
  MaxReceived,  \* bound: requests received
  MaxFailures   \* bound: calls that fail and instances killed

VARIABLES
  route,        \* the route this behaviour is about
  request,      \* request[r]: [op, key, expected] or None
  todo,         \* todo[r]: what is left of the handler's program
  result,       \* result[r]: the answer, or "open"
  own,          \* own[r]: the commit r made, 0 if none
  view,         \* view[r]: table -> the version r's answer shows
  commits,      \* the database
  received, failures

gatewayVars == <<route, request, todo, result, own, view, commits, received, failures>>

-----------------------------------------------------------------------------
(* Calls of the database and of the market service.                        *)

Call(do, tables, event) == [do |-> do, tables |-> tables, event |-> event]
Select(t) == Call("select", {t}, None)                             \* its rows are shown
Find(t) == Call("find", {t}, None)                                 \* refuses when there is none
CountBelow(t) == Call("count", {t}, None)                          \* refuses at the limit
Quote == Call("quote", {}, None)                                   \* refuses unverified quotes
KeyKnown == Call("known", {"portfolio_rebalance_events"}, None)    \* looks the key up
Assess == Call("assess", {}, None)                                 \* is the plan still safe
Write(t, event) == Call("write", {t}, event)                       \* and returns the row
Quietly(ts, event) == Call("quiet", ts, event)                     \* and returns nothing
Entry(event) == Call("entry", {"portfolio_transactions"}, event)   \* an rpc that knows keys
Keyed(ts, event) == Call("keyed", ts, event)                       \* one that returns the identifier
Versioned(ts, event) == Call("versioned", ts, event)               \* and one that knows versions

RunRows == "portfolio_rebalance_runs"
EventRows == "portfolio_rebalance_events"
ItemRows == "portfolio_rebalance_items"
FillRows == "portfolio_rebalance_fills"
Details == {ItemRows, FillRows, EventRows}

(* Store functions of portfolios, policies, goals and theses.              *)
listPortfolios == <<{Select("portfolios")}>>
getPortfolio == <<{Find("portfolios")}>>
countActivePortfolios == <<{CountBelow("portfolios")}>>
createPortfolio == <<{Write("portfolios", "added")}>>
updatePortfolio(event) == <<{Write("portfolios", event)}>>
getPortfolioAllocationPolicy ==
  <<{Select("portfolio_allocation_policies")}, {Select("portfolio_allocation_targets")}>>
replacePortfolioAllocationPolicy ==
  <<{Quietly({"portfolio_allocation_policies", "portfolio_allocation_targets"}, "changed")}>>
    \o getPortfolioAllocationPolicy
getPortfolioGoal == <<{Select("portfolio_goals")}>>
getPortfolioGoalById == <<{Find("portfolio_goals")}>>
savePortfolioGoal == <<{Versioned({"portfolio_goals"}, "changed")}, {Select("portfolio_goals")}>>
transitionPortfolioGoal == <<{Versioned({"portfolio_goals"}, "changed")}, {Select("portfolio_goals")}>>
listInvestmentTheses == <<{Select("investment_theses")}>>
createInvestmentThesis == <<{Write("investment_theses", "added")}>>
updateInvestmentThesis == <<{Write("investment_theses", "changed")}>>
archiveInvestmentThesis == <<{Quietly({"investment_theses"}, "changed")}>>
listPortfolioSnapshots == <<{Select("portfolio_snapshots")}>>

(* Those of the ledger.                                                    *)
listPortfolioTransactions == <<{Select("portfolio_transactions")}, {Select("portfolio_transactions")}>>
appendPortfolioTransaction == <<{Entry("appended")}>>
reversePortfolioTransaction == <<{Entry("reversed")}>>
buildPortfolioSummary == getPortfolio \o listPortfolioTransactions \o <<{Quote}>>

(* Those of plans: the row of a run first, what belongs to it afterwards.  *)
hydrateRebalanceRuns == <<{Select(t) : t \in Details}>>
(* Mutant: the row is read with what belongs to it, in one Promise.all.    *)
listRunsAtOnce == <<{Select(t) : t \in Details \cup {RunRows}}>>
listPortfolioRebalanceRuns == <<{Select(RunRows)}>> \o hydrateRebalanceRuns
getPortfolioRebalanceRun == <<{Select(RunRows)}>> \o hydrateRebalanceRuns
listPortfolioContributionRuns == <<{Select(RunRows)}>> \o hydrateRebalanceRuns
getPortfolioContributionRun == <<{Select(RunRows)}>> \o hydrateRebalanceRuns
createPortfolioRebalanceRun ==
  <<{Keyed({RunRows, ItemRows, EventRows}, "created")}>> \o getPortfolioRebalanceRun
transitionPortfolioRebalanceRun(event) ==
  <<{Keyed({RunRows, EventRows}, event)}>> \o getPortfolioRebalanceRun
completePortfolioRebalanceRun ==
  <<{Keyed({RunRows, FillRows, EventRows, "portfolio_transactions"}, "completed")}>> \o getPortfolioRebalanceRun
createPortfolioContributionRun ==
  <<{Keyed({RunRows, ItemRows, EventRows}, "created")}>> \o getPortfolioContributionRun
transitionPortfolioContributionRun(event) ==
  <<{Keyed({RunRows, EventRows}, event)}>> \o getPortfolioContributionRun
completePortfolioContributionRun ==
  <<{Keyed({RunRows, FillRows, EventRows, "portfolio_transactions"}, "completed")}>> \o getPortfolioContributionRun
findRebalanceIdempotency == <<{KeyKnown}>>
findContributionIdempotency == <<{KeyKnown}>>

(* Those of the cloud store.                                               *)
getWatchlist == <<{Select("watchlists")}>>
saveWatchlist == <<{Write("watchlists", "changed")}>>
listAlerts == <<{Select("price_alerts"), Select("alert_deliveries")}>>
countActiveAlerts == <<{CountBelow("price_alerts")}>>
createAlert == <<{Write("price_alerts", "added")}>>
deleteAlert == <<{Quietly({"price_alerts"}, "removed")}>>
markAlertsSeen == <<{Quietly({"price_alerts"}, "changed")}>>
savePushSubscription == <<{Quietly({"push_subscriptions"}, "changed")}>>
deletePushSubscription == <<{Quietly({"push_subscriptions"}, "changed")}>>

-----------------------------------------------------------------------------
(* The programs of the handlers: by route, by operation.                   *)

watchlist == [GET |-> getWatchlist, PUT |-> saveWatchlist]
push == [POST |-> savePushSubscription, DELETE |-> deletePushSubscription]
(* Mutants: the quote is asked for after the insert; nobody counts.        *)
alertsQuotedAfterwards ==
  [GET |-> listAlerts, POST |-> countActiveAlerts \o createAlert \o <<{Quote}>>,
   PATCH |-> markAlertsSeen, DELETE |-> deleteAlert]
alertsUncounted ==
  [GET |-> listAlerts, POST |-> <<{Quote}>> \o createAlert,
   PATCH |-> markAlertsSeen, DELETE |-> deleteAlert]
alerts == [GET |-> listAlerts,
           POST |-> countActiveAlerts \o <<{Quote}>> \o createAlert,
           PATCH |-> markAlertsSeen,
           DELETE |-> deleteAlert]
portfolios == [GET |-> listPortfolios,
               POST |-> countActivePortfolios \o createPortfolio,
               PATCH |-> updatePortfolio("changed"),
               archive |-> updatePortfolio("removed"),
               restore |-> updatePortfolio("restored")]
transactions == [GET |-> getPortfolio \o listPortfolioTransactions,
                 append |-> appendPortfolioTransaction,
                 reverse |-> reversePortfolioTransaction]
summary == [GET |-> buildPortfolioSummary]
scenario == [POST |-> buildPortfolioSummary]
snapshots == [GET |-> getPortfolio \o listPortfolioSnapshots]
monitorStatus == [GET |-> <<{Select("portfolio_monitor_rules")}, {Select("portfolio_monitor_breaches")}>>]
allocation == [GET |-> getPortfolioAllocationPolicy, PUT |-> replacePortfolioAllocationPolicy]
goal == [GET |-> getPortfolioGoal \o buildPortfolioSummary,
         PUT |-> savePortfolioGoal,
         PATCH |-> transitionPortfolioGoal,
         complete |-> getPortfolioGoalById \o buildPortfolioSummary \o transitionPortfolioGoal]
research == [GET |-> listInvestmentTheses,
             POST |-> getPortfolio \o createInvestmentThesis,
             PATCH |-> getPortfolio \o updateInvestmentThesis,
             DELETE |-> archiveInvestmentThesis]
rebalances ==
  [GET |-> listPortfolioRebalanceRuns,
   generate |-> findRebalanceIdempotency \o <<{Quote}>> \o createPortfolioRebalanceRun,
   approve |-> <<{Find(RunRows)}>> \o findRebalanceIdempotency \o <<{Assess}>>
                 \o transitionPortfolioRebalanceRun("approved"),
   reject |-> findRebalanceIdempotency \o transitionPortfolioRebalanceRun("rejected"),
   complete |-> <<{Find(RunRows)}>> \o findRebalanceIdempotency \o <<{Assess}>>
                  \o completePortfolioRebalanceRun]
contributions ==
  [GET |-> listPortfolioContributionRuns,
   generate |-> getPortfolioGoalById \o findContributionIdempotency \o <<{Quote}>>
                  \o createPortfolioContributionRun,
   approve |-> findContributionIdempotency \o <<{Find(RunRows)}, {Assess}>>
                 \o transitionPortfolioContributionRun("approved"),
   reject |-> findContributionIdempotency \o transitionPortfolioContributionRun("rejected"),
   complete |-> findContributionIdempotency \o <<{Find(RunRows)}, {Assess}>>
                  \o completePortfolioContributionRun]

apiRoutes ==
  [watchlist |-> watchlist, push |-> push, alerts |-> alerts, portfolios |-> portfolios,
   transactions |-> transactions, summary |-> summary, scenario |-> scenario,
   snapshots |-> snapshots, monitorStatus |-> monitorStatus, allocation |-> allocation,
   goal |-> goal, research |-> research, rebalances |-> rebalances,
   contributions |-> contributions]
Operations == DOMAIN apiRoutes[route]

(* Slots are bounded, a limit is at least one, and "no key" is no key.     *)
ASSUME GatewayAssumption ==
  /\ IsFiniteSet(Clients) /\ MaxActive \in Nat \ {0}
  /\ Routes \subseteq DOMAIN apiRoutes /\ None \notin ClientKeys

(* The operations that want an Idempotency-Key, and those that carry the   *)
(* updated_at their sender saw.                                            *)
KeyedOperations == {"append", "reverse", "generate", "approve", "reject", "complete"}
requireIdempotencyKey(op) == route \in {"transactions", "rebalances", "contributions"} /\ op \in KeyedOperations
CarriesVersion(op) == route = "goal" /\ op # "GET"

-----------------------------------------------------------------------------
(* The database.                                                           *)

CommitsOf(t) == {c \in DOMAIN commits : t \in commits[c].tables}
Version(t) == Max(CommitsOf(t) \cup {0})
Number(t, event) == Cardinality({c \in CommitsOf(t) : commits[c].event = event})
Removed(t) == Number(t, "removed") - Number(t, "restored")
Active(t) == Number(t, "added") - Removed(t)
CommitOfKey(k) == {c \in DOMAIN commits : k # None /\ commits[c].key = k}

(* Removing what is not active, or restoring what was not removed, changes *)
(* no row's state.                                                         *)
Effect(c) == IF \/ c.event = "removed" /\ \A t \in c.tables : Active(t) = 0
                \/ c.event = "restored" /\ \A t \in c.tables : Removed(t) = 0
             THEN "changed" ELSE c.event
Commit(key, c) == Append(commits, [tables |-> c.tables, event |-> Effect(c), key |-> key])

Written == {"write", "quiet", "entry", "keyed", "versioned"}
Unanswered == {"open", "storing", "reapproving", "repeating"}

(* The call c of request r is done, and what is left is `rest`.            *)
Left(r, c) == IF Head(todo[r]) = {c} THEN Tail(todo[r])
              ELSE <<Head(todo[r]) \ {c}>> \o Tail(todo[r])
Calls(r) == IF result[r] \in Unanswered /\ todo[r] # <<>> THEN Head(todo[r]) ELSE {}
Shown(r, c, log) ==
  IF c.do \notin {"select", "write", "entry"} THEN view[r]
  ELSE LET t == CHOOSE x \in c.tables : TRUE
           v == Max({i \in DOMAIN log : t \in log[i].tables} \cup {0})
       IN [x \in DOMAIN view[r] \cup {t} |-> IF x = t THEN v ELSE view[r][x]]

GatewayInit ==
  /\ route \in Routes
  /\ request = [r \in Clients |-> None]
  /\ todo = [r \in Clients |-> <<>>]
  /\ result = [r \in Clients |-> "idle"]
  /\ own = [r \in Clients |-> 0]
  /\ view = [r \in Clients |-> <<>>]
  /\ commits = <<>>
  /\ received = 0 /\ failures = 0

-----------------------------------------------------------------------------
(* Admission.  The dispatcher refuses an unknown path, withFunction a      *)
(* method the route does not have and a mutation from another origin.      *)
(* Every handler then wants a session, counts the request against its      *)
(* limit and reads its input: the key, where one is wanted, and the body.  *)

Check(what) == Call("check", {}, what)
requireUser == <<{Check("session")}>>
enforceRateLimit == <<{Check("rate")}>>
readInput == <<{Check("input")}>>
Program(op) == requireUser \o enforceRateLimit \o readInput \o apiRoutes[route][op]

(* A client sends anything: a new request, or one sent before under the    *)
(* same key; a version it carries is one that was there once.              *)
Received(r, op, key, expected) ==
  /\ result[r] \notin Unanswered
  /\ received < MaxReceived
  /\ key \in IF requireIdempotencyKey(op) THEN ClientKeys ELSE {None}
  /\ expected \in IF CarriesVersion(op) THEN CommitsOf("portfolio_goals") \cup {0} ELSE {0}
  /\ received' = received + 1
  /\ request' = [request EXCEPT ![r] = [op |-> op, key |-> key, expected |-> expected]]
  /\ own' = [own EXCEPT ![r] = 0]
  /\ view' = [view EXCEPT ![r] = <<>>]

dispatchApiRequest(r) ==
  /\ \E op \in Operations, key \in ClientKeys \cup {None}, expected \in 0..Len(commits) :
       /\ Received(r, op, key, expected)
       /\ todo' = [todo EXCEPT ![r] = Program(op)]
  /\ result' = [result EXCEPT ![r] = "open"]
  /\ UNCHANGED <<route, commits, failures>>

(* Path, method or origin are refused before the handler is entered.       *)
RefuseAtTheDoor(r) ==
  /\ \E op \in Operations, key \in ClientKeys \cup {None} : Received(r, op, key, 0)
  /\ todo' = [todo EXCEPT ![r] = <<>>]
  /\ result' = [result EXCEPT ![r] = "refused"]
  /\ UNCHANGED <<route, commits, failures>>

-----------------------------------------------------------------------------
(* Calls and their answers.                                                *)

Replays(r, event) ==
  \E c \in CommitOfKey(request[r].key) : commits[c].event = event

(* A check passes, a read answers, a count is below the limit, a quote is  *)
(* verified, an unknown key is looked up.                                  *)
Pass(r, c) ==
  /\ c \in Calls(r)
  /\ \/ c.do \in {"check", "select", "find", "quote", "assess"}
     \/ c.do = "count" /\ \A t \in c.tables : Active(t) < MaxActive
     \/ c.do = "known" /\ CommitOfKey(request[r].key) = {}
  /\ todo' = [todo EXCEPT ![r] = Left(r, c)]
  /\ view' = [view EXCEPT ![r] = Shown(r, c, commits)]
  /\ UNCHANGED <<route, request, result, own, commits, received, failures>>

(* replayRebalanceRequest: a known key answers with its run, or repeats    *)
(* that the plan has to be approved again.                                 *)
Expected(op) ==
  CASE op = "generate" -> "created" [] op = "approve" -> "approved"
    [] op = "reject" -> "rejected" [] op = "complete" -> "completed"
    [] op = "append" -> "appended" [] op = "reverse" -> "reversed"
    [] OTHER -> "none"
replayRebalanceRequest(r, c) ==
  /\ c \in Calls(r) /\ c.do = "known"
  /\ \E i \in CommitOfKey(request[r].key) :
       /\ commits[i].event \in {Expected(request[r].op), "expired"}
       /\ result' = [result EXCEPT ![r] = IF commits[i].event = "expired" THEN "repeating" ELSE "open"]
  /\ todo' = [todo EXCEPT ![r] = getPortfolioRebalanceRun]
  /\ UNCHANGED <<route, request, own, view, commits, received, failures>>

(* A plan that is no longer safe is expired under the request's key, and   *)
(* the request is told to have it approved again.                          *)
expireForReapproval(r, c) ==
  /\ c \in Calls(r) /\ c.do = "assess"
  /\ todo' = [todo EXCEPT ![r] = transitionPortfolioRebalanceRun("expired")]
  /\ result' = [result EXCEPT ![r] = "reapproving"]
  /\ UNCHANGED <<route, request, own, view, commits, received, failures>>

(* What a call refuses: a check or a quote that fails, no such row, a      *)
(* count at the limit, a key of something else, a version that was         *)
(* replaced, and what the ledger's and the plans' functions refuse.        *)
Refusable(r, c) ==
  \/ c.do \in {"check", "find", "quote"}
  \/ c.do = "count" /\ \E t \in c.tables : Active(t) >= MaxActive
  \/ /\ c.do = "known" /\ CommitOfKey(request[r].key) # {}
     /\ ~Replays(r, Expected(request[r].op)) /\ ~Replays(r, "expired")
  \/ c.do \in {"entry", "keyed"} /\ ~Replays(r, c.event)
  \/ c.do = "versioned" /\ \A t \in c.tables : request[r].expected # Version(t)
Refuse(r, c) ==
  /\ c \in Calls(r)
  /\ Refusable(r, c)
  /\ todo' = [todo EXCEPT ![r] = <<>>]
  /\ result' = [result EXCEPT ![r] = "refused"]
  /\ UNCHANGED <<route, request, own, view, commits, received, failures>>

(* A writing call commits; a known key of the same event commits nothing.  *)
Commits(r, c) ==
  /\ c \in Calls(r) /\ c.do \in Written
  /\ c.do = "versioned" => \A t \in c.tables : request[r].expected = Version(t)
  /\ IF c.do \in {"entry", "keyed"} /\ CommitOfKey(request[r].key) # {}
     THEN /\ Replays(r, c.event)
          /\ UNCHANGED <<own, commits>>
     ELSE /\ commits' = Commit(request[r].key, c)
          /\ own' = [own EXCEPT ![r] = Len(commits')]

Serve(r, c) ==
  /\ Commits(r, c)
  /\ todo' = [todo EXCEPT ![r] = Left(r, c)]
  /\ view' = [view EXCEPT ![r] = Shown(r, c, commits')]
  /\ result' = IF c.do = "keyed" /\ result[r] = "open"
                THEN [result EXCEPT ![r] = "storing"] ELSE result
  /\ UNCHANGED <<route, request, received, failures>>

(* A call fails, before its commit or after it: ensure throws, and the     *)
(* request is answered as failed.  An instance is killed without answer.   *)
(* But whatever fails while a rebalance plan is stored or read again is    *)
(* answered as a conflict (workflowConflict), and so is a failed read of   *)
(* the fills of a contribution plan, whose message names them.             *)
Storing(r) == result[r] \in {"storing", "reapproving"} \/ \E c \in Calls(r) : c.do = "keyed"
workflowConflict(r) ==
  Storing(r) /\ (route = "rebalances" \/ \E c \in Calls(r) : c.do = "select" /\ FillRows \in c.tables)
Fails(r) ==
  /\ failures < MaxFailures
  /\ failures' = failures + 1
  /\ todo' = [todo EXCEPT ![r] = <<>>]
  /\ \E answer \in {"failed"} \cup (IF workflowConflict(r) THEN {"conflict"} ELSE {}) :
       result' = [result EXCEPT ![r] = answer]
  /\ UNCHANGED <<route, request, view, received>>
CallFails(r) == Calls(r) # {} /\ Fails(r) /\ UNCHANGED <<own, commits>>
AnswerLost(r, c) == Commits(r, c) /\ Fails(r)

Answer(r) ==
  /\ result[r] \in Unanswered /\ todo[r] = <<>>
  /\ result' = [result EXCEPT ![r] = IF result[r] \in {"open", "storing"} THEN "done" ELSE "reapproval"]
  /\ UNCHANGED <<route, request, todo, own, view, commits, received, failures>>

GatewayNext ==
  \E r \in Clients :
    \/ dispatchApiRequest(r) \/ RefuseAtTheDoor(r) \/ CallFails(r) \/ Answer(r)
    \/ \E c \in Calls(r) :
         \/ Pass(r, c) \/ replayRebalanceRequest(r, c) \/ expireForReapproval(r, c)
         \/ Refuse(r, c) \/ Serve(r, c) \/ AnswerLost(r, c)

GatewaySpec == GatewayInit /\ [][GatewayNext]_gatewayVars

-----------------------------------------------------------------------------
(* Properties                                                              *)

(* What an answer says happened has happened, and nothing else has.  A     *)
(* refusal (any ApiError) leaves no commit of its request; a success of a  *)
(* mutation has its commit, made by this request or by an earlier one of   *)
(* the same key; "approve again" is answered only when the plan was        *)
(* expired under the key; and a key never has a second commit, whatever    *)
(* fails and however often it is sent.  A conflict of a plan is no refusal *)
(* in this sense: it may hide a commit that only the same key reveals.     *)
AnswersTellEffects ==
  /\ \A k \in ClientKeys : Cardinality(CommitOfKey(k)) <= 1
  /\ \A r \in Clients :
       /\ result[r] = "refused" => own[r] = 0
       /\ result[r] = "done" /\ (\E i \in DOMAIN Program(request[r].op) :
                                     \E c \in Program(request[r].op)[i] : c.do \in Written)
            => \/ own[r] # 0
               \/ Replays(r, Expected(request[r].op))
       /\ result[r] = "reapproval" => Replays(r, "expired")

(* A plan that is answered is whole: every item, fill and audit entry that *)
(* was committed together with a state of its row, up to the one shown, is *)
(* shown, though row and details are read by separate queries              *)
(* (hydrateRebalanceRuns); and an answer shows what its request did.       *)
AnswersAreWhole ==
  \A r \in Clients : result[r] \in {"done", "reapproval"} =>
    /\ RunRows \in DOMAIN view[r] =>
         \A t \in Details : \A c \in CommitsOf(t) :
           c <= view[r][RunRows] => t \in DOMAIN view[r] /\ view[r][t] >= c
    /\ \A c \in {own[r]} \cup CommitOfKey(request[r].key) : c # 0 =>
         \A t \in commits[c].tables \cap DOMAIN view[r] : view[r][t] >= c

(* An answer tells what the server did, and shows what belongs together.   *)
AnswersAreTrue == AnswersTellEffects /\ AnswersAreWhole

(* The active alerts of a user are counted, then a quote is awaited and    *)
(* the alert inserted (routes/alerts.ts): requests at once pass the count  *)
(* together, and exceed the limit, but by no more than their number less   *)
(* one.                                                                    *)
ActiveStayNearTheLimit ==
  Active("price_alerts") <= MaxActive - 1 + Cardinality(Clients)
=============================================================================
