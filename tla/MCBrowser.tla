------------------------------ MODULE MCBrowser ------------------------------
(***************************************************************************)
(* One run for the parts that show a user what the server knows and meet in no   *)
(* variable: the evaluators that trigger the alerts, the watchlist and the alerts *)
(* a browser keeps in step with the server, the market it shows, the page of its *)
(* portfolios, and the assistant.  A behaviour is one of one part; the others     *)
(* rest where they start, in a state that none of their fair actions can leave.   *)
(***************************************************************************)
EXTENDS AlertEvaluation, WatchlistSync, AlertSync, BrowserMarket, PortfolioDesk, Assistant, TLC

CONSTANTS
  Parts,                 \* the parts to check
  e1, e2, u1, u2, none, s1, s2, d1, d2

VARIABLE part

allVars == <<part, vars, listVars, alertVars, marketVars, deskVars, chatVars>>

-----------------------------------------------------------------------------
(* The instances.                                                              *)

Mixed == [n \in Alerts |-> IF n = 1 THEN "above" ELSE "below"]
AroundTarget == 0..2
MCWanted == [page \in {"all", "chart"} |-> IF page = "all" THEN {1, 2, 3} ELSE {3}]
MCBegun == {<<>>, <<"pending">>, <<"pending", "approved">>}

-----------------------------------------------------------------------------

MCInit ==
  /\ part \in Parts
  /\ Init
  /\ ListInit /\ (part = "watchlist" \/ (watch = {} /\ lists[u1] = {}))
  /\ RemoteInit /\ MarketInit
  /\ DeskInit /\ (part = "desk" \/ \A d \in Portfolios : statuses[d] = <<>>)
  /\ AssistantInit /\ (part = "assistant" \/ reduced)

\* A step of one part leaves the others as they are.
EvaluatorsOnly == UNCHANGED <<part, listVars, alertVars, marketVars, deskVars, chatVars>>
WatchlistOnly == UNCHANGED <<part, vars, alertVars, marketVars, deskVars, chatVars>>
AlertsOnly == UNCHANGED <<part, vars, listVars, marketVars, deskVars, chatVars>>
MarketOnly == UNCHANGED <<part, vars, listVars, alertVars, deskVars, chatVars>>
DeskOnly == UNCHANGED <<part, vars, listVars, alertVars, marketVars, chatVars>>
AssistantOnly == UNCHANGED <<part, vars, listVars, alertVars, marketVars, deskVars>>

MCNext ==
  \/ part = "evaluators" /\ Next /\ EvaluatorsOnly
  \/ part = "watchlist" /\ ListNext /\ WatchlistOnly
  \/ part = "alerts" /\ RemoteNext /\ AlertsOnly
  \/ part = "market" /\ MarketNext /\ MarketOnly
  \/ part = "desk" /\ DeskNext /\ DeskOnly
  \/ part = "assistant" /\ AssistantNext /\ AssistantOnly

\* The fairness of every part.  The strong conditions of the others are joined to those of the
\* evaluators: only the actions of one part are ever enabled, so each condition is one on that part.
LoadEnds ==
  \/ Replace /\ WatchlistOnly
  \/ ShowListing /\ AlertsOnly
  \/ LoadAnswered /\ DeskOnly

MCFairness ==
  /\ WF_vars(Tick) /\ (\A e \in Evaluators : WF_vars(Claim(e)))
  /\ ListFairness /\ RemoteFairness /\ MarketFairness /\ DeskFairness /\ AssistantFairness
  /\ \A e \in Evaluators : SF_allVars((Settle(e) /\ EvaluatorsOnly) \/ LoadEnds)

MCSpec == MCInit /\ [][MCNext]_allVars /\ MCFairness

-----------------------------------------------------------------------------

\* A browser that stays signed in shows what the server keeps of its lists and of the portfolio it
\* selected, again and again.
ShowsTheServersLists == ShowsTheServersList /\ ShowsTheServersAlerts /\ ShowsTheSelection

\* However few are visited at a time, every alert is judged and every symbol is asked for again.
EachIsVisitedAgain == EveryAlertIsWatched /\ EverySymbolIsAsked
=============================================================================
