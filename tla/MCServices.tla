----------------------------- MODULE MCServices -----------------------------
(***************************************************************************)
(* One run for what the server must come to in the end: an operation of the      *)
(* console and its requests, the circuit of a provider, the rules and portfolios  *)
(* that the daily maintenance visits in turn, and the plans that must close.      *)
(* A behaviour is one of one part; the others rest where they start.             *)
(***************************************************************************)
EXTENDS OpsIdempotency, ProviderCircuit

CONSTANTS
  Parts,                 \* the parts to check
  q, h, p1, i1, k1, k2, s1, none,
  Rules, PortfolioOf, RuleLimit, Procs, MaxVersion, MaxBreaches, MaxDigests,                      \* MonitorRules
  Portfolios, Invocations, MonthLength, ContributionDays, LastDay, TargetDate, Troubles, Followed, Limit, FirstDay, \* GoalSchedule
  Keys, ScanKeys, Kinds, Notify, MaxRuns, MaxEdits, MaxCycle                                      \* PlanWorkflow

VARIABLES
  part,
  rules, waiting, breaches, digests, mruns, notified, hit,                \* MonitorRules
  scan, today, goals, cursor, plans, slots, jobs,                         \* GoalSchedule
  portfolio, policy, goal, runs, events, calls                            \* PlanWorkflow

ruleVars == <<rules, waiting, breaches, digests, mruns, notified, hit>>
goalVars == <<scan, today, goals, cursor, plans, slots, jobs>>
planVars == <<portfolio, policy, goal, runs, events, calls>>
allVars == <<part, vars, circuitVars, ruleVars, goalVars, planVars>>

Monitors == INSTANCE MonitorRules WITH Runners <- Procs
Schedule == INSTANCE GoalSchedule WITH MaxEdits <- 0
Plans == INSTANCE PlanWorkflow WITH NoKey <- none

-----------------------------------------------------------------------------
(* The instances.                                                              *)

MCDeployments == {[keys |-> {q}, shared |-> TRUE], [keys |-> {q, h}, shared |-> FALSE]}
OwnPortfolios == [r \in Rules |-> r]
MCFirstDay == [d \in Portfolios |-> d]

-----------------------------------------------------------------------------
MCInit ==
  /\ part \in Parts
  /\ Init /\ CircuitInit /\ Monitors!MonitorInit /\ Schedule!ScheduleInit /\ Plans!Init
  /\ part = "circuit" \/ ~ deployment.shared
  /\ part = "goals" \/ scan = "contributions"

OpsOnly == UNCHANGED <<part, circuitVars, ruleVars, goalVars, planVars>>
CircuitOnly == UNCHANGED <<part, vars, ruleVars, goalVars, planVars>>
MonitorsOnly == UNCHANGED <<part, vars, circuitVars, goalVars, planVars>>
GoalsOnly == UNCHANGED <<part, vars, circuitVars, ruleVars, planVars>>
PlansOnly == UNCHANGED <<part, vars, circuitVars, ruleVars, goalVars>>

MCNext ==
  \/ part = "ops" /\ Next /\ OpsOnly
  \/ part = "circuit" /\ CircuitNext /\ CircuitOnly
  \/ part = "monitors" /\ Monitors!MonitorNext /\ MonitorsOnly
  \/ part = "goals" /\ Schedule!ScheduleNext /\ GoalsOnly
  \/ part = "plans" /\ Plans!Next /\ PlansOnly

\* What must go on: time, what the platform starts, and what it has started ends.
PartsFairness ==
  /\ WF_vars(part = "ops" /\ Tick) /\ WF_vars(part = "ops" /\ Taken)
  /\ WF_vars(part = "ops" /\ \E r \in Requests : Ends(r))
  /\ WF_circuitVars(part = "circuit" /\ ForgetEvents)
  /\ \A c \in Calls : WF_circuitVars(part = "circuit" /\ Answer(c))
  /\ \A m \in Procs : WF_ruleVars(part = "monitors" /\ (Monitors!ClaimRules(m) \/ Monitors!Work(m)))
  /\ \A r \in Rules :
       /\ WF_ruleVars(part = "monitors" /\ Monitors!IntervalPasses(r))
       /\ WF_ruleVars(part = "monitors" /\ Monitors!LeaseExpires(r))
  /\ WF_goalVars(part = "goals" /\ Schedule!Tick)
  /\ \A i \in Invocations : WF_goalVars(part = "goals" /\ Schedule!Maintain(i))
  /\ WF_planVars(part = "plans" /\ \E r \in DOMAIN runs : Plans!Lapse(r))
  /\ WF_planVars(part = "plans" /\ Plans!Sweep)

\* The strong conditions of different parts are joined: each is one on the part that acts.
Returns == (part = "circuit" /\ TimePasses /\ CircuitOnly) \/ (part = "goals" /\ Schedule!Untroubled /\ GoalsOnly)
KeepsAsking == part = "circuit" /\ Asked /\ CircuitOnly
Begins == (part = "ops" /\ Taken /\ OpsOnly) \/ (part = "monitors" /\ Monitors!Taken /\ MonitorsOnly)
EndsInGood == (part = "ops" /\ EndsWell /\ OpsOnly) \/ (part = "monitors" /\ Monitors!Recorded /\ MonitorsOnly)

MCFairness ==
  /\ PartsFairness
  /\ SF_allVars(Returns) /\ SF_allVars(KeepsAsking)
  /\ []<><<Begins>>_allVars => []<><<EndsInGood>>_allVars

MCSpec == MCInit /\ [][MCNext]_allVars /\ MCFairness

-----------------------------------------------------------------------------
(* The properties of the parts.                                                *)

\* Whoever repeats an operation of the console with its key is answered in the end, and for good.
AllAreAnswered == []<>(part = "ops" => \A r \in Requests : requests[r].phase = "answered")

\* The daily maintenance visits in turn: every rule is judged, every goal and portfolio reached.
TurnComes(n) ==
  /\ part = "monitors" /\ n \in Rules => Monitors!Attended(n)
  /\ part = "goals" /\ n \in Portfolios => Schedule!InItsTurn(n)
EveryTurnComes == \A n \in Rules \cup Portfolios : []<>TurnComes(n)

\* No rule, goal or portfolio waits for ever, and no plan stays open for ever.
NothingWaitsForEver == EveryTurnComes /\ Plans!EveryPlanCloses
=============================================================================
