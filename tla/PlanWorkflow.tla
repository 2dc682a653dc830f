---------------------------- MODULE PlanWorkflow ----------------------------
(***************************************************************************)
(* The investment plans of ONE portfolio: rebalance plans and goal         *)
(* contribution plans, which share the table portfolio_rebalance_runs, its *)
(* audit events and the rule that at most one plan is open.                *)
(*                                                                         *)
(* A database function is one step: it takes the advisory lock of its      *)
(* idempotency key and of the portfolio, so its checks and effects are     *)
(* atomic.  The server function around it is not: what it read before      *)
(* (the goal, the policy and then its targets, the portfolio and then its  *)
(* ledger, the plan to be approved) may have changed when it commits.      *)
(* Prices are a free choice: a plan may look safe or unsafe at any time.   *)
(***************************************************************************)
EXTENDS Integers, Sequences, FiniteSets, SequencesExt

CONSTANTS
  Procs,       \* server invocations that may work on plans at the same time
  Keys,        \* idempotency keys of user requests
  ScanKeys,    \* p7-scan:<portfolio>:<bucket>, one per five-minute bucket
  NoKey,       \* the idempotency_key of an event that has none
  Kinds,       \* the kinds of plan in use
  Notify,      \* does the policy opt in to notifications
  MaxRuns,     \* bound: plans ever created
  MaxEdits,    \* bound: versions of portfolio, policy and goal in sum, 2 at first
  MaxCycle     \* bound: contribution dates, numbered

CycleKey(goalId, cycle) == <<goalId, cycle>>
AllKeys == Keys \cup ScanKeys \cup (Nat \X Nat)

ASSUME PlanAssumption ==
  /\ Kinds \subseteq {"rebalance", "contribution"}
  /\ Notify \in BOOLEAN
  /\ NoKey \notin AllKeys
  /\ MaxRuns \in Nat /\ MaxEdits \in Nat /\ MaxCycle \in Nat

VARIABLES
  portfolio,   \* [active, version]: status and updated_at of the portfolio
  policy,      \* updated_at of the allocation policy
  goal,        \* the newest goal: [id, status, version, next]
  runs,        \* portfolio_rebalance_runs, in creation order
  events,      \* portfolio_rebalance_events, in commit order
  calls         \* Procs -> the service call it executes, or IdleCall

vars == <<portfolio, policy, goal, runs, events, calls>>
data == <<portfolio, policy, goal>>

Statuses == {"pending", "approved", "completed", "rejected", "expired"}
GoalStatuses == {"none", "active", "paused", "completed", "archived"}
EventNames == (Statuses \ {"pending"}) \cup {"created", "execution_reversed"}

\* What the request hash of an idempotent request covers.
Request(op, run, source, goalId, cycle) ==
  [op |-> op, run |-> run, source |-> source, goal |-> goalId, cycle |-> cycle]

NoRequest == Request("none", 0, "none", 0, 0)

IdleCall ==
  [step |-> "idle", kind |-> "rebalance", key |-> NoKey, request |-> NoRequest,
   status |-> "pending", gv |-> 0, av |-> 0, targets |-> 0, pv |-> 0, ledger |-> 0]

-----------------------------------------------------------------------------
(* Plans.                                                                   *)

IsOpen(run) == run.status \in {"pending", "approved"}

OpenRuns == {r \in DOMAIN runs : IsOpen(runs[r])}

\* Its validity ran out, or what it was computed from has changed.
IsStale(run) ==
  \/ run.lapsed
  \/ run.pv # portfolio.version
  \/ run.av # policy
  \/ /\ run.kind = "contribution"
     /\ \/ goal.id # run.goal \/ goal.status # "active" \/ goal.version # run.gv

\* The row's own checks before an approval or a completion.
IsCurrent(run) == portfolio.active /\ ~IsStale(run)

Event(r, name, from, to, key, request) ==
  [run |-> r, event |-> name, from |-> from, to |-> to, key |-> key,
   request |-> request]

KeyedEvents(key) == {i \in DOMAIN events : key # NoKey /\ events[i].key = key}

\* Deliveries are disabled with every status a reviewer can cause.
Moved(r, status) == [runs EXCEPT ![r].status = status, ![r].live = FALSE]

SystemExpiry(r) ==
  Event(r, "expired", runs[r].status, "expired", NoKey, NoRequest)

-----------------------------------------------------------------------------
(* The start of a service call: look the key up, then begin to read.        *)

Idle(p)   == calls[p].step = "idle"
Finish(p) == calls' = [calls EXCEPT ![p] = IdleCall]

\* A call that starts: its kind, key and request, and its first step.
Started(kind, key, request, step) ==
  [IdleCall EXCEPT !.step = step, !.kind = kind, !.key = key, !.request = request]

\* The lookup joins the runs on their kind: a key of the other kind is not seen.
KeysOfKind(kind, key) == {i \in KeyedEvents(key) : runs[events[i].run].kind = kind}

\* A known key ends the call: the recorded run is the answer if request and
\* event agree, and a conflict otherwise.  An unknown one starts to work.
Begin(p, c) ==
  /\ Idle(p)
  /\ KeysOfKind(c.kind, c.key) = {}
  /\ calls' = [calls EXCEPT ![p] = c]
  /\ UNCHANGED <<data, runs, events>>

\* A user asks for a rebalance plan, or the scan does under its bucket's key.
BeginRebalance(p) ==
  /\ "rebalance" \in Kinds
  /\ \E source \in {"manual", "scheduled"} :
       \E key \in IF source = "manual" THEN Keys ELSE ScanKeys :
         Begin(p, Started("rebalance", key,
                          Request("generate", 0, source, 0, 0), "policy"))

\* A contribution plan reads the goal first; the scan's key names goal and date.
BeginContribution(p) ==
  /\ "contribution" \in Kinds
  /\ goal.status \in {"active", "paused", "completed"}
  /\ \E source \in {"manual", "scheduled"} :
       LET cycle == IF source = "scheduled" THEN goal.next ELSE 0
           request == Request("generate", 0, source, goal.id, cycle)
       IN \E key \in IF source = "manual" THEN Keys
                     ELSE {CycleKey(goal.id, goal.next)} :
            Begin(p, [Started("contribution", key, request, "policy")
                        EXCEPT !.gv = goal.version])

Decisions == {"approve", "reject", "complete"}
EventOf == [approve |-> "approved", reject |-> "rejected", complete |-> "completed"]

\* A user decides about plan r.  Its row is read here; approval and completion
\* are assessed before the database is asked, a rejection is not.
BeginDecision(p) ==
  \E r \in DOMAIN runs, op \in Decisions, key \in Keys :
    Begin(p, [Started(runs[r].kind, key, Request(op, r, "none", 0, 0),
                      IF op = "reject" THEN "reject" ELSE "assess")
                EXCEPT !.status = runs[r].status])

-----------------------------------------------------------------------------
(* What generation reads, one query at a time.                              *)

Advance(p, c) ==
  /\ calls' = [calls EXCEPT ![p] = c]
  /\ UNCHANGED <<data, runs, events>>

\* The policy row, which carries the version, is read before its targets.
ReadPolicy(p) ==
  /\ calls[p].step = "policy"
  /\ Advance(p, [calls[p] EXCEPT !.step = "targets", !.av = policy])

ReadTargets(p) ==
  /\ calls[p].step = "targets"
  /\ Advance(p, [calls[p] EXCEPT !.step = "portfolio", !.targets = policy])

\* The portfolio row, which carries the version, is read before the ledger.
ReadPortfolio(p) ==
  /\ calls[p].step = "portfolio"
  /\ Advance(p, [calls[p] EXCEPT !.step = "ledger", !.pv = portfolio.version])

ReadLedger(p) ==
  /\ calls[p].step = "ledger"
  /\ Advance(p, [calls[p] EXCEPT !.step = "create", !.ledger = portfolio.version])

-----------------------------------------------------------------------------
(* Creating a plan.                                                         *)

PolicyIgnored(c) ==  \* mutant: the policy's version is not compared
  portfolio.active /\ portfolio.version = c.pv

NothingChanged(c) ==
  portfolio.active /\ portfolio.version = c.pv /\ policy = c.av

GoalUnchanged(c) ==
  goal.id = c.request.goal /\ goal.status = "active" /\ goal.version = c.gv

NewRun(c) ==
  [kind |-> c.kind, source |-> c.request.source, status |-> "pending",
   pv |-> c.pv, ledger |-> c.ledger, av |-> c.av, targets |-> c.targets,
   goal |-> c.request.goal, gv |-> c.gv, cycle |-> c.request.cycle,
   lapsed |-> FALSE, booked |-> 0,
   live |-> Notify /\ c.kind = "rebalance" /\ c.request.source = "scheduled"]

CreatedEvent(c, r) == Event(r, "created", "none", "pending", c.key, c.request)

InsertBesideOtherKind(c) ==  \* mutant: only plans of its own kind are in the way
  /\ Len(runs) < MaxRuns
  /\ \A r \in OpenRuns : runs[r].kind # c.kind
  /\ runs' = Append(runs, NewRun(c))
  /\ events' = Append(events, CreatedEvent(c, Len(runs) + 1))

\* The plan in the way, if there is one, is expired first when it is stale.
InsertRun(c) ==
  /\ Len(runs) < MaxRuns
  /\ \/ /\ OpenRuns = {}
        /\ runs' = Append(runs, NewRun(c))
        /\ events' = Append(events, CreatedEvent(c, Len(runs) + 1))
     \/ \E r \in OpenRuns :
          /\ IsStale(runs[r])
          /\ runs' = Append(Moved(r, "expired"), NewRun(c))
          /\ events' = events \o <<SystemExpiry(r), CreatedEvent(c, Len(runs) + 1)>>

\* create_portfolio_rebalance_run: an open rebalance plan that is still good
\* is the answer, and the key is not recorded.
CreateRebalance(p) ==
  LET c == calls[p] IN
  /\ c.step = "create" /\ c.kind = "rebalance"
  /\ KeyedEvents(c.key) = {}
  /\ NothingChanged(c)
  /\ \/ InsertRun(c)
     \/ \E r \in OpenRuns :
          /\ runs[r].kind = "rebalance" /\ ~IsStale(runs[r])
          /\ UNCHANGED <<runs, events>>
  /\ Finish(p)
  /\ UNCHANGED data

\* The scheduled plans of the goal and date the request names.
PlansOfCycle(c) ==
  {r \in DOMAIN runs :
     /\ c.request.source = "scheduled"
     /\ runs[r].kind = "contribution" /\ runs[r].source = "scheduled"
     /\ runs[r].goal = c.request.goal /\ runs[r].cycle = c.request.cycle}

\* create_portfolio_contribution_run: a cycle that has its plan is answered
\* with it before any version is compared; a new one moves the goal's date on
\* and leaves its version alone.
CreateContribution(p) ==
  LET c == calls[p] IN
  /\ c.step = "create" /\ c.kind = "contribution"
  /\ KeyedEvents(c.key) = {}
  /\ \/ /\ PlansOfCycle(c) # {}
        /\ UNCHANGED <<goal, runs, events>>
     \/ /\ PlansOfCycle(c) = {}
        /\ NothingChanged(c) /\ GoalUnchanged(c)
        /\ c.request.source = "scheduled" => c.request.cycle = goal.next
        /\ InsertRun(c)
        /\ goal' = IF c.request.source = "scheduled"
                   THEN [goal EXCEPT !.next = @ + 1] ELSE goal
  /\ Finish(p)
  /\ UNCHANGED <<portfolio, policy>>

-----------------------------------------------------------------------------
(* Deciding about a plan.                                                   *)

\* What an approval or a completion finds when it reads policy, goal and
\* portfolio again.  Only the rebalance service looks at the status it read.
LooksSafe(c) ==
  LET run == runs[c.request.run] IN
  /\ ~IsStale(run)
  /\ run.kind = "rebalance" =>
       c.status = (IF c.request.op = "approve" THEN "pending" ELSE "approved")

\* An unsafe plan is expired, under the key of the request to approve it.
Assess(p) ==
  LET c == calls[p] IN
  /\ c.step = "assess"
  /\ \E pricesSafe \in BOOLEAN :
       Advance(p, [c EXCEPT !.step =
         IF pricesSafe /\ LooksSafe(c) THEN EventOf[c.request.op] ELSE "expired"])

Transition(p, r, to) ==
  /\ KeyedEvents(calls[p].key) = {}
  /\ runs' = Moved(r, to)
  /\ events' = Append(events,
       Event(r, to, runs[r].status, to, calls[p].key, calls[p].request))
  /\ Finish(p)
  /\ UNCHANGED data

ApprovableFromAny(run) == IsCurrent(run)  \* mutant: relies on the status read before

Approvable(run) == run.status = "pending" /\ IsCurrent(run)

Approve(p) ==
  LET r == calls[p].request.run IN
  /\ calls[p].step = "approved"
  /\ Approvable(runs[r])
  /\ Transition(p, r, "approved")

Reject(p) ==
  LET r == calls[p].request.run IN
  /\ calls[p].step = "reject"
  /\ IsOpen(runs[r])
  /\ Transition(p, r, "rejected")

Expire(p) ==
  LET r == calls[p].request.run IN
  /\ calls[p].step = "expired"
  /\ IsOpen(runs[r])
  /\ Transition(p, r, "expired")

CompletableAnyway(run) ==  \* mutant: what the plan rests on is not compared
  run.status = "approved" /\ ~run.lapsed /\ portfolio.active

Completable(run) == run.status = "approved" /\ IsCurrent(run)

\* All fills (and the deposit of a contribution) and the status in one step.
Complete(p) ==
  LET c == calls[p]
      r == c.request.run
  IN /\ c.step = "completed"
     /\ KeyedEvents(c.key) = {}
     /\ Completable(runs[r])
     /\ portfolio' = [portfolio EXCEPT !.version = @ + 1]
     /\ runs' = [runs EXCEPT ![r].status = "completed", ![r].booked = portfolio.version]
     /\ events' = Append(events,
          Event(r, "completed", "approved", "completed", c.key, c.request))
     /\ Finish(p)
     /\ UNCHANGED <<policy, goal>>

\* A check fails, the database knows the key (it replays the recorded answer or
\* reports a conflict), the plan is not worth making, or the function is stopped
\* or its connection lost: the call ends and leaves no trace.
Abandon(p) ==
  /\ ~Idle(p)
  /\ Finish(p)
  /\ UNCHANGED <<data, runs, events>>

-----------------------------------------------------------------------------
(* The goal.  Its owner sends the version he saw; a changed goal is refused. *)

ExpirePendingPlanOfGoal ==  \* mutant: an approved plan outlives the goal it was made for
  LET affected == {r \in OpenRuns : runs[r].status = "pending"
                                    /\ runs[r].kind = "contribution"
                                    /\ runs[r].goal = goal.id}
  IN \/ affected = {} /\ UNCHANGED <<runs, events>>
     \/ \E r \in affected :
          /\ runs' = [runs EXCEPT ![r].status = "expired"]
          /\ events' = Append(events, SystemExpiry(r))

\* A changed or closed goal takes its open contribution plan with it.
ExpirePlanOfGoal ==
  LET affected == {r \in OpenRuns : runs[r].kind = "contribution"
                                    /\ runs[r].goal = goal.id}
  IN \/ affected = {} /\ UNCHANGED <<runs, events>>
     \/ \E r \in affected :
          /\ runs' = [runs EXCEPT ![r].status = "expired"]
          /\ events' = Append(events, SystemExpiry(r))

\* The versions in sum: 2 before anything was edited.  A completion and a reversal
\* of its booking count too, and so does the goal's first saving.
Edits == portfolio.version + policy + goal.version

\* upsert_portfolio_goal: a new goal when none is active or paused.
SaveGoal(next) ==
  /\ "contribution" \in Kinds /\ Edits < MaxEdits
  /\ portfolio.active
  /\ \/ /\ goal.status \in {"active", "paused"}
        /\ goal' = [goal EXCEPT !.version = @ + 1, !.next = next]
        /\ ExpirePlanOfGoal
     \/ /\ goal.status \notin {"active", "paused"}
        /\ goal' = [id |-> goal.id + 1, status |-> "active",
                    version |-> goal.version + 1, next |-> next]
        /\ UNCHANGED <<runs, events>>
  /\ UNCHANGED <<portfolio, policy, calls>>

GoalMoves == {<<"active", "paused">>, <<"paused", "active">>,
              <<"active", "completed">>, <<"paused", "completed">>,
              <<"active", "archived">>, <<"paused", "archived">>,
              <<"completed", "archived">>}

\* A date that passed while the goal was paused is computed anew on resumption;
\* today is not known here, so every later date may come of it.
MoveGoal(status) ==
  /\ Edits < MaxEdits
  /\ <<goal.status, status>> \in GoalMoves
  /\ \E next \in {goal.next} \cup {n \in 1..MaxCycle : status = "active" /\ goal.next < n} :
       goal' = [goal EXCEPT !.status = status, !.version = @ + 1, !.next = next]
  /\ IF status = "active" THEN UNCHANGED <<runs, events>> ELSE ExpirePlanOfGoal
  /\ UNCHANGED <<portfolio, policy>>

TransitionGoal ==
  /\ \E status \in GoalStatuses : MoveGoal(status)
  /\ UNCHANGED calls

\* The scan finds the goal funded and completes the version it read.
CompleteFundedGoal(p) ==
  LET c == calls[p] IN
  /\ c.step = "create" /\ c.kind = "contribution"
  /\ c.request.source = "scheduled"
  /\ goal.id = c.request.goal /\ goal.version = c.gv
  /\ MoveGoal("completed")
  /\ Finish(p)


-----------------------------------------------------------------------------
(* Portfolio, policy, time and the sweep.                                   *)

\* An append or a reversal of the user's own.
WriteLedger ==
  /\ Edits < MaxEdits
  /\ portfolio.active
  /\ portfolio' = [portfolio EXCEPT !.version = @ + 1]
  /\ UNCHANGED <<policy, goal, runs, events, calls>>

\* A transaction that a completed plan booked is reversed.  Bound: one per plan.
ReverseExecution(r) ==
  /\ portfolio.active /\ runs[r].booked > 0
  /\ \A i \in DOMAIN events :
       events[i].run = r => events[i].event # "execution_reversed"
  /\ portfolio' = [portfolio EXCEPT !.version = @ + 1]
  /\ events' = Append(events, Event(r, "execution_reversed", "completed",
                                    "completed", NoKey, NoRequest))
  /\ UNCHANGED <<policy, goal, runs, calls>>

\* PATCH of the portfolio: archived or restored.
SetStatus ==
  /\ Edits < MaxEdits
  /\ portfolio' = [active |-> ~portfolio.active, version |-> portfolio.version + 1]
  /\ UNCHANGED <<policy, goal, runs, events, calls>>

ReplacePolicy ==
  /\ Edits < MaxEdits
  /\ portfolio.active
  /\ policy' = policy + 1
  /\ UNCHANGED <<portfolio, goal, runs, events, calls>>

\* The validity window of a plan runs out (PLAN_VALID_HOURS).
Lapse(r) ==
  /\ IsOpen(runs[r]) /\ ~runs[r].lapsed
  /\ runs' = [runs EXCEPT ![r].lapsed = TRUE]
  /\ UNCHANGED <<data, events, calls>>

\* expire_portfolio_rebalance_runs, at the start of every scan.
Sweep ==
  \E r \in OpenRuns :
    /\ runs[r].lapsed
    /\ runs' = Moved(r, "expired")
    /\ events' = Append(events, SystemExpiry(r))
    /\ UNCHANGED <<data, calls>>

\* The notices of the plan went out or were given up.
Notified(r) ==
  /\ runs[r].live
  /\ runs' = [runs EXCEPT ![r].live = FALSE]
  /\ UNCHANGED <<data, events, calls>>

-----------------------------------------------------------------------------

Init ==
  /\ portfolio = [active |-> TRUE, version |-> 1]
  /\ policy = 1
  /\ goal = [id |-> 0, status |-> "none", version |-> 0, next |-> 1]
  /\ runs = <<>>
  /\ events = <<>>
  /\ calls = [p \in Procs |-> IdleCall]

Generate(p) ==
  \/ BeginRebalance(p) \/ BeginContribution(p)
  \/ ReadPolicy(p) \/ ReadTargets(p) \/ ReadPortfolio(p) \/ ReadLedger(p)
  \/ CreateRebalance(p) \/ CreateContribution(p) \/ CompleteFundedGoal(p)

Decide(p) ==
  BeginDecision(p) \/ Assess(p) \/ Approve(p) \/ Reject(p) \/ Expire(p) \/ Complete(p)

OwnerEdits ==
  \/ \E next \in 1..MaxCycle : SaveGoal(next)
  \/ TransitionGoal \/ WriteLedger \/ SetStatus \/ ReplacePolicy
  \/ \E r \in DOMAIN runs : ReverseExecution(r)

Next ==
  \/ \E p \in Procs : Generate(p) \/ Decide(p) \/ Abandon(p)
  \/ OwnerEdits
  \/ \E r \in DOMAIN runs : Lapse(r) \/ Notified(r)
  \/ Sweep

Spec == Init /\ [][Next]_vars

\* Time passes and the daily scan sweeps whatever else happens.
Fairness == WF_vars(\E r \in DOMAIN runs : Lapse(r)) /\ WF_vars(Sweep)
FairSpec == Spec /\ Fairness

-----------------------------------------------------------------------------
(* Properties.                                                              *)

RequestType == [op : Decisions \cup {"generate", "none"}, run : Nat,
             source : {"manual", "scheduled", "none"}, goal : Nat, cycle : Nat]

RunType ==
  [kind : Kinds, source : {"manual", "scheduled"}, status : Statuses,
   pv : Nat, ledger : Nat, av : Nat, targets : Nat, goal : Nat, gv : Nat,
   cycle : Nat, lapsed : BOOLEAN, booked : Nat, live : BOOLEAN]

EventType ==
  [run : Nat, event : EventNames, from : Statuses \cup {"none"}, to : Statuses,
   key : AllKeys \cup {NoKey}, request : RequestType]

Steps == {"idle", "policy", "targets", "portfolio", "ledger", "create", "assess",
          "approved", "expired", "reject", "completed"}

CallType ==
  [step : Steps, kind : {"rebalance", "contribution"}, key : AllKeys \cup {NoKey},
   request : RequestType, status : Statuses, gv : Nat, av : Nat, targets : Nat,
   pv : Nat, ledger : Nat]

\* Every row, event and call has the shape the code gives it, and names a plan
\* that exists.
TypeOK ==
  /\ portfolio \in [active : BOOLEAN, version : Nat]
  /\ policy \in Nat
  /\ goal \in [id : Nat, status : GoalStatuses, version : Nat, next : Nat]
  /\ runs \in Seq(RunType)
  /\ events \in Seq(EventType)
  /\ calls \in [Procs -> CallType]
  /\ \A i \in DOMAIN events : events[i].run \in DOMAIN runs

\* At most one plan of the portfolio is open, whatever its kind.
OneOpenPlan == \A r, s \in OpenRuns : r = s

\* A plan is computed from the targets and the ledger of the very versions it
\* records, although they are read by separate queries.
PlansRestOnOneState ==
  \A r \in DOMAIN runs :
    runs[r].targets = runs[r].av /\ runs[r].ledger = runs[r].pv

\* The fills of a plan are appended to the very ledger it was computed from,
\* however long its owner took; no other plan is booked.
FillsFollowThePlannedLedger ==
  \A r \in DOMAIN runs :
    runs[r].booked = IF runs[r].status = "completed" THEN runs[r].ledger ELSE 0

\* A key records one event, whatever is asked for with it and whichever kind of
\* plan it was first used for.
KeyRecordsOneEvent ==
  \A i, j \in DOMAIN events :
    events[i].key # NoKey /\ events[i].key = events[j].key => i = j

EventsOf(r) == {i \in DOMAIN events : events[i].run = r}
Consecutive(i, j) == i < j /\ \A k \in EventsOf(events[i].run) : k <= i \/ j <= k

\* The audit events of a plan tell its whole life: created once, each change
\* starting where the last one ended, the last one ending in its status.
AuditTellsStatus ==
  \A r \in DOMAIN runs :
    /\ EventsOf(r) # {}
    /\ \A j \in EventsOf(r) :
         /\ (\A i \in EventsOf(r) : j <= i) => events[j].from = "none"
         /\ (\A i \in EventsOf(r) : i <= j) => events[j].to = runs[r].status
         /\ \A i \in EventsOf(r) : Consecutive(i, j) => events[j].from = events[i].to

\* Nobody is notified of a plan that no longer waits for review.
NoticesOnlyWhilePending ==
  \A r \in DOMAIN runs : runs[r].live => runs[r].status = "pending"

\* An open contribution plan belongs to the present version of an active goal.
PlanFollowsGoal ==
  \A r \in OpenRuns :
    runs[r].kind = "contribution" =>
      goal.id = runs[r].goal /\ goal.status = "active" /\ goal.version = runs[r].gv

\* Every plan's trail tells its life, and an open one belongs to the goal as it is.
PlansAreAccountedFor == AuditTellsStatus /\ PlanFollowsGoal

\* Seen by its owner, this is PlanLifecycle: no interleaving of scans, decisions
\* and edits shows him anything else.
Lifecycle == INSTANCE PlanLifecycle WITH
  plans  <- [r \in DOMAIN runs |-> runs[r].status],
  booked <- {r \in DOMAIN runs : runs[r].booked # 0}

LifecycleKept == Lifecycle!Spec

\* Whatever its owner does, an open plan closes in the end and makes room.
EveryPlanCloses ==
  \A r \in 1..MaxRuns : []<>(r \notin OpenRuns)

-----------------------------------------------------------------------------
(* What the documents say and the code does not keep.                       *)

\* rebalance-workflow.ts:49: "only plans awaiting review can be approved", so a
\* second request to approve is refused and does not end the approved plan.
SecondApprovalIsRefused ==
  \A i \in DOMAIN events :
    events[i].event = "expired" /\ events[i].from = "approved"
    => events[i].request.op # "approve"
=============================================================================
