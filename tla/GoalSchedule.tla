---------------------------- MODULE GoalSchedule ----------------------------
(***************************************************************************)
(* The monthly dates of investment goals and the daily maintenance that      *)
(* visits them: snapshots of portfolios, then the plans of contributions      *)
(* that are due, then those of rebalances.  Each visit takes a bounded batch  *)
(* of those that were visited longest ago, reads its row, and writes a plan   *)
(* with the database's checks, while owners edit their goals, a second        *)
(* invocation runs, and the platform may end an invocation at any step.       *)
(*                                                                         *)
(* Days count from 0 and months have MonthLength of them.  A portfolio has    *)
(* one goal at a time; `era' tells a goal from the ones archived before it.   *)
(***************************************************************************)
EXTENDS Integers, Sequences, FiniteSets, FiniteSetsExt, SequencesExt

CONSTANTS
  Portfolios,            \* numbers, ordered as their identifiers
  Invocations,           \* daily maintenance, and a second one started by hand
  MonthLength,           \* days of a month
  ContributionDays,      \* days a goal may choose, all within a month
  LastDay,               \* the day at which time stops
  TargetDate,            \* the target date of every goal
  Troubles,              \* whether a maintenance may meet trouble, may be without, or either
  Followed,              \* scans whose cursor may be followed
  Limit,                 \* batch of that scan
  MaxEdits,              \* versions of a goal, over all its eras
  FirstDay               \* contribution day of each goal at the start

VARIABLES
  scan,                  \* the scan whose cursor a behaviour follows
  today,
  goals,                 \* portfolio_goals
  cursor,                \* the portfolios that it has visited, longest ago first
  plans,                 \* scheduled contribution plans, as created
  slots,                 \* the kind of the plan of each portfolio that is open
  jobs                   \* invocations of daily maintenance

scheduleVars == <<scan, today, goals, cursor, plans, slots, jobs>>

IdleJob == [phase |-> "idle", targets |-> <<>>, stage |-> "read", seen |-> 0, troubled |-> FALSE]

-----------------------------------------------------------------------------
(* Dates *)

DateIn(month, day) == month * MonthLength + day - 1
NextDate(from, day) == DateIn(from \div MonthLength + 1, day)
CurrentDate(day) ==
    LET candidate == DateIn(today \div MonthLength, day)
    IN  IF candidate >= today THEN candidate ELSE NextDate(candidate, day)

Live(p) == goals[p].status \in {"active", "paused"}
Due(p) == goals[p].status = "active" /\ goals[p].next <= today /\ today <= TargetDate

-----------------------------------------------------------------------------
(* Owners *)

NewGoal(p, day, edits, era) ==
    [status |-> "active", day |-> day, next |-> CurrentDate(day), version |-> edits, era |-> era]

\* A change of a goal expires the contribution plan that rests on it.
WithoutContribution(p) == IF slots[p] = "contribution" THEN [slots EXCEPT ![p] = "none"] ELSE slots

SaveGoal(p, day) ==
    /\ goals[p].version < MaxEdits
    /\ IF Live(p)
       THEN /\ goals' = [goals EXCEPT ![p].day = day, ![p].version = @ + 1,
                           ![p].next = IF goals[p].day = day /\ goals[p].next >= today THEN @ ELSE CurrentDate(day)]
            /\ slots' = WithoutContribution(p)
            /\ UNCHANGED cursor
       ELSE /\ goals' = [goals EXCEPT ![p] = NewGoal(p, day, goals[p].version + 1, goals[p].era + 1)]
            /\ cursor' = IF scan = "contributions" THEN SelectSeq(cursor, LAMBDA q : q # p) ELSE cursor
            /\ UNCHANGED slots
    /\ UNCHANGED <<scan, today, plans, jobs>>

Transitions == [pause |-> {"active"}, resume |-> {"paused"}, complete |-> {"active", "paused"},
                archive |-> {"active", "paused", "completed"}]
StatusAfter == [pause |-> "paused", resume |-> "active", complete |-> "completed", archive |-> "archived"]
Transitioned(p, action) ==
    [goals EXCEPT ![p].status = StatusAfter[action], ![p].version = @ + 1,
        ![p].next = IF action = "resume" /\ @ < today THEN CurrentDate(goals[p].day) ELSE @]
TransitionGoal(p, action) ==
    /\ goals[p].version < MaxEdits
    /\ goals[p].status \in Transitions[action]
    /\ goals' = Transitioned(p, action)
    /\ slots' = IF action = "resume" THEN slots ELSE WithoutContribution(p)
    /\ UNCHANGED <<scan, today, cursor, plans, jobs>>

\* An open plan is rejected, completed, past its hour, or outdated by a change of the portfolio.
SettlePlan(p) ==
    /\ slots[p] # "none"
    /\ slots' = [slots EXCEPT ![p] = "none"]
    /\ UNCHANGED <<scan, today, goals, cursor, plans, jobs>>

Tick ==
    /\ today < LastDay
    /\ today' = today + 1
    /\ UNCHANGED <<scan, goals, cursor, plans, slots, jobs>>

-----------------------------------------------------------------------------
(* The batches *)

EarlierDate(p, q) == goals[p].next < goals[q].next \/ (goals[p].next = goals[q].next /\ p < q)
Before(s, p, q) == IF s = "contributions" THEN EarlierDate(p, q) ELSE p < q
InOrder(s, set) == SetToSortSeq(set, LAMBDA p, q : Before(s, p, q))
InTurnByDate(s) == InOrder(s, Portfolios)
\* Never visited first, then the one visited longest ago.
InTurn(s) == IF s = scan THEN InOrder(s, Portfolios \ ToSet(cursor)) \o cursor ELSE InOrder(s, Portfolios)
FirstOf(seq, limit) == SubSeq(seq, 1, Min({limit, Len(seq)}))
TargetOf(p) == [portfolio |-> p, era |-> goals[p].era, date |-> goals[p].next]
ScanTargets(s) ==
    LET eligible == SelectSeq(InTurn(s), LAMBDA p : s = "contributions" => Due(p))
        batch == IF s = scan THEN FirstOf(eligible, Limit) ELSE eligible
    IN  [n \in DOMAIN batch |-> TargetOf(batch[n])]
Visited(s, p) == IF s = scan THEN Append(SelectSeq(cursor, LAMBDA q : q # p), p) ELSE cursor

BeginScan(i, s, troubled) ==
    jobs' = [jobs EXCEPT ![i] = [IdleJob EXCEPT !.phase = s, !.targets = ScanTargets(s), !.troubled = troubled]]
At(i, phase, stage) == jobs[i].phase = phase /\ jobs[i].targets # <<>> /\ jobs[i].stage = stage
Turn(i) == Head(jobs[i].targets)
To(i, stage) == jobs' = [jobs EXCEPT ![i].stage = stage, ![i].seen = 0]
Done(i) == jobs' = [jobs EXCEPT ![i] = [IdleJob EXCEPT !.phase = jobs[i].phase, !.troubled = jobs[i].troubled,
                                                        !.targets = Tail(jobs[i].targets)]]

-----------------------------------------------------------------------------
(* Daily maintenance *)

\* In a troubled one calls fail, and the platform may end it before it is through.
StartMaintenance(i, troubled) ==
    /\ jobs[i].phase = "idle"
    /\ BeginScan(i, "snapshots", troubled)
    /\ UNCHANGED <<scan, today, goals, cursor, plans, slots>>

\* Whether the snapshot is taken or skipped, the attempt is marked, unless that fails too.
SnapshotPortfolio(i, marked) ==
    /\ At(i, "snapshots", "read")
    /\ marked \/ jobs[i].troubled
    /\ cursor' = IF marked THEN Visited("snapshots", Turn(i).portfolio) ELSE cursor
    /\ Done(i)
    /\ UNCHANGED <<scan, today, goals, plans, slots>>

\* Without the day's market data or snapshots the rest of the maintenance is given up.
AfterSnapshots(i, ok) ==
    /\ jobs[i].phase = "snapshots" /\ jobs[i].targets = <<>>
    /\ ok \/ jobs[i].troubled
    /\ IF ok THEN BeginScan(i, "contributions", jobs[i].troubled) ELSE jobs' = [jobs EXCEPT ![i] = IdleJob]
    /\ UNCHANGED <<scan, today, goals, cursor, plans, slots>>

PlansOf(p, era) == {n \in DOMAIN plans : plans[n].portfolio = p /\ plans[n].era = era}
WithKey(t) == {n \in PlansOf(t.portfolio, t.era) : plans[n].key = t.date}
NothingPlanned(p, era, date) == FALSE
Planned(p, era, date) == \E n \in PlansOf(p, era) : plans[n].date = date

\* The goal is read anew; its date is that of the plan, and a key used before ends the visit.
ReadGoal(i) ==
    /\ At(i, "contributions", "read")
    /\ LET p == Turn(i).portfolio
           goal == goals[p]
       IN  IF goal.status = "archived" \/ goal.era # Turn(i).era \/ WithKey(Turn(i)) # {}
           THEN To(i, "mark")
           ELSE jobs' = [jobs EXCEPT ![i].stage = "create", ![i].seen = goal]
    /\ UNCHANGED <<scan, today, goals, cursor, plans, slots>>

\* An unsafe valuation, a missing policy or a failed call skips the goal.
SkipGoal(i) ==
    /\ At(i, "contributions", "create")
    /\ To(i, "mark")
    /\ UNCHANGED <<scan, today, goals, cursor, plans, slots>>

\* A goal that is reached is completed, unless it has changed since it was read.
CompleteGoal(i) ==
    /\ At(i, "contributions", "create")
    /\ LET p == Turn(i).portfolio IN
       /\ goals[p].era = jobs[i].seen.era /\ goals[p].version = jobs[i].seen.version
       /\ goals[p].status \in Transitions["complete"]
       /\ goals' = Transitioned(p, "complete")
       /\ slots' = WithoutContribution(p)
    /\ To(i, "mark")
    /\ UNCHANGED <<scan, today, cursor, plans>>

Current(i) ==
    LET p == Turn(i).portfolio
        goal == goals[p]
    IN  /\ goal.status = "active" /\ goal.era = jobs[i].seen.era /\ goal.version = jobs[i].seen.version
        /\ goal.next = jobs[i].seen.next /\ goal.next <= TargetDate /\ today <= TargetDate

\* A key or a cycle that has its plan returns that plan; nothing else is changed.
FindPlan(i) ==
    /\ At(i, "contributions", "create")
    /\ WithKey(Turn(i)) # {} \/ Planned(Turn(i).portfolio, jobs[i].seen.era, jobs[i].seen.next)
    /\ To(i, "mark")
    /\ UNCHANGED <<scan, today, goals, cursor, plans, slots>>

CreatePlan(i) ==
    /\ At(i, "contributions", "create")
    /\ LET p == Turn(i).portfolio
           date == jobs[i].seen.next
       IN  /\ WithKey(Turn(i)) = {} /\ ~ Planned(p, jobs[i].seen.era, date)
           /\ Current(i) /\ slots[p] = "none"
           /\ plans' = Append(plans, [portfolio |-> p, era |-> goals[p].era, date |-> date,
                                      key |-> Turn(i).date])
           /\ slots' = [slots EXCEPT ![p] = "contribution"]
           /\ goals' = [goals EXCEPT ![p].next = NextDate(date, goals[p].day)]
           /\ cursor' = Visited("contributions", p)
    /\ To(i, "mark")
    /\ UNCHANGED <<scan, today>>

RefusePlan(i) ==
    /\ At(i, "contributions", "create")
    /\ ~ Current(i) \/ slots[Turn(i).portfolio] # "none"
    /\ To(i, "mark")
    /\ UNCHANGED <<scan, today, goals, cursor, plans, slots>>

MarkGoal(i, marked) ==
    /\ At(i, "contributions", "mark")
    /\ marked \/ jobs[i].troubled
    /\ LET p == Turn(i).portfolio IN
       cursor' = IF marked /\ goals[p].status = "active" /\ goals[p].era = Turn(i).era
                  THEN Visited("contributions", p) ELSE cursor
    /\ Done(i)
    /\ UNCHANGED <<scan, today, goals, plans, slots>>

AfterContributions(i) ==
    /\ jobs[i].phase = "contributions" /\ jobs[i].targets = <<>>
    /\ BeginScan(i, "rebalances", jobs[i].troubled)
    /\ UNCHANGED <<scan, today, goals, cursor, plans, slots>>

\* A portfolio that drifted takes the slot if it is free.
RebalancePortfolio(i, marked) ==
    /\ At(i, "rebalances", "read")
    /\ marked \/ jobs[i].troubled
    /\ LET p == Turn(i).portfolio IN
       /\ slots' \in {slots} \cup
            (IF slots[p] = "none" THEN {[slots EXCEPT ![p] = "rebalance"]} ELSE {})
       /\ cursor' = IF marked THEN Visited("rebalances", p) ELSE cursor
    /\ Done(i)
    /\ UNCHANGED <<scan, today, goals, plans>>

\* Deliveries and monitors follow, in their own modules.
AfterRebalances(i) ==
    /\ jobs[i].phase = "rebalances" /\ jobs[i].targets = <<>>
    /\ jobs' = [jobs EXCEPT ![i] = IdleJob]
    /\ UNCHANGED <<scan, today, goals, cursor, plans, slots>>

\* The platform ends an invocation that runs for too long; nothing after it is done.
Kill(i) ==
    /\ jobs[i].phase # "idle" /\ jobs[i].troubled
    /\ jobs' = [jobs EXCEPT ![i] = IdleJob]
    /\ UNCHANGED <<scan, today, goals, cursor, plans, slots>>

-----------------------------------------------------------------------------
ScheduleInit ==
    /\ today = 0
    /\ goals = [p \in Portfolios |-> [status |-> "active", day |-> FirstDay[p], next |-> FirstDay[p] - 1,
                                      version |-> 0, era |-> 0]]
    /\ scan \in Followed
    /\ cursor = <<>>
    /\ plans = <<>>
    /\ slots = [p \in Portfolios |-> "none"]
    /\ jobs = [i \in Invocations |-> IdleJob]

Generate(i) == SkipGoal(i) \/ CompleteGoal(i) \/ FindPlan(i) \/ CreatePlan(i) \/ RefusePlan(i)

Maintain(i) ==
    \/ AfterContributions(i)
    \/ AfterRebalances(i)
    \/ ReadGoal(i)
    \/ Generate(i)
    \/ \E troubled \in Troubles : StartMaintenance(i, troubled)
    \/ \E ok \in BOOLEAN :
         \/ SnapshotPortfolio(i, ok) \/ AfterSnapshots(i, ok) \/ MarkGoal(i, ok) \/ RebalancePortfolio(i, ok)

Own(p) ==
    \/ \E day \in ContributionDays : SaveGoal(p, day)
    \/ \E action \in DOMAIN Transitions : TransitionGoal(p, action)
    \/ SettlePlan(p)

ScheduleNext ==
    \/ Tick
    \/ \E p \in Portfolios : Own(p)
    \/ \E i \in Invocations : Maintain(i) \/ Kill(i)

\* Time and the cron go on, and of infinitely many maintenances some run without trouble.
Untroubled == \E i \in Invocations : StartMaintenance(i, FALSE)
WeakFairness == WF_scheduleVars(Tick) /\ \A i \in Invocations : WF_scheduleVars(Maintain(i))
Fairness == WeakFairness /\ SF_scheduleVars(Untroubled)
ScheduleSpec == ScheduleInit /\ [][ScheduleNext]_scheduleVars /\ Fairness

-----------------------------------------------------------------------------
(* Properties *)

Goal == [status : {"active", "paused", "completed", "archived"}, day : ContributionDays, next : Nat,
         version : Nat, era : Nat]
ScheduleTypeOK ==
    /\ today \in 0..LastDay
    /\ goals \in [Portfolios -> Goal]
    /\ ToSet(cursor) \subseteq Portfolios /\ IsInjective(cursor)

\* However often a goal is edited, paused and visited, by however many invocations, a date of a
\* goal gets at most one scheduled plan (CONTRACT.md:312).
OnePlanPerCycle ==
    \A m, n \in DOMAIN plans :
        plans[m].portfolio = plans[n].portfolio /\ plans[m].era = plans[n].era /\ plans[m].date = plans[n].date => m = n

\* A goal that is due is visited in its turn, however many others are due with it and even if
\* the plan of every one of them is refused every day (P8_CHANGELOG.md:24); so is a portfolio
\* that waits for its snapshot or for the check of its drift (CONTRACT.md:283).
Waiting(p) == scan = "contributions" => Due(p)
Reached(p) ==
    \E i \in Invocations, stage \in (IF scan = "contributions" THEN {"create", "mark"} ELSE {"read"}) :
        At(i, scan, stage) /\ Turn(i).portfolio = p
InItsTurn(p) == Waiting(p) => Reached(p)
EveryoneIsReached == \A p \in Portfolios : []<>InItsTurn(p)

\* The next date of a goal has had no plan yet: the check of the cycle comes before that of the
\* date so that retries find the plan "after next_contribution_date advances"
\* (202607140001_p8_goal_contributions.sql:717); a date that does not is never left.
NextDateIsUnplanned ==
    \A p \in Portfolios : goals[p].status = "active" => ~ Planned(p, goals[p].era, goals[p].next)
=============================================================================
