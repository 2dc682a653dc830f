--------------------------- MODULE RebalancePlanner ---------------------------
(***************************************************************************)
(* What a rebalance plan proposes and when it is safe: the drift of a         *)
(* portfolio from its targets (rebalance.ts), the optimized orders            *)
(* (OrderOptimizer), the judgement when the plan is generated, approved and   *)
(* executed (rebalance-workflow.ts, rebalance-service.ts).  PlanWorkflow      *)
(* models how such a plan is stored; here are the numbers.                    *)
(***************************************************************************)
EXTENDS OrderOptimizer

CONSTANTS
    Books,      \* portfolios with their targets and prices
    Prices,     \* prices that an asset may have
    MaxMove,    \* PRICE_MOVE_REAPPROVAL_PCT
    CashSymbol  \* CASH

VARIABLES
    book,       \* the portfolio, its policy and the prices of today
    phase,      \* what the optimizer's result will be used for
    base,       \* status of the base plan, and whether the drift calls for one
    plan        \* the plan that was generated

planVars == <<book, phase, base, plan>>

-----------------------------------------------------------------------------
(* The base plan.  Raw amounts are parts of a cent.                             *)

Assets(b) == DOMAIN b.targets \cup DOMAIN b.holdings \cup {CashSymbol}
Quantity(b, s) == IF s \in DOMAIN b.holdings THEN b.holdings[s] ELSE 0
ValueOf(b, s) == IF s = CashSymbol THEN b.cash * Scale ELSE Quantity(b, s) * b.prices[s]
TotalValue(b) == MapThenSumSet(LAMBDA s : ValueOf(b, s), Assets(b))
TargetPct(b, s) == IF s \in DOMAIN b.targets THEN b.targets[s] ELSE 0
TargetValue(b, s) == (TotalValue(b) * TargetPct(b, s)) \div Whole
Distance(x, y) == IF x < y THEN y - x ELSE x - y
Drift(b, s) == Distance(ValueOf(b, s) * Whole, TotalValue(b) * TargetPct(b, s))
RebalanceNeeded(b) == Max({Drift(b, s) : s \in Assets(b)}) >= b.threshold * TotalValue(b)
ValidTargets(b) ==
    /\ DOMAIN b.targets # {} /\ \A s \in DOMAIN b.targets : b.targets[s] \in 1..Whole
    /\ MapThenSumSet(LAMBDA s : b.targets[s], DOMAIN b.targets) = Whole

Actionable(b, s) ==
    /\ s # CashSymbol /\ RebalanceNeeded(b)
    /\ Distance(TargetValue(b, s), ValueOf(b, s)) >= b.minimum * Scale
BaseAction(b, s) ==
    IF ~ Actionable(b, s) THEN "hold" ELSE IF TargetValue(b, s) > ValueOf(b, s) THEN "buy" ELSE "sell"
BaseTrade(b, s) == IF Actionable(b, s) THEN ToCents(Distance(TargetValue(b, s), ValueOf(b, s))) ELSE 0
BaseCashAfter(b) ==
    b.cash + MapThenSumSet(LAMBDA s : IF BaseAction(b, s) = "sell" THEN BaseTrade(b, s) ELSE 0, Assets(b))
           - MapThenSumSet(LAMBDA s : IF BaseAction(b, s) = "buy" THEN BaseTrade(b, s) ELSE 0, Assets(b))
BaseStatus(b) ==
    IF ~ ValidTargets(b) \/ TotalValue(b) <= 0 THEN "invalid"
    ELSE IF \/ BaseCashAfter(b) < 0
            \/ \E s \in Assets(b) \ {CashSymbol} : b.prices[s] = 0
            \/ RebalanceNeeded(b) /\ \A s \in Assets(b) : BaseAction(b, s) = "hold"
    THEN "partial" ELSE "available"

\* Items are ordered by their drift, and CASH comes last.
Position(b, s) ==
    Cardinality({t \in Assets(b) \ {s, CashSymbol} :
        s = CashSymbol \/ Drift(b, t) > Drift(b, s) \/ (Drift(b, t) = Drift(b, s) /\ t < s)})
JobOf(b) ==
    [cash |-> b.cash * Scale, reserve |-> Max({0, BaseCashAfter(b)}) * Scale, minimum |-> b.minimum * Scale,
     policy |-> b.policy, lots |-> b.lots,
     candidates |-> [s \in Assets(b) |->
        [action |-> BaseAction(b, s), requested |-> BaseTrade(b, s) * Scale, priority |-> Position(b, s),
         price |-> IF s = CashSymbol THEN 0 ELSE b.prices[s]]]]

-----------------------------------------------------------------------------
(* The plan with its costs.                                                    *)

PlanStatus ==
    IF outcome = "invalid" THEN "invalid"
    ELSE IF base.status = "available" THEN "available" ELSE "partial"
Ordered == {s \in DOMAIN orders : orders[s].action # "hold"}
Verified(b) == Assets(b) \ {CashSymbol} \subseteq b.verified
SpendableAfter == cash - taxes

\* planSafetyReasons is empty.
SafeToGenerateUnverified ==
    /\ PlanStatus = "available" /\ base.needed
    /\ SpendableAfter >= 0 /\ Ordered # {}
    /\ Ordered \subseteq book.recent
SafeToGenerate ==
    /\ Verified(book) /\ PlanStatus = "available" /\ base.needed
    /\ SpendableAfter >= 0 /\ Ordered # {}
    /\ Ordered \subseteq book.recent

Moved(price, reference) == Distance(price, reference) * Whole > reference * MaxMove
\* assessRebalanceApproval finds no reason against the plan, given the prices to compare with.
SafeAssessment(reference) ==
    /\ book.stamp = plan.book.stamp
    /\ Verified(book) /\ Assets(book) \ {CashSymbol} \subseteq book.recent
    /\ PlanStatus = "available" /\ base.needed /\ SpendableAfter >= 0
    /\ \A s \in DOMAIN plan.items : plan.items[s].action # "hold" =>
         /\ s \in DOMAIN orders /\ orders[s].action = plan.items[s].action
         /\ ~ Moved(book.prices[s], reference[s])
\* Nor does currentAssessment: today's plan has the same orders, decided in the same way.
SafeToProceed(reference) ==
    /\ SafeAssessment(reference)
    /\ DOMAIN plan.items = DOMAIN orders
    /\ \A s \in DOMAIN plan.items :
         orders[s].action = plan.items[s].action /\ orders[s].decision = plan.items[s].decision

-----------------------------------------------------------------------------
NoPlan == [status |-> "none", items |-> <<>>, book |-> <<>>, approved |-> <<>>, cashAfter |-> 0]
NoJob == [cash |-> 0, reserve |-> 0, minimum |-> 0, lots |-> <<>>, candidates |-> <<>>, policy |-> <<>>]

Init ==
    /\ book \in Books
    /\ phase = "idle" /\ plan = NoPlan /\ base = [status |-> "invalid", needed |-> FALSE]
    /\ job = NoJob /\ rest = {} /\ cash = 0 /\ taxes = 0 /\ orders = <<>> /\ outcome = "none"

\* Someone asks for a plan, approves it or enters its fills: today's plan is worked out first.
Begin(what) ==
    /\ phase = "idle"
    /\ plan.status = CASE what = "generate" -> "none" [] what = "approve" -> "pending" [] what = "execute" -> "approved"
    /\ phase' = what
    /\ base' = [status |-> BaseStatus(book), needed |-> RebalanceNeeded(book)]
    /\ Start(JobOf(book))
    /\ UNCHANGED <<book, plan>>

\* An invalid base plan is not optimized at all.
Work ==
    /\ phase # "idle" /\ base.status # "invalid"
    /\ Optimize
    /\ UNCHANGED planVars

Worked == outcome # "none" \/ base.status = "invalid"
Conclude(result) ==
    /\ phase' = "idle" /\ plan' = result
    /\ UNCHANGED <<book, base, job, rest, cash, taxes, orders, outcome>>

Generate ==
    /\ phase = "generate" /\ Worked
    /\ IF base.status # "invalid" /\ SafeToGenerate
       THEN Conclude([status |-> "pending", items |-> orders, book |-> book, approved |-> <<>>,
                      cashAfter |-> SpendableAfter])
       ELSE Conclude([NoPlan EXCEPT !.status = "refused"])

Approve ==
    /\ phase = "approve" /\ Worked
    /\ IF base.status # "invalid" /\ SafeToProceed(plan.book.prices)
       THEN Conclude([plan EXCEPT !.status = "approved", !.approved = book.prices])
       ELSE Conclude([plan EXCEPT !.status = "expired"])

\* The fills that are entered: one for each order, at most its quantity.
PlannedOrders == {s \in DOMAIN plan.items : plan.items[s].action # "hold"}
Fills == [PlannedOrders -> {"full", "half"} \X {-1, 0, 1}]
FillOf(choice, s) ==
    [quantity |-> IF choice[s][1] = "full" THEN plan.items[s].quantity ELSE plan.items[s].quantity \div 2,
     price |-> Max({1, plan.book.prices[s] + choice[s][2]}),
     fee |-> plan.items[s].costs.commission * Scale]
Acceptable(choice) ==
    LET fill(s) == FillOf(choice, s)
        notional(s) == fill(s).quantity * fill(s).price
        costs(s) == ActualCosts(s, plan.items[s].action, fill(s), plan.book.prices[s], plan.book.policy, book.lots)
        effect(s) == IF plan.items[s].action = "sell" THEN notional(s) - fill(s).fee ELSE -(notional(s) + fill(s).fee)
        after == book.cash * Scale + MapThenSumSet(effect, PlannedOrders)
                 - Scale * MapThenSumSet(LAMBDA s : costs(s).salesTax + costs(s).gainsTax, PlannedOrders)
    IN  /\ \A s \in PlannedOrders :
             /\ notional(s) > 0
             /\ WorthItsCosts(notional(s), costs(s), book.minimum, plan.book.policy)
             /\ ~ Moved(fill(s).price, plan.book.prices[s]) /\ ~ Moved(fill(s).price, plan.approved[s])
        /\ after >= TargetValue(plan.book, CashSymbol) - Scale

\* The database asks for the minimum once more, to the last decimal; what it refuses leaves
\* the plan approved.
Recordable(choice) ==
    \A s \in PlannedOrders : FillOf(choice, s).quantity * FillOf(choice, s).price >= book.minimum * Scale

Complete(choice) ==
    /\ phase = "execute" /\ Worked
    /\ IF base.status = "invalid" \/ ~ SafeToProceed(plan.approved) \/ ~ Acceptable(choice)
       THEN Conclude([plan EXCEPT !.status = "expired"])
       ELSE Conclude(IF Recordable(choice) THEN [plan EXCEPT !.status = "completed"] ELSE plan)

\* Between two requests prices move or grow old, or the ledger or a policy is edited.
Changes ==
    /\ phase = "idle" /\ plan.status \in {"pending", "approved"}
    /\ book = plan.book \* one change is enough to tell
    /\ \/ \E s \in DOMAIN book.prices, p \in Prices : book' = [book EXCEPT !.prices[s] = p]
       \/ \E s \in book.recent : book' = [book EXCEPT !.recent = @ \ {s}]
       \/ \E s \in book.verified : book' = [book EXCEPT !.verified = @ \ {s}]
       \/ book.stamp = 0 /\ book' = [book EXCEPT !.stamp = 1]
    /\ UNCHANGED <<phase, base, plan, job, rest, cash, taxes, orders, outcome>>

Next ==
    \/ \E what \in {"generate", "approve", "execute"} : Begin(what)
    \/ Work \/ Generate \/ Approve \/ Changes
    \/ \E choice \in Fills : Complete(choice)

Spec == Init /\ [][Next]_<<planVars, optimizerVars>>

-----------------------------------------------------------------------------
(* Properties *)

\* A plan that was found safe can be approved as long as nothing has changed: the judgement
\* at approval asks for nothing more than the one at generation, but that also what is held
\* and not ordered has a price of these days (rebalance-workflow.ts:37, rebalance-service.ts:287).
OnlyChangesExpire ==
    plan.status = "pending" /\ plan'.status = "expired" =>
        book # plan.book \/ ~ Assets(book) \ {CashSymbol} \subseteq book.recent
SafePlansCanBeApproved == [][OnlyChangesExpire]_<<planVars, optimizerVars>>

\* A plan never spends cash that the policy wants to be kept as cash (P9_CHANGELOG.md:8,
\* "protects target cash").
TargetCashProtected ==
    plan.status = "pending" =>
        LET target == TargetValue(plan.book, CashSymbol)
        IN  plan.book.cash * Scale >= target => plan.cashAfter >= FloorToCents(target)
=============================================================================
