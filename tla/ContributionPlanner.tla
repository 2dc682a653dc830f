-------------------------- MODULE ContributionPlanner --------------------------
(***************************************************************************)
(* A goal and its monthly deposit: what the goal will be worth and what it    *)
(* would take to reach it (projectInvestmentGoal), how one deposit is spread   *)
(* over the underweight targets (computeContributionPlan), the optimized       *)
(* orders (OrderOptimizer), and whether such a plan may be generated           *)
(* (contribution-service.ts).  Money is counted in cents, growth in parts of   *)
(* Whole; an amount above MaxCents is not safe and gives Unsafe.               *)
(***************************************************************************)
EXTENDS OrderOptimizer

CONSTANTS
    Deposits,   \* goals with the portfolio they belong to
    MaxCents,   \* Number.MAX_SAFE_INTEGER
    MaxMove,    \* PRICE_MOVE_REAPPROVAL_PCT
    AmountSlack, \* 1e-6 dollars, in raw parts
    CashSymbol  \* CASH

VARIABLES
    deposit,    \* the goal, its deposit and its portfolio
    step,       \* how far the plan has come
    remaining,  \* remainingInvestableCents
    bought,     \* orderCents, by symbol
    projection, \* the projection of the goal
    verdict     \* whether the plan may be generated

depositVars == <<deposit, step, remaining, bought, projection, verdict>>
allVars == <<depositVars, optimizerVars>>

-----------------------------------------------------------------------------
(* The projection.                                                             *)

Unsafe == -1
Grown(balance, rate) == (2 * balance * (Whole + rate) + Whole) \div (2 * Whole)
ProjectedCents(initial, monthly, rate, months) ==
    LET balance[month \in 0..months] ==
          IF month = 0 THEN initial
          ELSE LET before == balance[month - 1]
               IN  IF before = Unsafe \/ Grown(before, rate) > MaxCents - monthly THEN Unsafe
                   ELSE Grown(before, rate) + monthly
    IN  balance[months]

\* An upper bound is doubled until it suffices; then the least amount is searched below it.
RequiredCentsOff(initial, goal, rate, months, start) ==
    LET projected(monthly) == ProjectedCents(initial, monthly, rate, months)
        search[lower \in 0..goal, upper \in 0..goal] ==
          LET middle == (lower + upper) \div 2
          IN  IF lower >= upper THEN lower
              ELSE IF projected(middle) > goal THEN search[lower, middle]
              ELSE search[middle + 1, upper]
    IN  IF projected(0) >= goal THEN 0 ELSE search[0, goal]
RequiredCents(initial, goal, rate, months, start) ==
    LET projected(monthly) == ProjectedCents(initial, monthly, rate, months)
        bound[upper \in 1..(2 * MaxCents)] ==
          IF projected(upper) = Unsafe \/ projected(upper) >= goal THEN upper
          ELSE IF upper > MaxCents \div 2 THEN Unsafe ELSE bound[2 * upper]
        top == bound[Max({1, start})]
        search[lower \in 0..top, upper \in 0..top] ==
          LET middle == lower + (upper - lower) \div 2
          IN  IF lower >= upper THEN lower
              ELSE IF projected(middle) >= goal THEN search[lower, middle]
              ELSE search[middle + 1, upper]
    IN  IF projected(0) = Unsafe THEN Unsafe
        ELSE IF projected(0) >= goal THEN 0
        ELSE IF top = Unsafe \/ projected(top) = Unsafe THEN Unsafe
        ELSE search[0, top]

Invalid == [status |-> "invalid", value |-> 0, required |-> 0]
Projection(d, current) ==
    LET projected == ProjectedCents(current, d.monthly, d.rate, d.periods)
        required == RequiredCents(current, d.goal, d.rate, d.periods, d.monthly)
    IN  IF current < 0 \/ d.goal <= 0 \/ d.periods < 1 \/ d.rate <= -Whole THEN Invalid
        ELSE IF projected = Unsafe \/ required = Unsafe THEN Invalid
        ELSE [status |-> IF projected >= d.goal THEN "on-track" ELSE "shortfall",
              value |-> projected, required |-> required]

-----------------------------------------------------------------------------
(* One deposit.                                                                *)

Targets == DOMAIN deposit.targets
CurrentCents(s) == IF s = CashSymbol THEN deposit.cash ELSE deposit.values[s]
TotalBefore == deposit.cash + MapThenSumSet(LAMBDA s : deposit.values[s], DOMAIN deposit.values)
TotalAfter == TotalBefore + deposit.monthly

\* The total by target, in whole cents: the cents left over go to the largest remainders.
Units == MapThenSumSet(LAMBDA s : deposit.targets[s], Targets)
Floor(s) == (TotalAfter * deposit.targets[s]) \div Units
Remainder(s) == (TotalAfter * deposit.targets[s]) % Units
TargetCents(s) ==
    LET before == Cardinality({t \in Targets : Remainder(t) > Remainder(s) \/ (Remainder(t) = Remainder(s) /\ t < s)})
        undistributed == TotalAfter - MapThenSumSet(Floor, Targets)
    IN  Floor(s) + (IF before < undistributed THEN 1 ELSE 0)
Underweight(s) == Max({0, TargetCents(s) - CurrentCents(s)})

CashTarget == IF CashSymbol \in Targets THEN Min({Underweight(CashSymbol), deposit.monthly}) ELSE 0
\* Percent below the target, times the total: what the targets are ordered by.
UnderweightPct(s) ==
    IF TotalBefore = 0 THEN deposit.targets[s] ELSE deposit.targets[s] * TotalBefore - CurrentCents(s) * Whole
ComesBefore(s, t) ==
    \/ UnderweightPct(s) > UnderweightPct(t)
    \/ UnderweightPct(s) = UnderweightPct(t) /\
         (Underweight(s) > Underweight(t) \/ (Underweight(s) = Underweight(t) /\ s < t))
Priority(s) == Cardinality({t \in Targets : t = CashSymbol \/ (s # CashSymbol /\ ComesBefore(t, s))}) + 1

ValidDeposit ==
    /\ deposit.monthly > 0 /\ deposit.minimum >= 0
    /\ Targets # {} /\ \A s \in Targets : deposit.targets[s] \in 1..Whole
    /\ Units = Whole
    /\ TotalAfter <= MaxCents

-----------------------------------------------------------------------------
Init ==
    /\ deposit \in Deposits
    /\ step = "project"
    /\ remaining = 0 /\ bought = <<>> /\ projection = Invalid /\ verdict = "none"
    /\ job = [candidates |-> <<>>, cash |-> 0, reserve |-> 0, lots |-> <<>>]
    /\ rest = {} /\ cash = 0 /\ taxes = 0 /\ orders = <<>> /\ outcome = "none"

HeldSymbols == {s \in DOMAIN deposit.values : deposit.values[s] > 0}
GoalStatus ==
    LET found == Projection(deposit, TotalBefore)
    IN  IF ~ HeldSymbols \subseteq deposit.verified THEN "insufficient-data"
        ELSE IF TotalBefore >= deposit.goal THEN "funded"
        ELSE IF deposit.overdue \/ deposit.periods = 0 THEN "overdue"
        ELSE CASE found.status = "on-track" -> "on-track"
               [] found.status = "shortfall" -> "behind"
               [] OTHER -> "insufficient-data"

Project ==
    /\ step = "project"
    /\ projection' = [Projection(deposit, TotalBefore) EXCEPT !.status = GoalStatus]
    /\ IF ValidDeposit
       THEN /\ step' = "spread"
            /\ remaining' = deposit.monthly - CashTarget
            /\ UNCHANGED verdict
       ELSE /\ step' = "done" /\ verdict' = "refused"
            /\ UNCHANGED remaining
    /\ UNCHANGED <<deposit, bought, optimizerVars>>

\* The targets in their order: each takes what it lacks, if that is worth an order.
TurnOf(s) ==
    /\ s \in Targets \ (DOMAIN bought \cup {CashSymbol})
    /\ \A t \in Targets \ (DOMAIN bought \cup {CashSymbol, s}) : ComesBefore(s, t)
OrderCentsWhole(s) ==
    LET candidate == Min({Underweight(s), remaining})
    IN  IF Underweight(s) < deposit.minimum THEN 0 ELSE candidate
OrderCents(s) ==
    LET candidate == Min({Underweight(s), remaining})
    IN  IF candidate < deposit.minimum THEN 0 ELSE candidate
Spread(s) ==
    /\ step = "spread" /\ TurnOf(s)
    /\ bought' = bought @@ (s :> OrderCents(s))
    /\ remaining' = remaining - OrderCents(s)
    /\ UNCHANGED <<deposit, step, projection, verdict, optimizerVars>>

\* The deposit is the cash of the optimizer's job, and the cash target its reserve.
Cost ==
    /\ step = "spread" /\ Targets \subseteq DOMAIN bought \cup {CashSymbol}
    /\ step' = "cost"
    /\ Start([cash |-> deposit.monthly * Scale, reserve |-> CashTarget * Scale,
              minimum |-> deposit.minimum * Scale, policy |-> deposit.policy, lots |-> <<>>,
              candidates |-> [s \in Targets |->
                 [action |-> IF s \in DOMAIN bought /\ bought[s] > 0 THEN "buy" ELSE "hold",
                  requested |-> IF s \in DOMAIN bought THEN bought[s] * Scale ELSE 0,
                  priority |-> Priority(s),
                  price |-> IF s \in deposit.verified THEN deposit.prices[s] ELSE 0]]])
    /\ UNCHANGED <<deposit, remaining, bought, projection, verdict>>

Work ==
    /\ step = "cost"
    /\ Optimize
    /\ UNCHANGED depositVars

\* generationReasons, and what is asked again when the plan is approved or filled
SafeNow ==
    /\ deposit.active /\ ~ deposit.overdue /\ TotalBefore < deposit.goal
    /\ outcome # "invalid"
    /\ HeldSymbols \subseteq deposit.verified
    /\ {s \in DOMAIN bought : bought[s] > 0} \subseteq deposit.verified \cap deposit.recent
Judge ==
    /\ step = "cost" /\ outcome # "none"
    /\ step' = "done"
    /\ verdict' = IF SafeNow THEN "generated" ELSE "refused"
    /\ UNCHANGED <<deposit, remaining, bought, projection, optimizerVars>>

Approve ==
    /\ verdict = "generated"
    /\ verdict' = IF SafeNow THEN "approved" ELSE "expired"
    /\ UNCHANGED <<deposit, step, remaining, bought, projection, optimizerVars>>

\* The goal is paused, or a price grows old or loses its verification.
Changes ==
    /\ verdict \in {"generated", "approved"}
    /\ \/ deposit' = [deposit EXCEPT !.active = FALSE]
       \/ \E s \in deposit.recent : deposit' = [deposit EXCEPT !.recent = @ \ {s}]
       \/ \E s \in deposit.verified : deposit' = [deposit EXCEPT !.verified = @ \ {s}]
    /\ UNCHANGED <<step, remaining, bought, projection, verdict, optimizerVars>>

\* The deposit is made and the buys are filled: each at a price, for a fee, in full or in half.
Buys == {s \in DOMAIN orders : orders[s].action = "buy"}
Fills == [Buys -> [part : {1, 2}, move : {-1, 0, 1}, extra : {0, 1}]]
FillOf(choice, s) ==
    [quantity |-> orders[s].quantity \div choice[s].part, price |-> Max({1, Price(s) + choice[s].move}),
     fee |-> (orders[s].costs.commission + choice[s].extra) * Scale]
Spent(choice) ==
    MapThenSumSet(LAMBDA s : FillOf(choice, s).quantity * FillOf(choice, s).price + FillOf(choice, s).fee, Buys)
Acceptable(choice, s) ==
    LET fill == FillOf(choice, s)
    IN  /\ WorthItsCosts(fill.quantity * fill.price, ActualCosts(s, "buy", fill, Price(s), Policy, <<>>),
                         deposit.minimum, Policy)
        /\ Max({fill.price - Price(s), Price(s) - fill.price}) * Whole <= Price(s) * MaxMove

\* The database asks for the minimum and the deposit once more, to the last decimal.
Recordable(choice) ==
    /\ \A s \in Buys : FillOf(choice, s).quantity * FillOf(choice, s).price >= deposit.minimum * Scale
    /\ Spent(choice) <= deposit.monthly * Scale

ResultOfStrict(choice) == \* mutant: the remainder has to exceed the planned one
    LET left == deposit.monthly * Scale - Spent(choice)
    IN  IF left < -AmountSlack THEN "approved"
        ELSE IF ~ (SafeNow /\ (\A s \in Buys : Acceptable(choice, s)) /\ left > cash * Scale)
        THEN "expired"
        ELSE IF Recordable(choice) THEN "completed" ELSE "approved"

\* More than the deposit is refused, as is what the database does not take: the plan stays
\* approved.  What makes the plan unsafe ends it.
ResultOf(choice) ==
    LET left == deposit.monthly * Scale - Spent(choice)
    IN  IF left < -AmountSlack THEN "approved"
        ELSE IF ~ (SafeNow /\ (\A s \in Buys : Acceptable(choice, s)) /\ left + AmountSlack >= cash * Scale)
        THEN "expired"
        ELSE IF Recordable(choice) THEN "completed" ELSE "approved"
Execute(choice) ==
    /\ verdict = "approved"
    /\ verdict' = ResultOf(choice)
    /\ UNCHANGED <<deposit, step, remaining, bought, projection, optimizerVars>>

Next ==
    \/ Project \/ (\E s \in Targets : Spread(s)) \/ Cost \/ Work \/ Judge
    \/ Approve \/ Changes \/ (\E choice \in Fills : Execute(choice))

Spec == Init /\ [][Next]_allVars

-----------------------------------------------------------------------------
(* Properties *)

\* The contribution that a goal is told to need reaches it, and a cent less does not, although
\* every month is rounded to cents (contribution-plan.ts:139).
RequiredIsLeast ==
    step # "project" /\ projection.status \in {"on-track", "behind"} =>
        LET reached(monthly) == ProjectedCents(TotalBefore, monthly, deposit.rate, deposit.periods) >= deposit.goal
        IN  /\ reached(projection.required)
            /\ projection.required > 0 => ~ reached(projection.required - 1)
            /\ (projection.status = "on-track") = (projection.required <= deposit.monthly)

\* The order's quantity, rounded down, is worth less than the minimum.  Only an order of just
\* the minimum can be.
FallsShort(s) ==
    orders[s].trade = deposit.minimum /\ orders[s].quantity * Price(s) < deposit.minimum * Scale

\* A plan that was approved completes when its buys are filled in full, for the estimated
\* commission, at the price of the plan or above it within the estimated slippage: it is not sent
\* back because actual costs are rounded another way than estimated ones
\* (contribution-service.ts:688), unless an order falls short of the minimum by the rounding of
\* its quantity.  A lower price may send it back: the fee is then a larger part of the order, or
\* the order falls below the minimum.
EstimatedFillsComplete ==
    verdict = "approved" /\ SafeNow /\ (\A s \in Buys : ~ FallsShort(s)) =>
        \A choice \in Fills :
            (\A s \in Buys :
                /\ choice[s].part = 1 /\ choice[s].extra = 0 /\ choice[s].move >= 0
                /\ FillOf(choice, s).price * Whole <= Price(s) * (Whole + Policy.buySlippage))
            => ResultOf(choice) = "completed"

\* A deposit buys all it can: no target gets more than it lacks or an order below the minimum,
\* what is left would not pay for an order that any target still needs, and the costed orders
\* with the cash target take no more than the deposit (contribution-plan.ts:303).
DepositIsUsed ==
    step \in {"cost", "done"} /\ bought # <<>> =>
        /\ \A s \in DOMAIN bought :
             /\ bought[s] <= Underweight(s)
             /\ bought[s] = 0 \/ bought[s] >= deposit.minimum
             /\ bought[s] = 0 /\ Underweight(s) > 0 => Min({Underweight(s), remaining}) < Max({1, deposit.minimum})
        /\ remaining >= 0
        /\ outcome \in {"available", "partial"} => cash >= CashTarget
=============================================================================
