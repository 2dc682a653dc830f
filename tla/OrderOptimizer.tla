---------------------------- MODULE OrderOptimizer ----------------------------
(***************************************************************************)
(* The cost estimate of a plan's orders (order-optimizer.ts): sells first,    *)
(* then buys, each kept, cut down or refused so that costs and estimated      *)
(* taxes never take the cash that the plan keeps back; and the costs of the    *)
(* fills that the user enters later.                                          *)
(*                                                                         *)
(* Money is counted in cents, as in the code, and raw amounts (what a caller   *)
(* passes, a quantity times a price) in parts of a cent, Scale to the cent.    *)
(* A quantity is counted in parts of a share, Scale to the share, and a rate   *)
(* in parts of Whole, which stands for 100 % and for 10,000 basis points.      *)
(***************************************************************************)
EXTENDS Integers, Sequences, FiniteSetsExt, SequencesExt

CONSTANTS
    Whole, Scale,
    MinimumSlack,   \* 1e-9 dollars, in raw parts: what a fill may lack of the minimum
    CostSlack       \* 1e-6 dollars times percent: what it may cost beyond the limit

VARIABLES
    job,        \* the input of optimizePortfolioOrders
    rest,       \* symbols of the candidates still to be looked at
    cash,       \* executionCash
    taxes,      \* taxReserve
    orders,     \* the orders so far, by symbol
    outcome     \* status of the result

optimizerVars == <<job, rest, cash, taxes, orders, outcome>>

-----------------------------------------------------------------------------
(* Cents and rates.                                                            *)

CeilDiv(a, b) == IF a <= 0 THEN 0 ELSE (a + b - 1) \div b
ToCents(raw) == (2 * raw + Scale) \div (2 * Scale)
FloorToCents(raw) == raw \div Scale
CeilToCents(raw) == -((-raw) \div Scale)
FloorRate(amount, rate) == (amount * rate) \div Whole
CeilRate(amount, rate) == IF amount <= 0 \/ rate <= 0 THEN 0 ELSE CeilDiv(amount * rate, Whole)
QuantityForUp(cents, price) == CeilDiv(cents * Scale, price)
QuantityFor(cents, price) == (cents * Scale) \div price
WithinCostLimit(cost, notional, policy) == notional > 0 /\ cost * Whole <= notional * policy.maxCost

-----------------------------------------------------------------------------
(* Costs of one order.                                                         *)

Costs(commission, slippage, salesTax, gain, gainsTax, net) ==
    [commission |-> commission, slippage |-> slippage, salesTax |-> salesTax, gain |-> gain,
     gainsTax |-> gainsTax, total |-> commission + slippage + salesTax + gainsTax, net |-> net]
ZeroCosts == Costs(0, 0, 0, 0, 0, 0)

Commission(execution, policy) ==
    IF execution <= 0 THEN 0 ELSE policy.fixed + CeilRate(execution, policy.commission)

BuyCosts(notional, policy) ==
    LET slippage == CeilRate(notional, policy.buySlippage)
        commission == Commission(notional + slippage, policy)
    IN  IF notional <= 0 THEN ZeroCosts
        ELSE Costs(commission, slippage, 0, 0, 0, -(notional + slippage + commission))

Taxed(execution, commission, basis, policy) ==
    LET salesTax == CeilRate(execution, policy.salesTax)
        gain == Max({0, execution - commission - salesTax - basis})
    IN  [salesTax |-> salesTax, gain |-> gain, gainsTax |-> CeilRate(gain, policy.gainsTax)]

SellCosts(notional, basis, policy) ==
    LET slippage == CeilRate(notional, policy.sellSlippage)
        execution == Max({0, notional - slippage})
        commission == Commission(execution, policy)
        t == Taxed(execution, commission, basis, policy)
    IN  Costs(commission, slippage, t.salesTax, t.gain, t.gainsTax, execution - commission)

\* The oldest lots that cover a sale: how much of each, and what they cost.
NothingTaken(quantity) == [left |-> quantity, basis |-> 0, slices |-> <<>>, valid |-> TRUE, done |-> FALSE]
TakeLot(sale, lot) ==
    LET consumed == Min({sale.left, lot.quantity})
        basis == FloorToCents(consumed * lot.unitCost)
    IN  IF sale.done THEN sale
        ELSE IF lot.quantity <= 0 \/ lot.unitCost < 0
        THEN [NothingTaken(sale.left) EXCEPT !.valid = FALSE, !.done = TRUE]
        ELSE IF sale.left = 0 THEN [sale EXCEPT !.done = TRUE]
        ELSE [sale EXCEPT !.left = @ - consumed, !.basis = @ + basis,
                          !.slices = Append(@, [lot |-> lot.id, quantity |-> consumed])]
FifoLots(lots, symbol, quantity) ==
    LET sale == FoldLeft(TakeLot, NothingTaken(quantity), SelectSeq(lots, LAMBDA lot : lot.symbol = symbol))
    IN  [valid |-> sale.valid /\ sale.left = 0, basis |-> sale.basis, slices |-> sale.slices]
NoLots == [valid |-> FALSE, basis |-> 0, slices |-> <<>>]

-----------------------------------------------------------------------------
(* Candidates and the job as it was validated.                                 *)

Policy == job.policy
ValidPolicy(p) ==
    /\ p.fifo /\ p.fixed >= 0
    /\ {p.commission, p.buySlippage, p.sellSlippage, p.salesTax, p.gainsTax, p.maxCost} \subseteq 0..Whole
ValidCandidate(c) ==
    /\ c.requested >= 0 /\ c.priority >= 0
    /\ IF c.action = "hold" THEN ToCents(c.requested) = 0 ELSE c.price > 0
ValidJob(j) ==
    /\ j.cash >= 0 /\ j.reserve >= 0 /\ j.minimum >= 0
    /\ ValidPolicy(j.policy)
    /\ DOMAIN j.candidates # {} /\ \A s \in DOMAIN j.candidates : ValidCandidate(j.candidates[s])

Requested(s) == ToCents(job.candidates[s].requested)
Price(s) == job.candidates[s].price
Reserve == ToCents(job.reserve)
Minimum == ToCents(job.minimum)

\* Sells, then buys, then what is held; by priority, then by name (symbols are numbers here).
ActionOrder(action) == IF action = "sell" THEN 0 ELSE IF action = "buy" THEN 1 ELSE 2
Earlier(s, t) ==
    LET a == job.candidates[s]
        b == job.candidates[t]
        rank == ActionOrder(a.action) - ActionOrder(b.action)
    IN  \/ rank < 0
        \/ rank = 0 /\ (a.priority < b.priority \/ (a.priority = b.priority /\ s < t))
IsNext(s, action) ==
    /\ s \in rest /\ job.candidates[s].action = action
    /\ \A t \in rest \ {s} : Earlier(s, t)

ZeroOrder(decision) ==
    [action |-> "hold", trade |-> 0, decision |-> decision, quantity |-> 0, costs |-> ZeroCosts,
     basis |-> 0, slices |-> <<>>]
Order(action, trade, decision, quantity, costs, lots) ==
    [action |-> action, trade |-> trade, decision |-> decision, quantity |-> quantity, costs |-> costs,
     basis |-> lots.basis, slices |-> lots.slices]

SellOrder(s) ==
    LET quantity == QuantityFor(Requested(s), Price(s))
        found == FifoLots(job.lots, s, quantity)
        lots == IF found.valid THEN found ELSE NoLots
        costs == SellCosts(Requested(s), lots.basis, Policy)
    IN  IF Requested(s) = 0 THEN ZeroOrder("not-required")
        ELSE IF Requested(s) < Minimum \/ quantity = 0 THEN ZeroOrder("below-minimum")
        ELSE IF ~ found.valid /\ Policy.gainsTax > 0 THEN ZeroOrder("invalid-tax-lots")
        ELSE IF costs.net <= 0 \/ ~ WithinCostLimit(costs.total, Requested(s), Policy)
        THEN ZeroOrder("cost-inefficient")
        ELSE Order("sell", Requested(s), "execute", quantity, costs, lots)

\* The binary search for the largest buy that the cash left over pays for.
MaxAffordableWithoutFee(desired, available, policy) ==
    LET search[lower \in 0..desired, upper \in 0..desired] ==
          LET middle == lower + (upper - lower + 1) \div 2
          IN  IF lower >= upper THEN lower
              ELSE IF middle + BuyCosts(middle, policy).slippage <= available THEN search[middle, upper]
              ELSE search[lower, middle - 1]
    IN  search[0, desired]
MaxAffordable(desired, available, policy) ==
    LET search[lower \in 0..desired, upper \in 0..desired] ==
          LET middle == lower + (upper - lower + 1) \div 2
          IN  IF lower >= upper THEN lower
              ELSE IF -BuyCosts(middle, policy).net <= available THEN search[middle, upper]
              ELSE search[lower, middle - 1]
    IN  search[0, desired]

Available == Max({0, cash - Reserve - taxes})
BuyOrder(s) ==
    LET affordable == MaxAffordable(Requested(s), Available, Policy)
        costs == BuyCosts(affordable, Policy)
        quantity == QuantityFor(affordable, Price(s))
    IN  IF Requested(s) = 0 THEN ZeroOrder("not-required")
        ELSE IF Requested(s) < Minimum THEN ZeroOrder("below-minimum")
        ELSE IF affordable < Minimum \/ affordable = 0 THEN ZeroOrder("cash-limited")
        ELSE IF ~ WithinCostLimit(costs.total, affordable, Policy) THEN ZeroOrder("cost-inefficient")
        ELSE IF quantity = 0 THEN ZeroOrder("below-minimum")
        ELSE Order("buy", affordable, IF affordable < Requested(s) THEN "cash-limited" ELSE "execute",
                   quantity, costs, NoLots)

-----------------------------------------------------------------------------
Start(j) ==
    /\ job' = j
    /\ rest' = DOMAIN j.candidates
    /\ cash' = ToCents(j.cash)
    /\ taxes' = 0
    /\ orders' = <<>>
    /\ outcome' = "none"

Reject ==
    /\ outcome = "none"
    /\ ~ ValidJob(job)
    /\ outcome' = "invalid"
    /\ UNCHANGED <<job, rest, cash, taxes, orders>>

Decide(s, order) ==
    /\ outcome = "none" /\ ValidJob(job)
    /\ orders' = [t \in DOMAIN orders \cup {s} |-> IF t = s THEN order ELSE orders[t]]
    /\ rest' = rest \ {s}
    /\ cash' = cash + order.costs.net
    /\ taxes' = taxes + order.costs.salesTax + order.costs.gainsTax
    /\ UNCHANGED <<job, outcome>>

Sell(s) == IsNext(s, "sell") /\ Decide(s, SellOrder(s))
Buy(s) == IsNext(s, "buy") /\ Decide(s, BuyOrder(s))
Hold(s) == IsNext(s, "hold") /\ Decide(s, ZeroOrder("not-required"))

\* The reserves are looked at once more, and the result tells whether an order was cut.
Finish ==
    /\ outcome = "none" /\ ValidJob(job) /\ rest = {}
    /\ outcome' = IF cash < 0 \/ cash - taxes < Reserve THEN "invalid"
                  ELSE IF \A s \in DOMAIN orders : orders[s].decision \in {"execute", "not-required"}
                  THEN "available" ELSE "partial"
    /\ UNCHANGED <<job, rest, cash, taxes, orders>>

Optimize == Reject \/ Finish \/ \E s \in DOMAIN job.candidates : Sell(s) \/ Buy(s) \/ Hold(s)

-----------------------------------------------------------------------------
(* What a fill that the user enters costs: estimateActualPortfolioOrderCosts.   *)

ActualBuyCosts(quantity, price, reference, fee) ==
    Costs(CeilToCents(fee), CeilToCents((price - reference) * quantity), 0, 0, 0,
          -(CeilToCents(quantity * price) + CeilToCents(fee)))
ActualSellCosts(quantity, price, reference, fee, basis, policy) ==
    LET notional == FloorToCents(quantity * price)
        t == Taxed(notional, CeilToCents(fee), basis, policy)
    IN  Costs(CeilToCents(fee), CeilToCents((reference - price) * quantity),
              t.salesTax, t.gain, t.gainsTax, notional - CeilToCents(fee))
ActualCosts(symbol, action, fill, reference, policy, lots) ==
    IF action = "buy" THEN ActualBuyCosts(fill.quantity, fill.price, reference, fill.fee)
    ELSE ActualSellCosts(fill.quantity, fill.price, reference, fill.fee,
                         FifoLots(lots, symbol, fill.quantity).basis, policy)

\* What both services ask of a fill: a quantity is rounded down to parts of a share, so that a
\* fill to the letter may be a little below the order it was planned for.
WorthItsCosts(notional, costs, minimum, policy) ==
    LET economic == costs.commission + Max({0, costs.slippage}) + costs.salesTax + costs.gainsTax
    IN  /\ notional + MinimumSlack >= minimum * Scale
        /\ economic * Scale * Whole - notional * policy.maxCost <= CostSlack

-----------------------------------------------------------------------------
(* Properties *)

\* Whatever the costs, rounding and taxes, the cash left over never falls below the reserve
\* that a job starts with: no sell costs more than it brings in, and a buy leaves the taxes
\* of the sells before it alone (order-optimizer.ts:661, P9_CHANGELOG.md:8).
ReserveNeverBroken == ToCents(job.cash) >= Reserve => cash - taxes >= Reserve

\* An order that is filled for the estimated commission, at a price within the estimated
\* slippage, costs no more than was estimated; a sale of a quantity that was rounded down may
\* bring in what that costs less (order-optimizer.ts:680).
FillsKeepToTheEstimate ==
    \A s \in DOMAIN orders :
        LET order == orders[s]
            highest == (Price(s) * (Whole + Policy.buySlippage)) \div Whole
            lowest == Price(s) - FloorRate(Price(s), Policy.sellSlippage)
            actual(price) ==
                ActualCosts(s, order.action, [quantity |-> order.quantity, price |-> price,
                                              fee |-> order.costs.commission * Scale],
                            Price(s), Policy, job.lots).net
        IN  /\ order.action = "buy" => actual(highest) >= order.costs.net
            /\ order.action = "sell" => actual(lowest) >= order.costs.net - 1 - Price(s) \div Scale
=============================================================================
