------------------------- MODULE PortfolioReturns -------------------------
(***************************************************************************)
(* The history of one portfolio and the returns reported from it.          *)
(*                                                                         *)
(* Two invocations of the snapshot job may visit the portfolio at once;    *)
(* each values the ledger it read and, later, stores what it computed      *)
(* under the instant of the insertion.  The owner appends and reverses     *)
(* transactions meanwhile.  The panel links the stored values into a       *)
(* time-weighted return, weighs the deposits into a money-weighted one and *)
(* compares both with a benchmark: src/domain/portfolio/performance.ts.    *)
(*                                                                         *)
(* Money and quantities are whole numbers, one symbol is held, and the     *)
(* rate that solves XIRR is reduced to its sign, which is the sign of the  *)
(* net present value at rate zero when deposits come before proceeds.      *)
(***************************************************************************)
EXTENDS Integers, Sequences, FiniteSets, SequencesExt

CONSTANTS
  Captures,   \* invocations of the snapshot job
  Amounts,    \* amounts of a deposit or a withdrawal
  Prices,     \* prices of a verified quote or a trade
  Estimates,  \* prices of a quote that is only an estimate
  Histories,  \* histories of the benchmark: functions from times to closes
  Bucket,     \* length of a capture bucket (15 minutes)
  Day,        \* the shortest span XIRR accepts
  Listed,     \* snapshots the panel asks for
  MaxClock,   \* bound of the clock
  MaxTrades,  \* bound of the ledger
  None

VARIABLES
  clock,
  ledger,     \* the transactions in the order of their commits
  snapshots,  \* rows of portfolio_snapshots in the order of their insertion
  reading,    \* what an invocation has valued and not yet stored
  candles     \* history of the benchmark

returnsVars == <<clock, ledger, snapshots, reading, candles>>

-----------------------------------------------------------------------------
\* The ledger

Flows == {"deposit", "withdrawal"}

activePortfolioTransactions(rows) == SelectSeq(rows, LAMBDA t : ~t.reversed)

Summed(rows, value(_)) ==
  FoldLeft(LAMBDA sum, t : sum + value(t), 0, activePortfolioTransactions(rows))

netContributions(rows) ==
  Summed(rows, LAMBDA t : CASE t.kind = "deposit"    -> t.amount
                            [] t.kind = "withdrawal" -> -t.amount
                            [] OTHER                 -> 0)

cashBalance(rows) ==
  Summed(rows, LAMBDA t : CASE t.kind \in {"deposit", "sell"} -> t.amount
                            [] OTHER                          -> -t.amount)

HeldQuantity(rows) ==
  Summed(rows, LAMBDA t : CASE t.kind = "buy"  -> 1
                            [] t.kind = "sell" -> -1
                            [] OTHER           -> 0)

\* Every transaction is entered behind the last active one, and neither the
\* cash nor the position may fall below zero.
appendPortfolioTransaction(kind, amount, at) ==
  /\ Len(ledger) < MaxTrades
  /\ at <= clock
  /\ LET active == activePortfolioTransactions(ledger)
         next == Append(ledger, [kind |-> kind, amount |-> amount, at |-> at, reversed |-> FALSE])
     IN  /\ active # <<>> => Last(active).at <= at
         /\ cashBalance(next) >= 0
         /\ HeldQuantity(next) >= 0
         /\ ledger' = next
  /\ UNCHANGED <<clock, snapshots, reading, candles>>

AppendFlow == \E kind \in Flows, amount \in Amounts, at \in 0..MaxClock :
                appendPortfolioTransaction(kind, amount, at)

AppendTrade == \E kind \in {"buy", "sell"}, price \in Prices, at \in 0..MaxClock :
                 appendPortfolioTransaction(kind, price, at)

\* Only the latest active transaction can be reversed.
ReverseTransaction ==
  /\ \E i \in DOMAIN ledger :
       /\ ~ledger[i].reversed
       /\ \A j \in i + 1..Len(ledger) : ledger[j].reversed
       /\ ledger' = [ledger EXCEPT ![i].reversed = TRUE]
  /\ UNCHANGED <<clock, snapshots, reading, candles>>

-----------------------------------------------------------------------------
\* The snapshot job

\* The quotes that may answer a valuation: a fresh one of a provider, a price
\* that is only an estimate, or none.
Quotes ==
  {[quality |-> "verified", price |-> p] : p \in Prices}
    \cup {[quality |-> "estimated", price |-> p] : p \in Estimates}
    \cup {[quality |-> "unpriced", price |-> 0]}

\* Value and contributions come from one reading of the ledger.
buildPortfolioSummary(quote) ==
  [value         |-> cashBalance(ledger) + HeldQuantity(ledger) * quote.price,
   contributions |-> netContributions(ledger),
   price         |-> IF HeldQuantity(ledger) = 0 \/ quote.quality = "unpriced" THEN None ELSE quote.price]

\* A row without a provider's fresh quote of what is held is not stored.
strictQuality(quote) == HeldQuantity(ledger) = 0 \/ quote.quality = "verified"

\* An invocation whose valuation is not strictly verified goes on to the next
\* portfolio; it leaves nothing here.
Value(c) ==
  /\ reading[c] = None
  /\ \E quote \in Quotes :
       /\ strictQuality(quote)
       /\ reading' = [reading EXCEPT ![c] = buildPortfolioSummary(quote)]
  /\ UNCHANGED <<clock, ledger, snapshots, candles>>

\* Mutant: the contributions are those of the moment of the insertion.
insertWithFreshContributions(summary) ==
  LET bucket == clock \div Bucket
  IN  IF \E i \in DOMAIN snapshots : snapshots[i].bucket = bucket
      THEN UNCHANGED snapshots
      ELSE snapshots' = Append(snapshots, [capturedAt |-> clock, bucket |-> bucket,
                                           totalValue |-> summary.value,
                                           netContributions |-> netContributions(ledger),
                                           price |-> summary.price])

\* A row whose bucket is taken is ignored.
insertPortfolioSnapshot(summary) ==
  LET bucket == clock \div Bucket
  IN  IF \E i \in DOMAIN snapshots : snapshots[i].bucket = bucket
      THEN UNCHANGED snapshots
      ELSE snapshots' = Append(snapshots, [capturedAt |-> clock, bucket |-> bucket,
                                           totalValue |-> summary.value,
                                           netContributions |-> summary.contributions,
                                           price |-> summary.price])

Store(c) ==
  /\ reading[c] # None
  /\ insertPortfolioSnapshot(reading[c])
  /\ reading' = [reading EXCEPT ![c] = None]
  /\ UNCHANGED <<clock, ledger, candles>>

\* The insertion fails.
Skip(c) ==
  /\ reading[c] # None
  /\ reading' = [reading EXCEPT ![c] = None]
  /\ UNCHANGED <<clock, ledger, snapshots, candles>>

Tick ==
  /\ clock < MaxClock
  /\ clock' = clock + 1
  /\ UNCHANGED <<ledger, snapshots, reading, candles>>

-----------------------------------------------------------------------------
\* The report

\* The newest rows, one for each instant, in the order of their instants.
listPortfolioSnapshots ==
  LET newest == SortSeq(snapshots, LAMBDA a, b : a.capturedAt > b.capturedAt)
  IN  Reverse(SubSeq(newest, 1, IF Len(newest) < Listed THEN Len(newest) ELSE Listed))

orderedSnapshots(rows) ==
  LET latest == {i \in DOMAIN rows : rows[i].totalValue >= 0
                   /\ \A j \in i + 1..Len(rows) : rows[j].capturedAt # rows[i].capturedAt}
  IN  SortSeq(SetToSeq({rows[i] : i \in latest}), LAMBDA a, b : a.capturedAt < b.capturedAt)

\* The last close at or before an instant, if the history reaches back to it.
CloseAt(at) ==
  LET known == {t \in DOMAIN candles : t <= at}
  IN  IF known = {} THEN None ELSE candles[CHOOSE t \in known : \A u \in known : u <= t]

\* The benchmark is measured from the first row that has a close.
benchmarkReturns(rows) ==
  LET priced == {i \in DOMAIN rows : CloseAt(rows[i].capturedAt) # None}
      base == CloseAt(rows[CHOOSE i \in priced : \A j \in priced : i <= j].capturedAt)
  IN  [i \in priced |-> <<CloseAt(rows[i].capturedAt), base>>]

externalFlow(rows, i) == rows[i].netContributions - rows[i - 1].netContributions

\* An interval counts when it starts above zero and its flows fit its values.
IsValid(rows, i) ==
  /\ rows[i - 1].totalValue > 0
  /\ rows[i].totalValue - externalFlow(rows, i) >= 0

\* The growth over the valid intervals up to a row, as a fraction.
linkedGrowth(rows) ==
  LET growth[i \in 1..Len(rows)] ==
        IF i = 1 THEN <<1, 1>>
        ELSE IF IsValid(rows, i)
             THEN <<growth[i - 1][1] * (rows[i].totalValue - externalFlow(rows, i)),
                    growth[i - 1][2] * rows[i - 1].totalValue>>
             ELSE growth[i - 1]
  IN  growth

Sign(n) == IF n > 0 THEN "gain" ELSE IF n < 0 THEN "loss" ELSE "even"

\* The sign of XIRR: the active deposits and withdrawals up to the last row
\* and the value of that row.
calculatePortfolioXirr(rows) ==
  LET ending == Last(rows)
      flows == SelectSeq(activePortfolioTransactions(ledger),
                         LAMBDA t : t.kind \in Flows /\ t.at <= ending.capturedAt)
      amount(t) == IF t.kind = "deposit" THEN -t.amount ELSE t.amount
      times == {flows[i].at : i \in DOMAIN flows} \cup {ending.capturedAt}
      first == CHOOSE t \in times : \A u \in times : t <= u
  IN  IF /\ \E i \in DOMAIN flows : amount(flows[i]) < 0
         /\ ending.totalValue > 0 \/ \E i \in DOMAIN flows : amount(flows[i]) > 0
         /\ ending.capturedAt - first >= Day
      THEN Sign(FoldLeft(LAMBDA sum, t : sum + amount(t), ending.totalValue, flows))
      ELSE None

Insufficient == [status |-> "insufficient-data", growth |-> <<>>,
                 benchmark |-> None, moneyWeighted |-> None, excess |-> None]

Measured(rows) ==
  LET growth == linkedGrowth(rows)
      last == growth[Len(rows)]
      returns == benchmarkReturns(rows)
      benchmark == IF Cardinality(DOMAIN returns) < 2 THEN None ELSE returns[Len(rows)]
      moneyWeighted == calculatePortfolioXirr(rows)
      valid == \E i \in 2..Len(rows) : IsValid(rows, i)
  IN  [status        |-> IF ~valid THEN "insufficient-data"
                         ELSE IF None \in {benchmark, moneyWeighted} THEN "partial" ELSE "available",
       growth        |-> growth,
       benchmark     |-> benchmark,
       moneyWeighted |-> moneyWeighted,
       excess        |-> IF ~valid \/ benchmark = None THEN None
                         ELSE Sign(last[1] * benchmark[2] - benchmark[1] * last[2])]

computePortfolioPerformance ==
  LET rows == orderedSnapshots(listPortfolioSnapshots)
  IN  IF Len(rows) < 2 THEN Insufficient ELSE Measured(rows)

-----------------------------------------------------------------------------

ReturnsInit ==
  /\ clock = 0
  /\ ledger = <<>>
  /\ snapshots = <<>>
  /\ reading = [c \in Captures |-> None]
  /\ candles \in Histories

ReturnsNext ==
  \/ AppendFlow
  \/ AppendTrade
  \/ ReverseTransaction
  \/ \E c \in Captures : Value(c)
  \/ \E c \in Captures : Store(c)
  \/ \E c \in Captures : Skip(c)
  \/ Tick

ReturnsSpec == ReturnsInit /\ [][ReturnsNext]_returnsVars

-----------------------------------------------------------------------------

\* Every price the portfolio has met, in trades and in stored valuations.
PricesMet ==
  {ledger[i].amount : i \in {j \in DOMAIN ledger : ledger[j].kind \notin Flows}}
    \cup ({snapshots[i].price : i \in DOMAIN snapshots} \ {None})

\* The last row holds every deposit and withdrawal there is.
NothingSinceTheLastSnapshot(rows) ==
  /\ Last(rows).netContributions = netContributions(ledger)
  /\ \A i \in DOMAIN ledger : ledger[i].at <= Last(rows).capturedAt

\* Where prices stand still there is no return, however deposits, withdrawals,
\* trades, reversals and two overlapping invocations of the snapshot job fall
\* between each other: the linked growth is one at every row, the excess is
\* what the benchmark lost or gained, and XIRR is zero once the last row holds
\* all contributions (performance.ts 85-138 and 205-229, insertPortfolioSnapshot
\* and the strict quality of snapshot-portfolios.ts).
NoReturnFromStandingPrices ==
  LET report == computePortfolioPerformance
      rows == orderedSnapshots(listPortfolioSnapshots)
  IN  Cardinality(PricesMet) <= 1 =>
        /\ \A i \in DOMAIN report.growth : report.growth[i][1] = report.growth[i][2]
        /\ report.excess # None =>
             report.excess = Sign(report.benchmark[2] - report.benchmark[1])
        /\ report.moneyWeighted # None /\ NothingSinceTheLastSnapshot(rows) =>
             report.moneyWeighted = "even"
=============================================================================
