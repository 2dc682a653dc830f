-------------------------- MODULE PortfolioLedger --------------------------
(***************************************************************************)
(* The append-only transaction ledger of ONE portfolio: the database       *)
(* functions append_portfolio_transaction and                              *)
(* reverse_latest_portfolio_transaction, the batch of appends that         *)
(* completing an approved plan performs, and the paged read from which the *)
(* server reconstructs cash and positions.                                 *)
(*                                                                         *)
(* A database function is one transaction.  It is split in two steps here: *)
(* Begin*, when the transaction starts and now() is frozen, and Commit*,   *)
(* when the row locks are held and everything the function does takes      *)
(* effect at once.  Between the two the transaction may wait for a lock,   *)
(* so transactions can commit in another order than they started.          *)
(***************************************************************************)
EXTENDS Integers, Sequences, FiniteSets, FiniteSetsExt, SequencesExt

CONSTANTS
  Procs,        \* server invocations that may have a ledger call in flight
  Keys,         \* idempotency keys of the user's own requests
  Entries,      \* economic content of a row: [kind, symbol, qty, cash]
  Batches,      \* run -> the entries its fills append, in fill order
  TradeTimes,   \* trade_at values a request may carry
  FutureSlack,  \* how far trade_at may lie after now() (5 minutes)
  Readers,      \* reconstructions in progress
  PageSize,     \* PORTFOLIO_LEDGER_PAGE_SIZE
  MaxClock,     \* bound: transactions that ever start
  MaxRows       \* bound: rows of the ledger

Kinds == {"deposit", "withdrawal", "buy", "sell", "dividend", "fee"}
Runs  == DOMAIN Batches

ASSUME LedgerAssumption ==
  /\ TradeTimes \subseteq Nat
  /\ FutureSlack \in Nat /\ MaxClock \in Nat /\ MaxRows \in Nat
  /\ PageSize \in Nat \ {0}
  /\ Entries \subseteq [kind : Kinds, symbol : STRING, qty : Nat, cash : Int]
  /\ \A run \in Runs : Batches[run] \in Seq(Entries)
  \* A run has one item of a symbol (unique(run_id, symbol)), or items that all buy.
  /\ \A run \in Runs : \A m, n \in DOMAIN Batches[run] :
       Batches[run][m].kind = "sell" /\ Batches[run][m].symbol = Batches[run][n].symbol => m = n

VARIABLES
  clock,     \* last now() handed out; each transaction start has its own
  ledger,    \* the rows, in commit order
  status,    \* portfolios.status
  version,   \* portfolios.updated_at
  inflight,  \* Procs -> the call it is executing, or Idle
  answers,   \* (key, row) pairs returned to callers
  readers    \* Readers -> what it has read: portfolio row, count, pages

vars == <<clock, ledger, status, version, inflight, answers, readers>>

Idle  == [op |-> "idle"]
NoRow == -1

NoReader == [phase |-> "idle", version |-> 0, total |-> 0, rows |-> <<>>]

-----------------------------------------------------------------------------
(* Rows and what they add up to.                                            *)

IsActiveUnlessReversal(rows, i) ==  \* mutant: ignores that i was reversed
  rows[i].kind # "reversal"

\* A row that is neither a reversal nor reversed, by its place in rows.
IsActive(rows, i) ==
  /\ rows[i].kind # "reversal"
  /\ \A j \in DOMAIN rows : rows[j].reversalOf # rows[i].id

ActiveIn(rows) == {i \in DOMAIN rows : IsActive(rows, i)}

CashEffect(row) ==
  CASE row.kind \in {"deposit", "dividend", "sell"}   -> row.cash
    [] row.kind \in {"withdrawal", "fee", "buy"}      -> -row.cash
    [] OTHER                                          -> 0

QuantityEffect(row, symbol) ==
  CASE row.kind = "buy"  /\ row.symbol = symbol -> row.qty
    [] row.kind = "sell" /\ row.symbol = symbol -> -row.qty
    [] OTHER                                    -> 0

CashOver(rows, indices) ==
  SumFunctionOnSet([i \in DOMAIN rows |-> CashEffect(rows[i])], indices)

QuantityOver(rows, indices, symbol) ==
  SumFunctionOnSet([i \in DOMAIN rows |-> QuantityEffect(rows[i], symbol)], indices)

CurrentCash(rows)             == CashOver(rows, ActiveIn(rows))
CurrentQuantity(rows, symbol) == QuantityOver(rows, ActiveIn(rows), symbol)

\* (trade_at, created_at, id): the order of replay, of reversal and of pages.
Precedes(r, s) ==
  \/ r.tradeAt < s.tradeAt
  \/ r.tradeAt = s.tradeAt /\ r.createdAt < s.createdAt
  \/ r.tradeAt = s.tradeAt /\ r.createdAt = s.createdAt /\ r.id < s.id

\* The n-th row in that order is the one that n - 1 rows precede.
Sorted(rows) ==
  [n \in DOMAIN rows |->
     rows[CHOOSE i \in DOMAIN rows :
            Cardinality({j \in DOMAIN rows : Precedes(rows[j], rows[i])}) = n - 1]]

-----------------------------------------------------------------------------
(* What one append requires of the rows already there.                      *)

AcceptsOutOfOrder(rows, start, new) ==  \* mutant: no check against later rows
  /\ new.tradeAt <= start + FutureSlack
  /\ new.kind \in {"buy", "withdrawal", "fee"} => CurrentCash(rows) >= new.cash
  /\ new.kind = "sell" => CurrentQuantity(rows, new.symbol) >= new.qty

Accepts(rows, start, new) ==
  /\ new.tradeAt <= start + FutureSlack
  /\ \A i \in ActiveIn(rows) : rows[i].tradeAt <= new.tradeAt
  /\ new.kind \in {"buy", "withdrawal", "fee"} => CurrentCash(rows) >= new.cash
  /\ new.kind = "sell" => CurrentQuantity(rows, new.symbol) >= new.qty

Row(entry, at, start, id, key) ==
  [kind |-> entry.kind, symbol |-> entry.symbol, qty |-> entry.qty,
   cash |-> entry.cash, tradeAt |-> at, createdAt |-> start, id |-> id,
   key |-> key, reversalOf |-> NoRow]

MisfiledReversalRow(target, start, id, key) ==  \* mutant: columns swapped
  [kind |-> "reversal", symbol |-> "none", qty |-> 0, cash |-> 0,
   tradeAt |-> start, createdAt |-> start, id |-> id,
   key |-> target, reversalOf |-> key]

ReversalRow(target, start, id, key) ==
  [kind |-> "reversal", symbol |-> "none", qty |-> 0, cash |-> 0,
   tradeAt |-> start, createdAt |-> start, id |-> id,
   key |-> key, reversalOf |-> target]

\* Row identifiers are random.  Their order can only matter between rows with
\* equal created_at, and those are the rows of one transaction: it takes the
\* next identifiers, in any order.
NextIds(count) ==
  {ids \in [1..count -> Len(ledger) + 1..Len(ledger) + count] : IsInjective(ids)}

AppendedWithKey(key) ==  \* mutant: reversals do not use up their key
  {i \in DOMAIN ledger : ledger[i].key = key /\ ledger[i].kind # "reversal"}

RowsWithKey(key) == {i \in DOMAIN ledger : ledger[i].key = key}

\* 'p7:<run>:<item>' and 'p8:<run>:<item>', reserved for completions.
DerivedKey(run, n) == <<run, n>>

AllKeys == Keys \cup (Runs \X Nat)

-----------------------------------------------------------------------------
Init ==
  /\ clock = 0
  /\ ledger = <<>>
  /\ status = "active"
  /\ version = 0
  /\ inflight = [p \in Procs |-> Idle]
  /\ answers = {}
  /\ readers = [r \in Readers |-> NoReader]

Begin(p, call) ==
  /\ inflight[p] = Idle
  /\ clock < MaxClock
  /\ clock' = clock + 1
  /\ inflight' = [inflight EXCEPT ![p] = call]
  /\ UNCHANGED <<ledger, status, version, answers, readers>>

\* POST /portfolio/transactions {action: 'append'}
BeginAppend(p) ==
  \E key \in Keys, entry \in Entries, at \in TradeTimes :
    Begin(p, [op |-> "append", key |-> key, entry |-> entry, at |-> at,
              start |-> clock + 1])

\* POST /portfolio/transactions {action: 'reverse'}: any row the client lists.
BeginReverse(p) ==
  \E key \in Keys, i \in DOMAIN ledger :
    Begin(p, [op |-> "reverse", key |-> key, target |-> ledger[i].id,
              start |-> clock + 1])

\* POST /portfolio/rebalances or /contributions {action: 'complete'}.
BeginComplete(p) ==
  \E run \in Runs :
    \E at \in [DOMAIN Batches[run] -> TradeTimes] :
      Begin(p, [op |-> "complete", run |-> run, at |-> at, start |-> clock + 1])

Return(p, replies) ==
  /\ inflight' = [inflight EXCEPT ![p] = Idle]
  /\ answers' = answers \cup replies

\* The key was used before, by whatever call: its row is the answer again.
CommitReplay(p) ==
  /\ inflight[p].op \in {"append", "reverse"}
  /\ \E i \in RowsWithKey(inflight[p].key) :
       Return(p, {[key |-> inflight[p].key, row |-> ledger[i].id]})
  /\ UNCHANGED <<clock, ledger, status, version, readers>>

CommitAppend(p) ==
  LET call == inflight[p] IN
  /\ call.op = "append"
  /\ RowsWithKey(call.key) = {}
  /\ status = "active"
  /\ Len(ledger) < MaxRows
  /\ LET new == Row(call.entry, call.at, call.start, Len(ledger) + 1, call.key) IN
       /\ Accepts(ledger, call.start, new)
       /\ ledger' = Append(ledger, new)
       /\ Return(p, {[key |-> call.key, row |-> new.id]})
  /\ version' = call.start
  /\ UNCHANGED <<clock, status, readers>>

AnyActive(i) == IsActive(ledger, i)  \* mutant: not only the latest

LatestByTradeTime(i) ==  \* mutant: ties on trade_at left open
  /\ IsActive(ledger, i)
  /\ \A j \in ActiveIn(ledger) : ledger[i].tradeAt >= ledger[j].tradeAt

\* Only the last active row, in the order of Precedes, can be reversed.
IsLatestActive(i) ==
  /\ IsActive(ledger, i)
  /\ \A j \in ActiveIn(ledger) : ~ Precedes(ledger[i], ledger[j])

CommitReverse(p) ==
  LET call == inflight[p] IN
  /\ call.op = "reverse"
  /\ RowsWithKey(call.key) = {}
  /\ status = "active"
  /\ Len(ledger) < MaxRows
  /\ \E i \in DOMAIN ledger : ledger[i].id = call.target /\ IsLatestActive(i)
  /\ LET new == ReversalRow(call.target, call.start, Len(ledger) + 1, call.key) IN
       /\ ledger' = Append(ledger, new)
       /\ Return(p, {[key |-> call.key, row |-> new.id]})
  /\ version' = call.start
  /\ UNCHANGED <<clock, status, readers>>

\* All fills of an approved plan, or none: each passes the append's own checks
\* against the rows the batch has already inserted.  A run completes once.
CommitComplete(p) ==
  LET call  == inflight[p]
      fills == Batches[call.run] IN
  /\ call.op = "complete"
  /\ \A n \in DOMAIN fills : RowsWithKey(DerivedKey(call.run, n)) = {}
  /\ status = "active"
  /\ Len(ledger) + Len(fills) <= MaxRows
  /\ \E ids \in NextIds(Len(fills)) :
       LET new  == [n \in DOMAIN fills |->
                      Row(fills[n], call.at[n], call.start, ids[n],
                          DerivedKey(call.run, n))] IN
       /\ \A n \in DOMAIN fills :
            Accepts(ledger \o SubSeq(new, 1, n - 1), call.start, new[n])
       /\ ledger' = ledger \o new
       /\ Return(p, {[key |-> DerivedKey(call.run, n), row |-> ids[n]] : n \in DOMAIN fills})
  /\ version' = call.start
  /\ UNCHANGED <<clock, status, readers>>

\* The function raises, or the connection is lost before it commits: nothing
\* of the call remains and the client may send it again.
Abort(p) ==
  /\ inflight[p] # Idle
  /\ Return(p, {})
  /\ UNCHANGED <<clock, ledger, status, version, readers>>

\* PATCH /portfolio/portfolios {status}: the update trigger restamps the row.
SetStatus ==
  /\ clock < MaxClock
  /\ clock' = clock + 1
  /\ status' \in {"active", "archived"} \ {status}
  /\ version' = clock + 1
  /\ UNCHANGED <<ledger, inflight, answers, readers>>

-----------------------------------------------------------------------------
(* buildPortfolioSummary: the portfolio row, then the count, then pages of  *)
(* the sorted rows, each a query of its own.                                *)

ReadPortfolio(r) ==
  /\ readers[r].phase \in {"idle", "done"}
  /\ readers' = [readers EXCEPT ![r] =
                   [phase |-> "count", version |-> version, total |-> 0, rows |-> <<>>]]
  /\ UNCHANGED <<clock, ledger, status, version, inflight, answers>>

ReadCount(r) ==
  /\ readers[r].phase = "count"
  /\ readers' = [readers EXCEPT ![r] =
                   [phase |-> IF ledger = <<>> THEN "done" ELSE "pages",
                    version |-> readers[r].version, total |-> Len(ledger), rows |-> <<>>]]
  /\ UNCHANGED <<clock, ledger, status, version, inflight, answers>>

PortfolioReadLast(r) ==  \* mutant: updated_at is taken after the rows
  /\ readers[r].phase = "pages"
  /\ LET offset == Len(readers[r].rows)
         end    == Min({readers[r].total, offset + PageSize})
         page   == SubSeq(Sorted(ledger), offset + 1, end) IN
     readers' = [readers EXCEPT ![r].rows = @ \o page,
                                ![r].version = version,
                                ![r].phase = IF end = readers[r].total THEN "done" ELSE @]
  /\ UNCHANGED <<clock, ledger, status, version, inflight, answers>>

\* A page shorter than asked for is refused ("ledger changed during
\* reconstruction").  Rows are never deleted, so no page comes out short.
ReadPage(r) ==
  /\ readers[r].phase = "pages"
  /\ LET reader == readers[r]
         offset == Len(reader.rows)
         end    == Min({reader.total, offset + PageSize})
         page   == SubSeq(Sorted(ledger), offset + 1, end) IN
     readers' = [readers EXCEPT ![r] =
                   IF Len(page) # end - offset
                   THEN NoReader
                   ELSE [phase |-> IF end = reader.total THEN "done" ELSE "pages",
                         version |-> reader.version, total |-> reader.total,
                         rows |-> reader.rows \o page]]
  /\ UNCHANGED <<clock, ledger, status, version, inflight, answers>>

-----------------------------------------------------------------------------
Next ==
  \/ \E p \in Procs :
       \/ BeginAppend(p) \/ BeginReverse(p) \/ BeginComplete(p)
       \/ CommitReplay(p) \/ CommitAppend(p) \/ CommitReverse(p)
       \/ CommitComplete(p) \/ Abort(p)
  \/ SetStatus
  \/ \E r \in Readers : ReadPortfolio(r) \/ ReadCount(r) \/ ReadPage(r)

Spec == Init /\ [][Next]_vars

-----------------------------------------------------------------------------
(* Properties.                                                              *)

Symbols == {entry.symbol : entry \in Entries} \cup {"none"}

RowType ==
  [kind : Kinds \cup {"reversal"}, symbol : Symbols, qty : Nat, cash : Int,
   tradeAt : Nat, createdAt : Nat, id : Nat, key : AllKeys,
   reversalOf : Nat \cup {NoRow}]

AppendCall   == [op : {"append"}, key : Keys, entry : Entries, at : TradeTimes, start : Nat]
ReverseCall  == [op : {"reverse"}, key : Keys, target : Nat, start : Nat]
CompleteCall ==
  UNION {[op : {"complete"}, run : {run}, at : [DOMAIN Batches[run] -> TradeTimes],
          start : Nat] : run \in Runs}

LedgerTypeOK ==
  /\ clock \in Nat
  /\ ledger \in Seq(RowType)
  /\ status \in {"active", "archived"}
  /\ version \in Nat
  /\ inflight \in [Procs -> {Idle} \cup AppendCall \cup ReverseCall \cup CompleteCall]
  /\ answers \subseteq [key : AllKeys, row : Nat]

\* Every variable has its type.
TypeOK ==
  /\ LedgerTypeOK
  /\ readers \in [Readers -> [phase : {"idle", "count", "pages", "done"},
                               version : Nat, total : Nat, rows : Seq(RowType)]]

\* However calls interleave, the active rows carry trade times in the order
\* in which they were committed: the check of append_portfolio_transaction
\* against later active rows is made under the portfolio's row lock.
TradeOrderFollowsCommitOrder ==
  \A i, j \in ActiveIn(ledger) : i < j => ledger[i].tradeAt <= ledger[j].tradeAt

\* A key names one row for ever: concurrent retries, and a key reused for a
\* call of another kind, are answered with that row and add none.
OneAnswerPerKey ==
  /\ \A a, b \in answers : a.key = b.key => a.row = b.row
  /\ \A i, j \in DOMAIN ledger : ledger[i].key = ledger[j].key => i = j

\* No row is reversed twice, and no reversal is itself reversed.
ReversedOnce ==
  \A i, j \in DOMAIN ledger :
    ledger[i].kind = "reversal" /\ ledger[i].reversalOf = ledger[j].id
      => /\ ledger[j].kind # "reversal"
         /\ \A k \in DOMAIN ledger : ledger[k].reversalOf = ledger[j].id => k = i

\* A reconstruction whose portfolio row is still the current one when it is
\* used has seen exactly the rows of that version.  The plan functions reject
\* a summary by comparing that updated_at, so this is what keeps a plan from
\* being frozen on a ledger that never existed.
FreshReadIsExact ==
  \A r \in Readers :
    readers[r].phase = "done" /\ readers[r].version = version
      => readers[r].rows = Sorted(ledger)

\* The rows a sell may consume in replay order: it and everything before it.
UpTo(rows, i) == {j \in ActiveIn(rows) : j = i \/ Precedes(rows[j], rows[i])}

\* Transactions committed in the order they started in.
NoneOvertaken ==
  \A i, j \in DOMAIN ledger : i < j => ledger[i].createdAt <= ledger[j].createdAt

\* The same, and none of them wrote two rows, as the completion of a plan does.
RowsStartedInOrder ==
  \A i, j \in DOMAIN ledger : i < j => ledger[i].createdAt < ledger[j].createdAt

\* Unless a call overtook another, replaying the active rows in their order never
\* sells shares it has not bought: buildPortfolioLedger does not throw on a ledger
\* the database functions accepted.
ReconstructionAgrees ==
  NoneOvertaken =>
    \A i \in ActiveIn(ledger) :
      ledger[i].kind = "sell"
        => QuantityOver(ledger, UpTo(ledger, i), ledger[i].symbol) >= 0

\* Appends and reversals of any number of calls together never leave a negative
\* position, nor a negative balance if no sell cost more than it brought, unless a
\* call overtook another or took back one fill of a completed plan before the other.
NothingNegative ==
  RowsStartedInOrder =>
    /\ (\A i \in DOMAIN ledger : ledger[i].cash >= 0) => CurrentCash(ledger) >= 0
    /\ \A i \in DOMAIN ledger : CurrentQuantity(ledger, ledger[i].symbol) >= 0

\* A summary that is read is that of a ledger there was, sums up like it, and is never negative.
LedgerIsSound == ReconstructionAgrees /\ FreshReadIsExact /\ NothingNegative

\* Under the same condition a reversal takes back the active row that was
\* committed last.
ReversalsPeelTheEnd ==
  [][RowsStartedInOrder =>
       \A i \in ActiveIn(ledger) :
         i \notin ActiveIn(ledger') => \A j \in ActiveIn(ledger) : j <= i]_vars

\* Every row a finished read returned was there at one moment: the rows it
\* leaves out were committed after all those it returns.
ReadIsAPastLedger ==
  \A r \in Readers :
    readers[r].phase = "done"
      => \E n \in 0..Len(ledger) : readers[r].rows = Sorted(SubSeq(ledger, 1, n))

=============================================================================
