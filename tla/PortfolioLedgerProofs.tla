----------------------- MODULE PortfolioLedgerProofs -----------------------
(***************************************************************************)
(* What holds of the ledger for every number of invocations, keys, entries *)
(* and readers, however their transactions overlap.                        *)
(*                                                                         *)
(* Every step leaves the ledger alone or extends it; a row is added either *)
(* as a reversal of an active row or after Accepts has compared it with    *)
(* the active rows before it.  The argument is the same for the three      *)
(* committing calls, so it is made once, about a ledger extended by a      *)
(* sequence of rows.  Sums of cash and shares are folds over finite sets:  *)
(* what is said of them rests on there being a smallest exception.  The    *)
(* dates of the portfolio's goal, which meet the ledger in no variable,    *)
(* the alerts only browsers know and the quotes of providers have their    *)
(* theorems at the end.                                                    *)
(***************************************************************************)
EXTENDS PortfolioLedger, GoalSchedule, LocalAlerts, MarketQuotes,
        FiniteSetTheorems, SequenceTheorems, TLAPS

-----------------------------------------------------------------------------
(* Facts about extending a sequence of rows.                                *)

LEMMA PrefixOfConcat ==
  ASSUME NEW S, NEW s \in Seq(S), NEW t \in Seq(S)
  PROVE  /\ s \o t \in Seq(S)
         /\ Len(s \o t) = Len(s) + Len(t)
         /\ \A i \in DOMAIN s : i \in DOMAIN (s \o t) /\ (s \o t)[i] = s[i]
         /\ \A n \in DOMAIN t : Len(s) + n \in DOMAIN (s \o t)
                                /\ (s \o t)[Len(s) + n] = t[n]
         /\ \A i \in DOMAIN (s \o t) :
              i \in DOMAIN s \/ \E n \in DOMAIN t : i = Len(s) + n
<1>1. s \o t \in Seq(S) /\ Len(s \o t) = Len(s) + Len(t)
  OBVIOUS
<1>2. DOMAIN s = 1..Len(s) /\ DOMAIN t = 1..Len(t)
      /\ DOMAIN (s \o t) = 1..(Len(s) + Len(t)) /\ Len(s) \in Nat /\ Len(t) \in Nat
  OBVIOUS
<1>3. \A i \in DOMAIN s : i \in DOMAIN (s \o t) /\ (s \o t)[i] = s[i]
  OBVIOUS
<1>4. \A n \in DOMAIN t : Len(s) + n \in DOMAIN (s \o t)
                          /\ (s \o t)[Len(s) + n] = t[n]
  OBVIOUS
<1>5. ASSUME NEW i \in DOMAIN (s \o t), i \notin DOMAIN s
      PROVE  \E n \in DOMAIN t : i = Len(s) + n
  <2>1. i - Len(s) \in DOMAIN t
    BY <1>2, <1>5
  <2>2. i = Len(s) + (i - Len(s))
    BY <1>2
  <2> QED BY <2>1, <2>2
<1> QED BY <1>1, <1>3, <1>4, <1>5

\* Rows added later can only take a row out of the active ones.
LEMMA ActiveShrinks ==
  ASSUME NEW short, NEW long, DOMAIN short \subseteq DOMAIN long,
         \A k \in DOMAIN short : long[k] = short[k],
         NEW i \in DOMAIN short, i \in ActiveIn(long)
  PROVE  i \in ActiveIn(short)
BY DEF ActiveIn, IsActive

\* A batch whose rows are reversals, or accepted after those before them, keeps
\* the trade times of the active rows in commit order.
LEMMA OrderKept ==
  ASSUME NEW S, NEW old \in Seq(S), NEW new \in Seq(S),
         \A i, j \in ActiveIn(old) : i < j => old[i].tradeAt <= old[j].tradeAt,
         \A n \in DOMAIN new :
           \/ new[n].kind = "reversal"
           \/ \A i \in ActiveIn(old \o SubSeq(new, 1, n - 1)) :
                (old \o SubSeq(new, 1, n - 1))[i].tradeAt <= new[n].tradeAt
  PROVE  \A i, j \in ActiveIn(old \o new) :
           i < j => (old \o new)[i].tradeAt <= (old \o new)[j].tradeAt
<1> DEFINE all == old \o new
<1> SUFFICES ASSUME NEW i \in ActiveIn(all), NEW j \in ActiveIn(all), i < j
             PROVE  all[i].tradeAt <= all[j].tradeAt
  OBVIOUS
<1>1. /\ i \in DOMAIN all /\ j \in DOMAIN all
      /\ all[j].kind # "reversal"
  BY DEF ActiveIn, IsActive
<1>2. /\ \A k \in DOMAIN old : k \in DOMAIN all /\ all[k] = old[k]
      /\ DOMAIN old = 1..Len(old) /\ DOMAIN all = 1..(Len(old) + Len(new))
      /\ Len(old) \in Nat /\ Len(new) \in Nat
  OBVIOUS
<1>3. CASE j \in DOMAIN old
  <2>1. i \in DOMAIN old
    BY <1>1, <1>2, <1>3
  <2>2. i \in ActiveIn(old) /\ j \in ActiveIn(old)
    BY <1>2, <1>3, <2>1, ActiveShrinks
  <2> QED BY <1>2, <1>3, <2>1, <2>2
<1>4. CASE j \notin DOMAIN old
  <2> DEFINE n   == j - Len(old)
             pre == SubSeq(new, 1, n - 1)
             before == old \o pre
  <2>1. n \in 1..Len(new) /\ j = Len(old) + n /\ n \in DOMAIN new /\ all[j] = new[n]
    BY <1>1, <1>2, <1>4
  <2>2. pre \in Seq(S) /\ Len(pre) = n - 1 /\ \A k \in 1..(n - 1) : pre[k] = new[k]
    BY <2>1
  <2>3. /\ DOMAIN before = 1..(j - 1)
        /\ \A k \in DOMAIN before : k \in DOMAIN all /\ all[k] = before[k]
    <3> HIDE DEF n, pre
    <3>0. n \in Nat /\ j \in Nat /\ j - 1 = Len(old) + (n - 1)
      BY <1>2, <2>1
    <3>1. Len(before) = j - 1 /\ DOMAIN before = 1..(j - 1)
      <4>1. Len(before) = Len(old) + Len(pre) /\ before \in Seq(S)
        BY <2>2, PrefixOfConcat
      <4> QED BY <2>2, <3>0, <4>1
    <3>2. ASSUME NEW k \in 1..(j - 1) PROVE k \in DOMAIN all /\ all[k] = before[k]
      <4>1. CASE k <= Len(old)
        BY <1>2, <2>1, <2>2, <3>1, <4>1
      <4>2. CASE k > Len(old)
        <5>1. k - Len(old) \in 1..(n - 1)
          BY <1>2, <2>1, <4>2
        <5> DEFINE m == k - Len(old)
        <5>2. k = Len(old) + m /\ m \in DOMAIN pre /\ m \in DOMAIN new
          BY <1>2, <2>1, <2>2, <5>1
        <5>3. before[Len(old) + m] = pre[m]
          <6> HIDE DEF m
          <6> QED BY <2>2, <5>2, PrefixOfConcat
        <5>4. all[Len(old) + m] = new[m]
          <6> HIDE DEF m
          <6> QED BY <5>2, PrefixOfConcat
        <5> QED BY <1>1, <1>2, <2>1, <2>2, <5>1, <5>2, <5>3, <5>4
      <4>3. k <= Len(old) \/ k > Len(old)
        BY <1>2, <3>0
      <4> HIDE DEF all, before
      <4> QED BY <4>1, <4>2, <4>3
    <3> QED BY <3>1, <3>2
  <2>4. i \in DOMAIN before
    BY <1>1, <1>2, <2>3
  <2>5. i \in ActiveIn(before)
    BY <2>3, <2>4, ActiveShrinks
  <2>6. before[i].tradeAt <= new[n].tradeAt
    BY <1>1, <2>1, <2>5
  <2> QED BY <2>1, <2>3, <2>4, <2>6
<1> QED BY <1>3, <1>4

-----------------------------------------------------------------------------
(* Types.                                                                   *)

LEMMA CallTypes ==
  ASSUME LedgerTypeOK, NEW p \in Procs
  PROVE  /\ inflight[p].op = "append"   => inflight[p] \in AppendCall
         /\ inflight[p].op = "reverse"  => inflight[p] \in ReverseCall
         /\ inflight[p].op = "complete" => inflight[p] \in CompleteCall
<1>1. inflight[p] \in {Idle} \cup AppendCall \cup ReverseCall \cup CompleteCall
  BY DEF LedgerTypeOK
<1>2. Idle.op = "idle"
  BY DEF Idle
<1>3. \A c \in AppendCall : c.op = "append"
  BY DEF AppendCall
<1>4. \A c \in ReverseCall : c.op = "reverse"
  BY DEF ReverseCall
<1>5. \A c \in CompleteCall : c.op = "complete"
  BY DEF CompleteCall
<1> QED BY <1>1, <1>2, <1>3, <1>4, <1>5

LEMMA RowTypes ==
  /\ \A entry \in Entries, at \in Nat, start \in Nat, id \in Nat, key \in AllKeys :
       /\ Row(entry, at, start, id, key) \in RowType
       /\ Row(entry, at, start, id, key).kind # "reversal"
  /\ \A target \in Nat, start \in Nat, id \in Nat, key \in AllKeys :
       ReversalRow(target, start, id, key) \in RowType
<1>1. \A entry \in Entries : entry \in [kind : Kinds, symbol : STRING, qty : Nat, cash : Int]
  BY LedgerAssumption
<1>2. \A entry \in Entries : entry.kind # "reversal"
  BY <1>1 DEF Kinds
<1>3. ASSUME NEW entry \in Entries, NEW at \in Nat, NEW start \in Nat,
             NEW id \in Nat, NEW key \in AllKeys
      PROVE  Row(entry, at, start, id, key) \in RowType
  <2>1. entry.kind \in Kinds /\ entry.symbol \in Symbols /\ entry.qty \in Nat /\ entry.cash \in Int
    BY <1>1 DEF Symbols
  <2> QED BY <2>1, <1>3 DEF Row, RowType
<1>4. ASSUME NEW target \in Nat, NEW start \in Nat, NEW id \in Nat, NEW key \in AllKeys
      PROVE  ReversalRow(target, start, id, key) \in RowType
  BY <1>4 DEF ReversalRow, RowType, Symbols
<1> QED BY <1>2, <1>3, <1>4 DEF Row

\* The rows of a completion, before they are appended.
LEMMA BatchTypes ==
  ASSUME LedgerTypeOK, NEW p \in Procs, inflight[p].op = "complete",
         NEW ids \in NextIds(Len(Batches[inflight[p].run]))
  PROVE  LET fills == Batches[inflight[p].run]
             new   == [n \in DOMAIN fills |->
                         Row(fills[n], inflight[p].at[n], inflight[p].start, ids[n],
                             DerivedKey(inflight[p].run, n))]
         IN  /\ inflight[p].run \in Runs /\ inflight[p].start \in Nat
             /\ fills \in Seq(Entries)
             /\ \A n \in DOMAIN fills : DerivedKey(inflight[p].run, n) \in AllKeys
             /\ new \in Seq(RowType) /\ Len(new) = Len(fills)
             /\ \A n \in DOMAIN new : new[n].kind # "reversal"
             /\ DOMAIN new = DOMAIN fills
             /\ DOMAIN ids = DOMAIN fills
             /\ \A n \in DOMAIN fills : ids[n] \in Len(ledger) + 1..Len(ledger) + Len(fills)
             /\ \A n \in DOMAIN fills : ids[n] \in Nat
<1> DEFINE call  == inflight[p]
           fills == Batches[call.run]
           new   == [n \in DOMAIN fills |->
                       Row(fills[n], call.at[n], call.start, ids[n], DerivedKey(call.run, n))]
<1>1. PICK run \in Runs : call \in [op : {"complete"}, run : {run},
                                    at : [DOMAIN Batches[run] -> TradeTimes], start : Nat]
  BY CallTypes DEF CompleteCall
<1>2. call.run = run /\ call.start \in Nat /\ call.at \in [DOMAIN fills -> TradeTimes]
  BY <1>1
<1>3. fills \in Seq(Entries) /\ DOMAIN fills = 1..Len(fills) /\ Len(fills) \in Nat
  BY <1>2, LedgerAssumption
<1>4. Len(ledger) \in Nat
  BY DEF LedgerTypeOK
<1>5. ids \in [1..Len(fills) -> Len(ledger) + 1..Len(ledger) + Len(fills)]
  BY DEF NextIds
<1>6. \A n \in DOMAIN fills :
        /\ ids[n] \in Len(ledger) + 1..Len(ledger) + Len(fills)
        /\ ids[n] \in Nat
  <2> HIDE DEF fills
  <2> QED BY <1>3, <1>4, <1>5
<1>7. \A n \in DOMAIN fills : DerivedKey(call.run, n) \in AllKeys
  <2> HIDE DEF fills
  <2> QED BY <1>2, <1>3 DEF DerivedKey, AllKeys
<1>8. \A n \in DOMAIN fills : fills[n] \in Entries /\ call.at[n] \in Nat
  <2>1. TradeTimes \subseteq Nat
    BY LedgerAssumption
  <2> HIDE DEF fills, call
  <2>2. \A n \in DOMAIN fills : fills[n] \in Entries
    BY <1>3
  <2>3. \A n \in DOMAIN fills : call.at[n] \in TradeTimes
    BY <1>2
  <2> QED BY <2>1, <2>2, <2>3
<1>9. \A n \in DOMAIN fills : new[n] \in RowType /\ new[n].kind # "reversal"
  BY <1>2, <1>6, <1>7, <1>8, RowTypes
<1>10. new \in Seq(RowType) /\ Len(new) = Len(fills) /\ DOMAIN new = DOMAIN fills
  <2> HIDE DEF fills
  <2>1. new \in [1..Len(fills) -> RowType]
    BY <1>3, <1>9
  <2> HIDE DEF new
  <2> QED BY <1>3, <2>1
<1> QED BY <1>2, <1>3, <1>5, <1>6, <1>7, <1>9, <1>10

\* The state is well typed at every step: calls in flight carry the arguments
\* their route accepts, and every row has the shape of the table.
THEOREM TypeCorrect == Spec => []LedgerTypeOK
<1>1. Init => LedgerTypeOK
  <2> SUFFICES ASSUME Init PROVE LedgerTypeOK
    OBVIOUS
  <2>1. ledger \in Seq(RowType) /\ answers \subseteq [key : AllKeys, row : Nat]
    BY DEF Init
  <2> QED BY <2>1 DEF Init, LedgerTypeOK
<1>2. LedgerTypeOK /\ [Next]_vars => LedgerTypeOK'
  <2> SUFFICES ASSUME LedgerTypeOK, [Next]_vars PROVE LedgerTypeOK'
    OBVIOUS
  <2> USE DEF LedgerTypeOK
  <2>0. Len(ledger) \in Nat /\ Len(ledger) + 1 \in Nat /\ clock + 1 \in Nat
        /\ \A i \in DOMAIN ledger : ledger[i] \in RowType
    OBVIOUS
  <2>1. ASSUME NEW p \in Procs, BeginAppend(p) PROVE LedgerTypeOK'
    <3>1. PICK key \in Keys, entry \in Entries, at \in TradeTimes :
            Begin(p, [op |-> "append", key |-> key, entry |-> entry, at |-> at,
                      start |-> clock + 1])
      BY <2>1 DEF BeginAppend
    <3>2. [op |-> "append", key |-> key, entry |-> entry, at |-> at,
           start |-> clock + 1] \in AppendCall
      BY <2>0 DEF AppendCall
    <3> QED BY <2>0, <3>1, <3>2 DEF Begin
  <2>2. ASSUME NEW p \in Procs, BeginReverse(p) PROVE LedgerTypeOK'
    <3>1. PICK key \in Keys, i \in DOMAIN ledger :
            Begin(p, [op |-> "reverse", key |-> key, target |-> ledger[i].id,
                      start |-> clock + 1])
      BY <2>2 DEF BeginReverse
    <3>2. ledger[i].id \in Nat
      BY <2>0 DEF RowType
    <3>3. [op |-> "reverse", key |-> key, target |-> ledger[i].id,
           start |-> clock + 1] \in ReverseCall
      BY <2>0, <3>2 DEF ReverseCall
    <3> QED BY <2>0, <3>1, <3>3 DEF Begin
  <2>3. ASSUME NEW p \in Procs, BeginComplete(p) PROVE LedgerTypeOK'
    <3>1. PICK run \in Runs : \E at \in [DOMAIN Batches[run] -> TradeTimes] :
            Begin(p, [op |-> "complete", run |-> run, at |-> at, start |-> clock + 1])
      BY <2>3 DEF BeginComplete
    <3>2. PICK at \in [DOMAIN Batches[run] -> TradeTimes] :
            Begin(p, [op |-> "complete", run |-> run, at |-> at, start |-> clock + 1])
      BY <3>1
    <3>3. [op |-> "complete", run |-> run, at |-> at, start |-> clock + 1] \in CompleteCall
      BY <2>0 DEF CompleteCall
    <3> QED BY <2>0, <3>2, <3>3 DEF Begin
  <2>4. ASSUME NEW p \in Procs, CommitReplay(p) PROVE LedgerTypeOK'
    <3>1. PICK i \in RowsWithKey(inflight[p].key) :
            Return(p, {[key |-> inflight[p].key, row |-> ledger[i].id]})
      BY <2>4 DEF CommitReplay
    <3>2. [key |-> inflight[p].key, row |-> ledger[i].id] \in [key : AllKeys, row : Nat]
      BY <2>0, <3>1 DEF RowsWithKey, RowType
    <3> QED BY <2>4, <3>1, <3>2 DEF CommitReplay, Return
  <2>5. ASSUME NEW p \in Procs, CommitAppend(p) PROVE LedgerTypeOK'
    <3> DEFINE call == inflight[p]
               new  == Row(call.entry, call.at, call.start, Len(ledger) + 1, call.key)
    <3>1. /\ ledger' = Append(ledger, new)
          /\ Return(p, {[key |-> call.key, row |-> new.id]})
          /\ version' = call.start /\ UNCHANGED <<clock, status, readers>>
          /\ call.op = "append"
      BY <2>5 DEF CommitAppend
    <3>2. call \in AppendCall
      BY <3>1, CallTypes
    <3>3. call.key \in Keys /\ call.entry \in Entries /\ call.at \in Nat /\ call.start \in Nat
      BY <3>2, LedgerAssumption DEF AppendCall
    <3>4. new \in RowType /\ call.key \in AllKeys
      BY <2>0, <3>3, RowTypes DEF AllKeys
    <3>5. new.id \in Nat
      BY <3>4 DEF RowType
    <3> HIDE DEF new, call
    <3> QED BY <3>1, <3>3, <3>4, <3>5 DEF Return
  <2>6. ASSUME NEW p \in Procs, CommitReverse(p) PROVE LedgerTypeOK'
    <3> DEFINE call == inflight[p]
               new  == ReversalRow(call.target, call.start, Len(ledger) + 1, call.key)
    <3>1. /\ ledger' = Append(ledger, new)
          /\ Return(p, {[key |-> call.key, row |-> new.id]})
          /\ version' = call.start /\ UNCHANGED <<clock, status, readers>>
          /\ call.op = "reverse"
      BY <2>6 DEF CommitReverse
    <3>2. call \in ReverseCall
      BY <3>1, CallTypes
    <3>3. call.key \in Keys /\ call.target \in Nat /\ call.start \in Nat
      BY <3>2 DEF ReverseCall
    <3>4. new \in RowType /\ call.key \in AllKeys
      BY <2>0, <3>3, RowTypes DEF AllKeys
    <3>5. new.id \in Nat
      BY <3>4 DEF RowType
    <3> HIDE DEF new, call
    <3> QED BY <3>1, <3>3, <3>4, <3>5 DEF Return
  <2>7. ASSUME NEW p \in Procs, CommitComplete(p) PROVE LedgerTypeOK'
    <3> DEFINE call  == inflight[p]
               fills == Batches[call.run]
    <3>1. PICK ids \in NextIds(Len(fills)) :
            LET new == [n \in DOMAIN fills |->
                          Row(fills[n], call.at[n], call.start, ids[n], DerivedKey(call.run, n))]
            IN  /\ ledger' = ledger \o new
                /\ Return(p, {[key |-> DerivedKey(call.run, n), row |-> ids[n]] :
                              n \in DOMAIN fills})
      BY <2>7 DEF CommitComplete
    <3>2. /\ version' = call.start /\ UNCHANGED <<clock, status, readers>>
          /\ call.op = "complete"
      BY <2>7 DEF CommitComplete
    <3> DEFINE new == [n \in DOMAIN fills |->
                         Row(fills[n], call.at[n], call.start, ids[n], DerivedKey(call.run, n))]
    <3>3. /\ new \in Seq(RowType) /\ call.start \in Nat
          /\ \A n \in DOMAIN fills : DerivedKey(call.run, n) \in AllKeys /\ ids[n] \in Nat
      BY <3>2, BatchTypes
    <3>4. ledger' \in Seq(RowType)
      <4>1. ledger' = ledger \o new
        BY <3>1
      <4> HIDE DEF new
      <4> QED BY <3>3, <4>1
    <3>5. answers' \subseteq [key : AllKeys, row : Nat]
          /\ inflight' = [inflight EXCEPT ![p] = Idle]
      BY <3>1, <3>3 DEF Return
    <3> HIDE DEF call
    <3> QED BY <3>2, <3>3, <3>4, <3>5
  <2>8. ASSUME NEW p \in Procs, Abort(p) PROVE LedgerTypeOK'
    BY <2>8 DEF Abort, Return
  <2>9. CASE SetStatus
    BY <2>0, <2>9 DEF SetStatus
  <2>10. ASSUME NEW r \in Readers, ReadPortfolio(r) \/ ReadCount(r) \/ ReadPage(r)
         PROVE  LedgerTypeOK'
    BY <2>10 DEF ReadPortfolio, ReadCount, ReadPage
  <2>11. CASE UNCHANGED vars
    BY <2>11 DEF vars
  <2> QED BY <2>1, <2>2, <2>3, <2>4, <2>5, <2>6, <2>7, <2>8, <2>9, <2>10, <2>11 DEF Next
<1> QED BY <1>1, <1>2, PTL DEF Spec

-----------------------------------------------------------------------------
(* Trade times follow the order of commit.                                  *)

\* TradeOrderFollowsCommitOrder is inductive on its own given the types: an
\* appended row was compared with every active row before it, and a reversal
\* only removes a row from the comparison.
THEOREM CommitOrderIsTradeOrder == Spec => []TradeOrderFollowsCommitOrder
<1> USE DEF TradeOrderFollowsCommitOrder
<1>1. Init => TradeOrderFollowsCommitOrder
  BY DEF Init, ActiveIn
<1>2. LedgerTypeOK /\ TradeOrderFollowsCommitOrder /\ [Next]_vars
        => TradeOrderFollowsCommitOrder'
  <2> SUFFICES ASSUME LedgerTypeOK, TradeOrderFollowsCommitOrder, [Next]_vars
               PROVE  TradeOrderFollowsCommitOrder'
    OBVIOUS
  <2>0. ledger \in Seq(RowType) /\ Len(ledger) \in Nat
    BY DEF LedgerTypeOK
  <2>1. ASSUME UNCHANGED ledger PROVE TradeOrderFollowsCommitOrder'
    BY <2>1 DEF ActiveIn, IsActive
  <2>2. ASSUME NEW row \in RowType, ledger' = Append(ledger, row),
               \/ row.kind = "reversal"
               \/ \A i \in ActiveIn(ledger) : ledger[i].tradeAt <= row.tradeAt
        PROVE  TradeOrderFollowsCommitOrder'
    <3>1. <<row>> \in Seq(RowType) /\ ledger' = ledger \o <<row>>
          /\ DOMAIN <<row>> = {1} /\ <<row>>[1] = row
      BY <2>0, <2>2
    <3>2. ledger \o SubSeq(<<row>>, 1, 1 - 1) = ledger
      BY <2>0, <3>1
    <3>3. \A n \in DOMAIN <<row>> :
            \/ <<row>>[n].kind = "reversal"
            \/ \A i \in ActiveIn(ledger \o SubSeq(<<row>>, 1, n - 1)) :
                 (ledger \o SubSeq(<<row>>, 1, n - 1))[i].tradeAt <= <<row>>[n].tradeAt
      BY <2>2, <3>1, <3>2
    <3>4. \A i, j \in ActiveIn(ledger \o <<row>>) :
            i < j => (ledger \o <<row>>)[i].tradeAt <= (ledger \o <<row>>)[j].tradeAt
      BY <2>0, <3>1, <3>3, OrderKept
    <3> QED BY <3>1, <3>4
  <2>3. ASSUME NEW p \in Procs, CommitAppend(p) PROVE TradeOrderFollowsCommitOrder'
    <3> DEFINE call == inflight[p]
               new  == Row(call.entry, call.at, call.start, Len(ledger) + 1, call.key)
    <3>1. Accepts(ledger, call.start, new) /\ ledger' = Append(ledger, new) /\ call.op = "append"
      BY <2>3 DEF CommitAppend
    <3>2. call \in AppendCall
      BY <3>1, CallTypes
    <3>3. new \in RowType
      <4>1. call.key \in Keys /\ call.entry \in Entries /\ call.at \in Nat /\ call.start \in Nat
        BY <3>2, LedgerAssumption DEF AppendCall
      <4>2. call.key \in AllKeys /\ Len(ledger) + 1 \in Nat
        BY <2>0, <4>1 DEF AllKeys
      <4> HIDE DEF call
      <4> QED BY <4>1, <4>2, RowTypes
    <3> QED BY <2>2, <3>1, <3>3 DEF Accepts
  <2>4. ASSUME NEW p \in Procs, CommitReverse(p) PROVE TradeOrderFollowsCommitOrder'
    <3> DEFINE call == inflight[p]
               new  == ReversalRow(call.target, call.start, Len(ledger) + 1, call.key)
    <3>1. ledger' = Append(ledger, new) /\ call.op = "reverse"
      BY <2>4 DEF CommitReverse
    <3>2. call \in ReverseCall
      BY <3>1, CallTypes
    <3>3. new \in RowType /\ new.kind = "reversal"
      <4>1. call.key \in Keys /\ call.target \in Nat /\ call.start \in Nat
        BY <3>2 DEF ReverseCall
      <4>2. new.kind = "reversal"
        BY DEF ReversalRow
      <4> QED BY <2>0, <4>1, <4>2, RowTypes DEF AllKeys
    <3> QED BY <2>2, <3>1, <3>3
  <2>5. ASSUME NEW p \in Procs, CommitComplete(p) PROVE TradeOrderFollowsCommitOrder'
    <3> DEFINE call  == inflight[p]
               fills == Batches[call.run]
    <3>1. PICK ids \in NextIds(Len(fills)) :
            LET new == [n \in DOMAIN fills |->
                          Row(fills[n], call.at[n], call.start, ids[n], DerivedKey(call.run, n))]
            IN  /\ \A n \in DOMAIN fills :
                     Accepts(ledger \o SubSeq(new, 1, n - 1), call.start, new[n])
                /\ ledger' = ledger \o new
      BY <2>5 DEF CommitComplete
    <3>2. call.op = "complete"
      BY <2>5 DEF CommitComplete
    <3> DEFINE new == [n \in DOMAIN fills |->
                         Row(fills[n], call.at[n], call.start, ids[n], DerivedKey(call.run, n))]
    <3>3. new \in Seq(RowType) /\ DOMAIN new = DOMAIN fills
      BY <3>2, BatchTypes
    <3>4. ledger' = ledger \o new
          /\ \A n \in DOMAIN new :
               \A i \in ActiveIn(ledger \o SubSeq(new, 1, n - 1)) :
                 (ledger \o SubSeq(new, 1, n - 1))[i].tradeAt <= new[n].tradeAt
      BY <3>1, <3>3 DEF Accepts
    <3> HIDE DEF new
    <3> QED BY <2>0, <3>3, <3>4, OrderKept
  <2>6. ASSUME NEW p \in Procs,
               \/ BeginAppend(p) \/ BeginReverse(p) \/ BeginComplete(p)
               \/ CommitReplay(p) \/ Abort(p)
        PROVE  UNCHANGED ledger
    BY <2>6 DEF BeginAppend, BeginReverse, BeginComplete, Begin, CommitReplay, Abort
  <2>7. ASSUME SetStatus \/ (\E r \in Readers : ReadPortfolio(r) \/ ReadCount(r) \/ ReadPage(r))
               \/ UNCHANGED vars
        PROVE  UNCHANGED ledger
    BY <2>7 DEF SetStatus, ReadPortfolio, ReadCount, ReadPage, vars
  <2> QED BY <2>1, <2>3, <2>4, <2>5, <2>6, <2>7 DEF Next
<1> QED BY <1>1, <1>2, TypeCorrect, PTL DEF Spec

-----------------------------------------------------------------------------
(* Every key, identifier and reversal target is used once.                  *)

RowsOK(rows) ==
  /\ \A i \in DOMAIN rows :
       /\ rows[i].id \in 1..Len(rows)
       /\ rows[i].reversalOf \in {NoRow} \cup 1..Len(rows)
  /\ \A i, j \in DOMAIN rows : rows[i].id = rows[j].id => i = j
  /\ \A i, j \in DOMAIN rows : rows[i].key = rows[j].key => i = j
  /\ \A i, j \in DOMAIN rows :
       rows[i].kind = "reversal" /\ rows[i].reversalOf = rows[j].id
         => /\ rows[j].kind # "reversal"
            /\ \A k \in DOMAIN rows : rows[k].reversalOf = rows[j].id => k = i

\* Rows with the next identifiers, unused keys, and either no reversal among
\* them or a single one, of an active row.
LEMMA RowsKept ==
  ASSUME NEW S, NEW old \in Seq(S), NEW new \in Seq(S), RowsOK(old),
         \A n \in DOMAIN new :
           /\ new[n].id \in Len(old) + 1..Len(old) + Len(new)
           /\ \A i \in DOMAIN old : old[i].key # new[n].key,
         \A m, n \in DOMAIN new :
           new[m].id = new[n].id \/ new[m].key = new[n].key => m = n,
         \/ \A n \in DOMAIN new : new[n].kind # "reversal" /\ new[n].reversalOf = NoRow
         \/ /\ Len(new) = 1
            /\ \E t \in ActiveIn(old) : new[1].reversalOf = old[t].id
  PROVE  RowsOK(old \o new)
<1> DEFINE all == old \o new
           Old == DOMAIN old
           IsNew(i) == \E n \in DOMAIN new : i = Len(old) + n
           at(i) == i - Len(old)
<1>1. /\ all \in Seq(S) /\ Len(all) = Len(old) + Len(new)
      /\ Len(old) \in Nat /\ Len(new) \in Nat
      /\ \A i \in Old : i \in DOMAIN all /\ all[i] = old[i]
      /\ \A i \in DOMAIN all : i \in Old \/ IsNew(i)
  BY PrefixOfConcat
<1>2. \A i \in DOMAIN all : i \notin Old =>
        at(i) \in DOMAIN new /\ i = Len(old) + at(i) /\ all[i] = new[at(i)]
  <2> SUFFICES ASSUME NEW i \in DOMAIN all, i \notin Old
               PROVE  at(i) \in DOMAIN new /\ i = Len(old) + at(i) /\ all[i] = new[at(i)]
    OBVIOUS
  <2>1. PICK n \in DOMAIN new : i = Len(old) + n
    BY <1>1
  <2>2. n \in Nat /\ at(i) = n
    BY <1>1, <2>1
  <2>3. all[Len(old) + n] = new[n]
    BY PrefixOfConcat
  <2> HIDE DEF all, at
  <2> QED BY <2>1, <2>2, <2>3
<1>3. /\ \A i \in Old : all[i].id \in 1..Len(old)
                        /\ all[i].reversalOf \in {NoRow} \cup 1..Len(old)
      /\ \A i \in DOMAIN all : i \notin Old =>
           all[i].id \in Len(old) + 1..Len(all)
  <2> HIDE DEF all, at
  <2> QED BY <1>1, <1>2 DEF RowsOK
<1>4. \A i \in DOMAIN all : i \notin Old =>
        \/ all[i].kind # "reversal" /\ all[i].reversalOf = NoRow
        \/ /\ \A j \in DOMAIN all : j \notin Old => j = i
           /\ \E t \in ActiveIn(old) : all[i].reversalOf = old[t].id
  <2> SUFFICES ASSUME NEW i \in DOMAIN all, i \notin Old,
                      ~ (all[i].kind # "reversal" /\ all[i].reversalOf = NoRow)
               PROVE  /\ \A j \in DOMAIN all : j \notin Old => j = i
                      /\ \E t \in ActiveIn(old) : all[i].reversalOf = old[t].id
    OBVIOUS
  <2> HIDE DEF all, at
  <2>1. Len(new) = 1 /\ \E t \in ActiveIn(old) : new[1].reversalOf = old[t].id
    BY <1>2
  <2>2. \A j \in DOMAIN all : j \notin Old => at(j) = 1
    BY <1>2, <2>1
  <2>3. \A j \in DOMAIN all : j \notin Old => j = i
    BY <1>2, <2>2
  <2>4. all[i] = new[1]
    BY <1>2, <2>2
  <2> QED BY <2>1, <2>3, <2>4
<1>5. \A i \in ActiveIn(old) : i \in Old /\ all[i].kind # "reversal"
                               /\ \A j \in Old : all[j].reversalOf # all[i].id
  <2> HIDE DEF all
  <2> QED BY <1>1 DEF ActiveIn, IsActive
<1> HIDE DEF all, at
<1>6. \A i \in DOMAIN all : /\ all[i].id \in 1..Len(all)
                            /\ all[i].reversalOf \in {NoRow} \cup 1..Len(all)
  <2> SUFFICES ASSUME NEW i \in DOMAIN all
               PROVE  /\ all[i].id \in 1..Len(all)
                      /\ all[i].reversalOf \in {NoRow} \cup 1..Len(all)
    OBVIOUS
  <2>1. CASE i \in Old
    BY <1>1, <1>3, <2>1
  <2>2. CASE i \notin Old
    <3>1. all[i].reversalOf = NoRow \/ \E t \in Old : all[i].reversalOf = all[t].id
      BY <1>1, <1>4, <1>5, <2>2
    <3> QED BY <1>1, <1>3, <2>2, <3>1
  <2> QED BY <2>1, <2>2
<1>7. \A i, j \in DOMAIN all : all[i].id = all[j].id => i = j
  <2> SUFFICES ASSUME NEW i \in DOMAIN all, NEW j \in DOMAIN all, all[i].id = all[j].id
               PROVE  i = j
    OBVIOUS
  <2>1. CASE i \in Old /\ j \in Old
    BY <1>1, <2>1 DEF RowsOK
  <2>2. CASE i \notin Old /\ j \notin Old
    BY <1>2, <2>2
  <2>3. CASE (i \in Old /\ j \notin Old) \/ (i \notin Old /\ j \in Old)
    BY <1>1, <1>3, <2>3
  <2> QED BY <2>1, <2>2, <2>3
<1>8. \A i, j \in DOMAIN all : all[i].key = all[j].key => i = j
  <2> SUFFICES ASSUME NEW i \in DOMAIN all, NEW j \in DOMAIN all, all[i].key = all[j].key
               PROVE  i = j
    OBVIOUS
  <2>1. CASE i \in Old /\ j \in Old
    BY <1>1, <2>1 DEF RowsOK
  <2>2. CASE i \notin Old /\ j \notin Old
    BY <1>2, <2>2
  <2>3. CASE (i \in Old /\ j \notin Old) \/ (i \notin Old /\ j \in Old)
    BY <1>1, <1>2, <2>3
  <2> QED BY <2>1, <2>2, <2>3
<1>9. ASSUME NEW i \in DOMAIN all, NEW j \in DOMAIN all,
             all[i].kind = "reversal", all[i].reversalOf = all[j].id
      PROVE  /\ all[j].kind # "reversal"
             /\ \A k \in DOMAIN all : all[k].reversalOf = all[j].id => k = i
  <2>1. CASE i \in Old
    <3>1. j \in Old
      <4>1. all[i].reversalOf \in Int /\ all[i].reversalOf <= Len(old)
        BY <1>1, <1>3, <2>1 DEF NoRow
      <4>2. j \notin Old => all[j].id \in Int /\ all[j].id > Len(old)
        BY <1>1, <1>3
      <4> QED BY <1>1, <1>9, <4>1, <4>2
    <3>2. all[j].kind # "reversal"
          /\ \A k \in Old : all[k].reversalOf = all[j].id => k = i
      BY <1>1, <1>9, <2>1, <3>1 DEF RowsOK
    <3>3. ASSUME NEW k \in DOMAIN all, k \notin Old, all[k].reversalOf = all[j].id
          PROVE  FALSE
      <4>1. all[k].reversalOf # NoRow
        BY <1>1, <1>3, <3>1, <3>3 DEF NoRow
      <4>2. PICK t \in ActiveIn(old) : all[k].reversalOf = old[t].id
        BY <1>4, <3>3, <4>1
      <4>3. t = j
        BY <1>1, <1>5, <1>7, <3>3, <4>2
      <4> QED BY <1>5, <1>9, <2>1, <4>3
    <3> QED BY <3>2, <3>3
  <2>2. CASE i \notin Old
    <3>1. PICK t \in ActiveIn(old) : all[i].reversalOf = old[t].id
      BY <1>4, <1>9, <2>2
    <3>2. t = j
      BY <1>1, <1>5, <1>7, <1>9, <3>1
    <3>3. \A k \in DOMAIN all : k \notin Old => k = i
      BY <1>4, <1>9, <2>2
    <3> QED BY <1>5, <3>2, <3>3
  <2> QED BY <2>1, <2>2
<1>10. RowsOK(all)
  BY <1>6, <1>7, <1>8, <1>9 DEF RowsOK
<1> QED BY <1>10 DEF all

\* Every answer given to a caller is a row of the ledger under the caller's key.
AnswersAreRows ==
  \A a \in answers : \E i \in DOMAIN ledger : ledger[i].key = a.key /\ ledger[i].id = a.row

RowsInv == RowsOK(ledger) /\ AnswersAreRows

LEMMA AnswersKept ==
  ASSUME NEW S, ledger \in Seq(S), NEW new \in Seq(S), AnswersAreRows,
         ledger' = ledger \o new,
         \A a \in answers' : a \in answers
           \/ \E n \in DOMAIN new : new[n].key = a.key /\ new[n].id = a.row
  PROVE  AnswersAreRows'
<1> SUFFICES ASSUME NEW a \in answers'
             PROVE  \E i \in DOMAIN ledger' : ledger'[i].key = a.key /\ ledger'[i].id = a.row
  BY DEF AnswersAreRows
<1>1. /\ \A i \in DOMAIN ledger : i \in DOMAIN ledger' /\ ledger'[i] = ledger[i]
      /\ \A n \in DOMAIN new : Len(ledger) + n \in DOMAIN ledger'
                               /\ ledger'[Len(ledger) + n] = new[n]
  BY PrefixOfConcat
<1>2. CASE a \in answers
  BY <1>1, <1>2 DEF AnswersAreRows
<1>3. CASE a \notin answers
  BY <1>1, <1>3
<1> QED BY <1>2, <1>3

LEMMA RowsInvImplies == RowsInv => OneAnswerPerKey /\ ReversedOnce
BY DEF RowsInv, RowsOK, AnswersAreRows, OneAnswerPerKey, ReversedOnce

LEMMA RowsInvStep == LedgerTypeOK /\ RowsInv /\ [Next]_vars => RowsInv'
<1> SUFFICES ASSUME LedgerTypeOK, RowsInv, [Next]_vars PROVE RowsInv'
  OBVIOUS
<1>0. ledger \in Seq(RowType) /\ Len(ledger) \in Nat
  BY DEF LedgerTypeOK
<1>1. ASSUME UNCHANGED <<ledger, answers>> PROVE RowsInv'
  BY <1>1 DEF RowsInv, RowsOK, AnswersAreRows
<1>2. ASSUME NEW row \in RowType, ledger' = Append(ledger, row),
             row.id = Len(ledger) + 1, RowsWithKey(row.key) = {},
             answers' = answers \cup {[key |-> row.key, row |-> row.id]},
             \/ row.kind # "reversal" /\ row.reversalOf = NoRow
             \/ \E t \in ActiveIn(ledger) : row.reversalOf = ledger[t].id
      PROVE  RowsInv'
  <2> DEFINE new == <<row>>
  <2>1. new \in Seq(RowType) /\ Len(new) = 1 /\ DOMAIN new = {1} /\ new[1] = row
        /\ ledger' = ledger \o new
    BY <1>0, <1>2
  <2>2. row.id \in Len(ledger) + 1..Len(ledger) + 1
        /\ \A i \in DOMAIN ledger : ledger[i].key # row.key
    BY <1>0, <1>2 DEF RowsWithKey
  <2> HIDE DEF new
  <2>3. RowsOK(ledger \o new)
    BY <1>0, <1>2, <2>1, <2>2, RowsKept DEF RowsInv
  <2>4. AnswersAreRows'
    <3>1. \A a \in answers' : a \in answers
            \/ \E n \in DOMAIN new : new[n].key = a.key /\ new[n].id = a.row
      BY <1>2, <2>1
    <3> QED BY <1>0, <2>1, <3>1, AnswersKept DEF RowsInv
  <2> QED BY <2>1, <2>3, <2>4 DEF RowsInv
<1>3. ASSUME NEW p \in Procs, CommitReplay(p) PROVE RowsInv'
  <2>1. PICK i \in RowsWithKey(inflight[p].key) :
          Return(p, {[key |-> inflight[p].key, row |-> ledger[i].id]})
    BY <1>3 DEF CommitReplay
  <2>2. ledger' = ledger
        /\ answers' = answers \cup {[key |-> inflight[p].key, row |-> ledger[i].id]}
    BY <1>3, <2>1 DEF CommitReplay, Return
  <2>3. i \in DOMAIN ledger /\ ledger[i].key = inflight[p].key
    BY <2>1 DEF RowsWithKey
  <2> QED BY <2>2, <2>3 DEF RowsInv, RowsOK, AnswersAreRows
<1>4. ASSUME NEW p \in Procs, CommitAppend(p) PROVE RowsInv'
  <2> DEFINE call == inflight[p]
             row  == Row(call.entry, call.at, call.start, Len(ledger) + 1, call.key)
  <2>1. /\ call.op = "append" /\ RowsWithKey(call.key) = {}
        /\ ledger' = Append(ledger, row)
        /\ answers' = answers \cup {[key |-> call.key, row |-> row.id]}
    BY <1>4 DEF CommitAppend, Return
  <2>2. call.key \in Keys /\ call.entry \in Entries /\ call.at \in Nat /\ call.start \in Nat
    BY <2>1, CallTypes, LedgerAssumption DEF AppendCall
  <2>3. row \in RowType /\ row.kind # "reversal"
    <3>1. call.key \in AllKeys /\ Len(ledger) + 1 \in Nat
      BY <1>0, <2>2 DEF AllKeys
    <3> HIDE DEF call
    <3> QED BY <2>2, <3>1, RowTypes
  <2>4. row.id = Len(ledger) + 1 /\ row.key = call.key /\ row.reversalOf = NoRow
    BY DEF Row
  <2> HIDE DEF row, call
  <2> QED BY <1>2, <2>1, <2>3, <2>4
<1>5. ASSUME NEW p \in Procs, CommitReverse(p) PROVE RowsInv'
  <2> DEFINE call == inflight[p]
             row  == ReversalRow(call.target, call.start, Len(ledger) + 1, call.key)
  <2>1. /\ call.op = "reverse" /\ RowsWithKey(call.key) = {}
        /\ ledger' = Append(ledger, row)
        /\ answers' = answers \cup {[key |-> call.key, row |-> row.id]}
        /\ \E t \in DOMAIN ledger : ledger[t].id = call.target /\ IsLatestActive(t)
    BY <1>5 DEF CommitReverse, Return
  <2>2. \E t \in ActiveIn(ledger) : ledger[t].id = call.target
    BY <2>1 DEF IsLatestActive, ActiveIn
  <2>3. call.key \in Keys /\ call.target \in Nat /\ call.start \in Nat
    BY <2>1, CallTypes DEF ReverseCall
  <2>4. row \in RowType
    <3>1. call.key \in AllKeys /\ Len(ledger) + 1 \in Nat
      BY <1>0, <2>3 DEF AllKeys
    <3> HIDE DEF call
    <3> QED BY <2>3, <3>1, RowTypes
  <2>5. row.id = Len(ledger) + 1 /\ row.key = call.key /\ row.reversalOf = call.target
    BY DEF ReversalRow
  <2> HIDE DEF row, call
  <2> QED BY <1>2, <2>1, <2>2, <2>4, <2>5
<1>6. ASSUME NEW p \in Procs, CommitComplete(p) PROVE RowsInv'
  <2> DEFINE call  == inflight[p]
             fills == Batches[call.run]
  <2>1. PICK ids \in NextIds(Len(fills)) :
          LET new == [n \in DOMAIN fills |->
                        Row(fills[n], call.at[n], call.start, ids[n], DerivedKey(call.run, n))]
          IN  /\ ledger' = ledger \o new
              /\ Return(p, {[key |-> DerivedKey(call.run, n), row |-> ids[n]] :
                            n \in DOMAIN fills})
    BY <1>6 DEF CommitComplete
  <2> DEFINE new == [n \in DOMAIN fills |->
                       Row(fills[n], call.at[n], call.start, ids[n], DerivedKey(call.run, n))]
  <2>2. /\ call.op = "complete"
        /\ \A n \in DOMAIN fills : RowsWithKey(DerivedKey(call.run, n)) = {}
        /\ ledger' = ledger \o new
        /\ answers' = answers \cup {[key |-> DerivedKey(call.run, n), row |-> ids[n]] :
                                    n \in DOMAIN fills}
    BY <1>6, <2>1 DEF CommitComplete, Return
  <2>3. /\ new \in Seq(RowType) /\ Len(new) = Len(fills) /\ DOMAIN new = DOMAIN fills
        /\ DOMAIN ids = DOMAIN fills
        /\ \A n \in DOMAIN fills : ids[n] \in Len(ledger) + 1..Len(ledger) + Len(fills)
        /\ \A n \in DOMAIN new : new[n].kind # "reversal"
    BY <2>2, BatchTypes
  <2>4. \A m, n \in DOMAIN fills : ids[m] = ids[n] => m = n
    BY <2>3 DEF NextIds, IsInjective
  <2>5. \A n \in DOMAIN fills :
          new[n].id = ids[n] /\ new[n].key = <<call.run, n>> /\ new[n].reversalOf = NoRow
    BY DEF Row, DerivedKey
  <2>6. \A n \in DOMAIN fills, i \in DOMAIN ledger : ledger[i].key # <<call.run, n>>
    BY <2>2 DEF RowsWithKey, DerivedKey
  <2>7. /\ \A n \in DOMAIN new :
             /\ new[n].id \in Len(ledger) + 1..Len(ledger) + Len(new)
             /\ \A i \in DOMAIN ledger : ledger[i].key # new[n].key
        /\ \A m, n \in DOMAIN new : new[m].id = new[n].id \/ new[m].key = new[n].key => m = n
        /\ \A n \in DOMAIN new : new[n].kind # "reversal" /\ new[n].reversalOf = NoRow
    <3> HIDE DEF new, fills, call
    <3> QED BY <2>3, <2>4, <2>5, <2>6
  <2>8. \A a \in answers' : a \in answers
          \/ \E n \in DOMAIN new : new[n].key = a.key /\ new[n].id = a.row
    <3> SUFFICES ASSUME NEW a \in answers', a \notin answers
                 PROVE  \E n \in DOMAIN new : new[n].key = a.key /\ new[n].id = a.row
      OBVIOUS
    <3> HIDE DEF new, fills, call
    <3>1. PICK n \in DOMAIN fills : a = [key |-> DerivedKey(call.run, n), row |-> ids[n]]
      BY <2>2
    <3> QED BY <2>3, <2>5, <3>1 DEF DerivedKey
  <2> HIDE DEF new, fills, call
  <2>9. RowsOK(ledger \o new)
    BY <1>0, <2>3, <2>7, RowsKept DEF RowsInv
  <2>10. AnswersAreRows'
    BY <1>0, <2>2, <2>3, <2>8, AnswersKept DEF RowsInv
  <2> QED BY <2>2, <2>9, <2>10 DEF RowsInv
<1>7. ASSUME NEW p \in Procs,
             BeginAppend(p) \/ BeginReverse(p) \/ BeginComplete(p) \/ Abort(p)
      PROVE  UNCHANGED <<ledger, answers>>
  BY <1>7 DEF BeginAppend, BeginReverse, BeginComplete, Begin, Abort, Return
<1>8. ASSUME SetStatus \/ (\E r \in Readers : ReadPortfolio(r) \/ ReadCount(r) \/ ReadPage(r))
             \/ UNCHANGED vars
      PROVE  UNCHANGED <<ledger, answers>>
  BY <1>8 DEF SetStatus, ReadPortfolio, ReadCount, ReadPage, vars
<1> QED BY <1>1, <1>3, <1>4, <1>5, <1>6, <1>7, <1>8 DEF Next

\* Retries and reused keys: whatever interleaving of calls, a key names one row
\* and every caller who used it was given that row.
THEOREM KeyNamesOneRow == Spec => []OneAnswerPerKey
<1>1. Init => RowsInv
  BY DEF Init, RowsInv, RowsOK, AnswersAreRows
<1> QED BY <1>1, RowsInvStep, RowsInvImplies, TypeCorrect, PTL DEF Spec

\* A transaction is taken back at most once, and reversals never are.
THEOREM ReversalsAreFinal == Spec => []ReversedOnce
<1>1. Init => RowsInv
  BY DEF Init, RowsInv, RowsOK, AnswersAreRows
<1> QED BY <1>1, RowsInvStep, RowsInvImplies, TypeCorrect, PTL DEF Spec

-----------------------------------------------------------------------------
(* What a reversal takes back.                                              *)

\* An active row leaves the active ones only by a row that names it.
LEMMA StaysActive ==
  ASSUME NEW S, NEW old \in Seq(S), NEW new \in Seq(S), NEW i \in ActiveIn(old),
         \A n \in DOMAIN new : new[n].reversalOf # old[i].id
  PROVE  i \in ActiveIn(old \o new)
<1> DEFINE all == old \o new
<1>1. /\ \A k \in DOMAIN old : k \in DOMAIN all /\ all[k] = old[k]
      /\ \A n \in DOMAIN new : all[Len(old) + n] = new[n]
      /\ \A k \in DOMAIN all : k \in DOMAIN old \/ \E n \in DOMAIN new : k = Len(old) + n
  BY PrefixOfConcat
<1>2. /\ i \in DOMAIN old /\ old[i].kind # "reversal"
      /\ \A k \in DOMAIN old : old[k].reversalOf # old[i].id
  BY DEF ActiveIn, IsActive
<1> HIDE DEF all
<1>3. \A k \in DOMAIN all : all[k].reversalOf # all[i].id
  BY <1>1, <1>2
<1>4. i \in ActiveIn(all)
  BY <1>1, <1>2, <1>3 DEF ActiveIn, IsActive
<1> QED BY <1>4 DEF all

\* The latest active row in the order of replay is the last one committed, if
\* trade times follow the commits and creation times do so strictly.
LEMMA LatestIsLast ==
  ASSUME LedgerTypeOK, TradeOrderFollowsCommitOrder, RowsStartedInOrder,
         NEW i \in ActiveIn(ledger), IsLatestActive(i), NEW j \in ActiveIn(ledger)
  PROVE  j <= i
<1>1. i \in DOMAIN ledger /\ j \in DOMAIN ledger
  BY DEF ActiveIn
<1>2. /\ ledger \in Seq(RowType)
      /\ i \in Nat /\ j \in Nat /\ ledger[i] \in RowType /\ ledger[j] \in RowType
  BY <1>1 DEF LedgerTypeOK
<1>3. /\ ledger[i].tradeAt \in Nat /\ ledger[j].tradeAt \in Nat
      /\ ledger[i].createdAt \in Nat /\ ledger[j].createdAt \in Nat
  BY <1>2 DEF RowType
<1>4. ~ Precedes(ledger[i], ledger[j])
  BY DEF IsLatestActive
<1>5. ASSUME i < j PROVE FALSE
  <2>1. ledger[i].tradeAt <= ledger[j].tradeAt
    BY <1>5 DEF TradeOrderFollowsCommitOrder
  <2>2. ledger[i].createdAt < ledger[j].createdAt
    BY <1>1, <1>5 DEF RowsStartedInOrder
  <2> QED BY <1>3, <1>4, <2>1, <2>2 DEF Precedes
<1> QED BY <1>2, <1>5

\* Whatever calls overlap, as long as no transaction overtook another and none
\* wrote two rows, reverse_latest_portfolio_transaction takes back the active row
\* that was committed last: rows are taken back from the end of the ledger.
THEOREM ReversalsTakeTheLast == Spec => ReversalsPeelTheEnd
<1> DEFINE Peels == RowsStartedInOrder =>
                      \A i \in ActiveIn(ledger) :
                        i \notin ActiveIn(ledger') => \A j \in ActiveIn(ledger) : j <= i
<1>1. LedgerTypeOK /\ TradeOrderFollowsCommitOrder /\ RowsInv /\ [Next]_vars => [Peels]_vars
  <2> SUFFICES ASSUME LedgerTypeOK, TradeOrderFollowsCommitOrder, RowsInv, Next,
                      RowsStartedInOrder,
                      NEW i \in ActiveIn(ledger), i \notin ActiveIn(ledger'),
                      NEW j \in ActiveIn(ledger)
               PROVE  j <= i
    OBVIOUS
  <2>0. ledger \in Seq(RowType) /\ i \in DOMAIN ledger /\ ledger[i].id \in Nat
        /\ Len(ledger) \in Nat
    <3>1. ledger \in Seq(RowType) /\ i \in DOMAIN ledger
      BY DEF LedgerTypeOK, ActiveIn
    <3>2. ledger[i] \in RowType /\ Len(ledger) \in Nat
      BY <3>1
    <3> QED BY <3>1, <3>2 DEF RowType
  <2>1. ledger[i].id # NoRow
    BY <2>0 DEF NoRow
  <2>2. ASSUME NEW row \in RowType, ledger' = Append(ledger, row)
        PROVE  row.reversalOf = ledger[i].id
    <3>1. <<row>> \in Seq(RowType) /\ ledger' = ledger \o <<row>>
          /\ DOMAIN <<row>> = {1} /\ <<row>>[1] = row
      BY <2>0, <2>2
    <3> QED BY <2>0, <3>1, StaysActive
  <2>3. ASSUME NEW p \in Procs, CommitAppend(p) PROVE FALSE
    <3> DEFINE call == inflight[p]
               row  == Row(call.entry, call.at, call.start, Len(ledger) + 1, call.key)
    <3>1. call.op = "append" /\ ledger' = Append(ledger, row)
      BY <2>3 DEF CommitAppend
    <3>2. call.key \in Keys /\ call.entry \in Entries /\ call.at \in Nat /\ call.start \in Nat
      BY <3>1, CallTypes, LedgerAssumption DEF AppendCall
    <3>3. call.key \in AllKeys /\ Len(ledger) + 1 \in Nat
      BY <2>0, <3>2 DEF AllKeys
    <3>4. row \in RowType
      <4> HIDE DEF call
      <4> QED BY <3>2, <3>3, RowTypes
    <3>5. row.reversalOf = NoRow
      BY DEF Row
    <3> HIDE DEF row, call
    <3> QED BY <2>1, <2>2, <3>1, <3>4, <3>5
  <2>4. ASSUME NEW p \in Procs, CommitReverse(p) PROVE j <= i
    <3> DEFINE call == inflight[p]
               row  == ReversalRow(call.target, call.start, Len(ledger) + 1, call.key)
    <3>1. call.op = "reverse" /\ ledger' = Append(ledger, row)
      BY <2>4 DEF CommitReverse
    <3>2. PICK t \in DOMAIN ledger : ledger[t].id = call.target /\ IsLatestActive(t)
      BY <2>4 DEF CommitReverse
    <3>3. call.key \in Keys /\ call.target \in Nat /\ call.start \in Nat
      BY <3>1, CallTypes DEF ReverseCall
    <3>4. row \in RowType
      <4>1. call.key \in AllKeys /\ Len(ledger) + 1 \in Nat
        BY <2>0, <3>3 DEF AllKeys
      <4> HIDE DEF call
      <4> QED BY <3>3, <4>1, RowTypes
    <3>5. row.reversalOf = call.target
      BY DEF ReversalRow
    <3> HIDE DEF row, call
    <3>6. t = i
      BY <2>0, <2>2, <3>1, <3>2, <3>4, <3>5 DEF RowsInv, RowsOK
    <3> QED BY <3>2, <3>6, LatestIsLast
  <2>5. ASSUME NEW p \in Procs, CommitComplete(p) PROVE FALSE
    <3> DEFINE call  == inflight[p]
               fills == Batches[call.run]
    <3>1. PICK ids \in NextIds(Len(fills)) :
            ledger' = ledger \o [n \in DOMAIN fills |->
                                   Row(fills[n], call.at[n], call.start, ids[n],
                                       DerivedKey(call.run, n))]
      BY <2>5 DEF CommitComplete
    <3> DEFINE new == [n \in DOMAIN fills |->
                         Row(fills[n], call.at[n], call.start, ids[n], DerivedKey(call.run, n))]
    <3>2. call.op = "complete" /\ ledger' = ledger \o new
      BY <2>5, <3>1 DEF CommitComplete
    <3>3. new \in Seq(RowType) /\ DOMAIN new = DOMAIN fills
      BY <3>2, BatchTypes
    <3>4. \A n \in DOMAIN new : new[n].reversalOf = NoRow
      BY DEF Row
    <3> HIDE DEF new, fills, call
    <3> QED BY <2>0, <2>1, <3>2, <3>3, <3>4, StaysActive
  <2>6. ASSUME NEW p \in Procs,
               \/ BeginAppend(p) \/ BeginReverse(p) \/ BeginComplete(p)
               \/ CommitReplay(p) \/ Abort(p)
        PROVE  ledger' = ledger
    BY <2>6 DEF BeginAppend, BeginReverse, BeginComplete, Begin, CommitReplay, Abort
  <2>7. ASSUME SetStatus \/ (\E r \in Readers : ReadPortfolio(r) \/ ReadCount(r) \/ ReadPage(r))
        PROVE  ledger' = ledger
    BY <2>7 DEF SetStatus, ReadPortfolio, ReadCount, ReadPage
  <2> QED BY <2>3, <2>4, <2>5, <2>6, <2>7 DEF Next
<1>2. Init => RowsInv
  BY DEF Init, RowsInv, RowsOK, AnswersAreRows
<1>3. Spec => [][Peels]_vars
  BY <1>1, <1>2, RowsInvStep, TypeCorrect, CommitOrderIsTradeOrder, PTL DEF Spec
<1> QED BY <1>3 DEF ReversalsPeelTheEnd

-----------------------------------------------------------------------------
(* Sums over finite sets, by induction on the sets: one of those that would *)
(* be an exception contains no other.                                       *)

LEMMA ASmallestSet ==
  ASSUME NEW D, IsFiniteSet(D), NEW T \in SUBSET (SUBSET D), T # {}
  PROVE  \E S \in T : \A U \in T : U \subseteq S => U = S
<1>1. IsWellFoundedOn(StrictSubsetOrdering(D), SUBSET D)
  BY FS_StrictSubsetOrderingWellFounded, FS_FiniteSubsetsOfFinite
<1>2. PICK S \in T : \A U \in T : ~ (<<U, S>> \in StrictSubsetOrdering(D))
  BY <1>1, WFMin
<1>3. ASSUME NEW U \in T, U \subseteq S, U # S PROVE FALSE
  <2>1. <<U, S>> \in (SUBSET D) \X (SUBSET D)
    OBVIOUS
  <2>2. <<U, S>> \in StrictSubsetOrdering(D)
    BY <1>3, <2>1 DEF StrictSubsetOrdering
  <2> QED BY <1>2, <2>2
<1> QED BY <1>2, <1>3

\* Sums of w over the subsets of D, whatever is added first.
SumsTo(g, w, D) ==
  /\ g \in [SUBSET D -> Int] /\ g[{}] = 0
  /\ \A S \in SUBSET D : \A x \in S : g[S] = w[x] + g[S \ {x}]

LEMMA SumsExist ==
  ASSUME NEW D, IsFiniteSet(D), NEW w, \A x \in D : w[x] \in Int
  PROVE  \E g : SumsTo(g, w, D)
<1> DEFINE Without == {S \in SUBSET D : ~ \E g : SumsTo(g, w, S)}
<1>1. ASSUME Without # {} PROVE FALSE
  <2>0. Without \in SUBSET (SUBSET D)
    OBVIOUS
  <2>1. PICK S \in Without : \A U \in Without : U \subseteq S => U = S
    <3> HIDE DEF Without
    <3> QED BY <1>1, <2>0, ASmallestSet
  <2>2. S # {}
    <3> DEFINE g == [s \in SUBSET {} |-> 0]
    <3>1. g \in [SUBSET {} -> Int] /\ g[{}] = 0
      OBVIOUS
    <3>2. SumsTo(g, w, {})
      BY <3>1 DEF SumsTo
    <3> HIDE DEF g
    <3>3. \E f : SumsTo(f, w, {})
      BY <3>2
    <3>4. ~ \E f : SumsTo(f, w, S)
      BY <2>1
    <3> QED BY <3>3, <3>4
  <2>3. PICK a \in S : TRUE
    BY <2>2
  <2> DEFINE T == S \ {a}
  <2>4. T \in SUBSET D /\ T \subseteq S /\ T # S
    BY <2>3
  <2>5. PICK g : SumsTo(g, w, T)
    BY <2>1, <2>4
  <2> DEFINE h == [s \in SUBSET S |-> IF a \in s THEN w[a] + g[s \ {a}] ELSE g[s]]
  <2>6. \A s \in SUBSET S : s \ {a} \in SUBSET T /\ (a \notin s => s \in SUBSET T)
    OBVIOUS
  <2>7. \A s \in SUBSET T : g[s] \in Int
    BY <2>5 DEF SumsTo
  <2>8. w[a] \in Int /\ \A x \in S : w[x] \in Int
    BY <2>3
  <2> HIDE DEF T
  <2>9. h \in [SUBSET S -> Int] /\ h[{}] = 0
    <3>1. \A s \in SUBSET S : (IF a \in s THEN w[a] + g[s \ {a}] ELSE g[s]) \in Int
      BY <2>6, <2>7, <2>8
    <3>2. h[{}] = g[{}]
      OBVIOUS
    <3> QED BY <2>5, <3>1, <3>2 DEF SumsTo
  <2>10. ASSUME NEW s \in SUBSET S, NEW x \in s PROVE h[s] = w[x] + h[s \ {x}]
    <3>1. s \ {x} \in SUBSET S
      OBVIOUS
    <3>2. CASE x = a
      <4>1. h[s] = w[a] + g[s \ {a}] /\ h[s \ {a}] = g[s \ {a}]
        BY <3>1, <3>2
      <4> QED BY <3>2, <4>1
    <3>3. CASE x # a /\ a \notin s
      <4>1. h[s] = g[s] /\ h[s \ {x}] = g[s \ {x}]
        BY <3>1, <3>3
      <4> HIDE DEF h
      <4> QED BY <2>5, <2>6, <3>3, <4>1 DEF SumsTo
    <3>4. CASE x # a /\ a \in s
      <4>1. h[s] = w[a] + g[s \ {a}] /\ h[s \ {x}] = w[a] + g[(s \ {x}) \ {a}]
        BY <3>1, <3>4
      <4>2. s \ {a} \in SUBSET T /\ x \in s \ {a} /\ (s \ {x}) \ {a} = (s \ {a}) \ {x}
        BY <2>6, <3>4
      <4>3. g[s \ {a}] = w[x] + g[(s \ {a}) \ {x}]
        BY <2>5, <4>2 DEF SumsTo
      <4>4. (s \ {a}) \ {x} \in SUBSET T /\ w[x] \in Int
        BY <2>8, <4>2
      <4>5. g[(s \ {a}) \ {x}] \in Int
        BY <2>7, <4>4
      <4> DEFINE rest == g[(s \ {a}) \ {x}]
      <4>6. g[(s \ {x}) \ {a}] = rest /\ g[s \ {a}] = w[x] + rest
        BY <4>2, <4>3
      <4>7. h[s] = w[a] + (w[x] + rest) /\ h[s \ {x}] = w[a] + rest
        BY <4>1, <4>6
      <4>8. rest \in Int /\ w[x] \in Int /\ w[a] \in Int
        BY <2>8, <4>4, <4>5
      <4> HIDE DEF h, rest
      <4> QED BY <4>7, <4>8
    <3> QED BY <3>2, <3>3, <3>4
  <2>11. SumsTo(h, w, S)
    <3> HIDE DEF h
    <3> QED BY <2>9, <2>10 DEF SumsTo
  <2> QED BY <2>1, <2>11
<1>2. D \in SUBSET D
  OBVIOUS
<1> QED BY <1>1, <1>2

IterEq(iter, w, S) ==
  iter = [s \in SUBSET S |-> IF s = {} THEN 0
                             ELSE LET x == CHOOSE x \in s : TRUE IN w[x] + iter[s \ {x}]]

LEMMA SumIsIter ==
  ASSUME NEW w, NEW S
  PROVE  SumFunctionOnSet(w, S) = (CHOOSE iter : IterEq(iter, w, S))[S]
BY DEF SumFunctionOnSet, FoldFunctionOnSet, MapThenFoldSet, IterEq

LEMMA SumIsTotal ==
  ASSUME NEW D, IsFiniteSet(D), NEW w, NEW g, SumsTo(g, w, D), NEW S \in SUBSET D
  PROVE  SumFunctionOnSet(w, S) = g[S]
<1> DEFINE f == [s \in SUBSET S |-> g[s]]
           iter == CHOOSE iter : IterEq(iter, w, S)
<1>1. IterEq(f, w, S)
  <2>1. ASSUME NEW s \in SUBSET S
        PROVE  g[s] = IF s = {} THEN 0 ELSE LET x == CHOOSE x \in s : TRUE IN w[x] + f[s \ {x}]
    <3>1. CASE s = {}
      BY <3>1 DEF SumsTo
    <3>2. CASE s # {}
      <4> DEFINE x == CHOOSE x \in s : TRUE
      <4>1. x \in s
        BY <3>2
      <4> HIDE DEF x
      <4>2. s \in SUBSET D /\ s \ {x} \in SUBSET S
        OBVIOUS
      <4>3. g[s] = w[x] + g[s \ {x}] /\ f[s \ {x}] = g[s \ {x}]
        BY <4>1, <4>2 DEF SumsTo
      <4> QED BY <3>2, <4>3 DEF x
    <3> QED BY <3>1, <3>2
  <2> QED BY <2>1 DEF IterEq
<1>2. IterEq(iter, w, S)
  BY <1>1
<1> HIDE DEF iter, f
<1> DEFINE Differ == {s \in SUBSET S : iter[s] # g[s]}
<1>3. ASSUME Differ # {} PROVE FALSE
  <2>1. Differ \in SUBSET (SUBSET D)
    OBVIOUS
  <2>2. PICK s \in Differ : \A u \in Differ : u \subseteq s => u = s
    <3> HIDE DEF Differ
    <3> QED BY <1>3, <2>1, ASmallestSet
  <2>3. iter[s] = IF s = {} THEN 0 ELSE LET x == CHOOSE x \in s : TRUE IN w[x] + iter[s \ {x}]
    BY <1>2 DEF IterEq
  <2>4. s # {}
    <3>1. iter[s] # g[s] /\ g[{}] = 0
      BY <2>2 DEF SumsTo
    <3>2. CASE s = {}
      <4>1. iter[s] = 0
        BY <2>3, <3>2
      <4> QED BY <3>1, <3>2, <4>1
    <3> QED BY <3>2
  <2> DEFINE x == CHOOSE x \in s : TRUE
  <2>5. x \in s
    BY <2>4
  <2>6. iter[s] = w[x] + iter[s \ {x}]
    BY <2>3, <2>4
  <2> HIDE DEF x
  <2>7. iter[s \ {x}] = g[s \ {x}]
    <3>1. s \ {x} \in SUBSET S /\ s \ {x} \subseteq s /\ s \ {x} # s
      BY <2>5
    <3> QED BY <2>2, <3>1
  <2>8. g[s] = w[x] + g[s \ {x}]
    BY <2>5 DEF SumsTo
  <2> QED BY <2>6, <2>7, <2>8
<1>4. iter[S] = g[S]
  <2>1. S \in SUBSET S
    OBVIOUS
  <2> QED BY <1>3, <2>1
<1> QED BY <1>4, SumIsIter DEF iter

\* A sum over a finite set is an integer, nothing sums up to 0, and any element can be added last.
LEMMA SumOfOneMore ==
  ASSUME NEW S, IsFiniteSet(S), NEW w, \A x \in S : w[x] \in Int
  PROVE  /\ SumFunctionOnSet(w, S) \in Int
         /\ \A x \in S : SumFunctionOnSet(w, S) = w[x] + SumFunctionOnSet(w, S \ {x})
         /\ SumFunctionOnSet(w, {}) = 0
<1>1. PICK g : SumsTo(g, w, S)
  BY SumsExist
<1>2. \A T \in SUBSET S : SumFunctionOnSet(w, T) = g[T]
  BY <1>1, SumIsTotal
<1>3. S \in SUBSET S /\ {} \in SUBSET S
  OBVIOUS
<1>4. \A x \in S : S \ {x} \in SUBSET S
  OBVIOUS
<1> QED BY <1>1, <1>2, <1>3, <1>4 DEF SumsTo

\* Only what is added counts.
LEMMA SumsAgree ==
  ASSUME NEW S, IsFiniteSet(S), NEW w, NEW v, \A x \in S : w[x] \in Int /\ v[x] = w[x]
  PROVE  SumFunctionOnSet(v, S) = SumFunctionOnSet(w, S)
<1>1. PICK g : SumsTo(g, w, S)
  BY SumsExist
<1>2. SumsTo(g, v, S)
  <2>1. ASSUME NEW T \in SUBSET S, NEW x \in T PROVE g[T] = v[x] + g[T \ {x}]
    <3>1. v[x] = w[x]
      OBVIOUS
    <3> QED BY <1>1, <3>1 DEF SumsTo
  <2> QED BY <1>1, <2>1 DEF SumsTo
<1>3. S \in SUBSET S
  OBVIOUS
<1> QED BY <1>1, <1>2, <1>3, SumIsTotal

\* Elements that weigh nothing can be left out.
LEMMA SumWithoutZeros ==
  ASSUME NEW S, IsFiniteSet(S), NEW w, \A x \in S : w[x] \in Int
  PROVE  SumFunctionOnSet(w, S) = SumFunctionOnSet(w, {x \in S : w[x] # 0})
<1> DEFINE heavy(T) == {x \in T : w[x] # 0}
           Differ == {T \in SUBSET S : SumFunctionOnSet(w, T) # SumFunctionOnSet(w, heavy(T))}
<1>1. ASSUME Differ # {} PROVE FALSE
  <2>1. Differ \in SUBSET (SUBSET S)
    OBVIOUS
  <2>2. PICK T \in Differ : \A U \in Differ : U \subseteq T => U = T
    <3> HIDE DEF Differ
    <3> QED BY <1>1, <2>1, ASmallestSet
  <2>3. T # heavy(T)
    BY <2>2
  <2>4. PICK x \in T : w[x] = 0
    BY <2>3
  <2>5. T \ {x} \in SUBSET S /\ T \ {x} # T /\ heavy(T \ {x}) = heavy(T)
    BY <2>4
  <2>6. SumFunctionOnSet(w, T \ {x}) = SumFunctionOnSet(w, heavy(T))
    <3>1. T \ {x} \notin Differ
      BY <2>2, <2>5
    <3> HIDE DEF heavy
    <3> QED BY <2>5, <3>1
  <2>7. IsFiniteSet(T) /\ IsFiniteSet(T \ {x})
    BY <2>5, FS_Subset
  <2>8. SumFunctionOnSet(w, T) = w[x] + SumFunctionOnSet(w, T \ {x})
    BY <2>7, SumOfOneMore
  <2>9. SumFunctionOnSet(w, T \ {x}) \in Int
    BY <2>7, SumOfOneMore
  <2>10. SumFunctionOnSet(w, T) = SumFunctionOnSet(w, T \ {x})
    BY <2>4, <2>8, <2>9
  <2> QED BY <2>2, <2>6, <2>10
<1>2. S \in SUBSET S
  OBVIOUS
<1> QED BY <1>1, <1>2

-----------------------------------------------------------------------------
(* What the steps do to the rows, and when their transactions started.      *)

\* Rows accepted one after the other, no two of them of a symbol one of them sells.
Appends(rows, start, new) ==
  /\ \A n \in DOMAIN new :
       /\ new[n].kind # "reversal" /\ new[n].reversalOf = NoRow
       /\ new[n].id > Len(rows)
       /\ Accepts(rows \o SubSeq(new, 1, n - 1), start, new[n])
  /\ \A m, n \in DOMAIN new :
       new[m].kind = "sell" /\ new[m].symbol = new[n].symbol => m = n

\* The reversal of the latest active row.
Reverses(rows, new) ==
  /\ Len(new) = 1 /\ new[1].kind = "reversal" /\ new[1].id > Len(rows)
  /\ new[1].symbol = "none" /\ new[1].qty = 0 /\ new[1].cash = 0
  /\ \E t \in ActiveIn(rows) :
       /\ new[1].reversalOf = rows[t].id
       /\ \A j \in ActiveIn(rows) : ~ Precedes(rows[t], rows[j])

Commits(p, new) ==
  /\ inflight[p] # Idle
  /\ inflight' = [inflight EXCEPT ![p] = Idle]
  /\ version' = inflight[p].start
  /\ UNCHANGED <<clock, readers>>
  /\ ledger' = ledger \o new
  /\ \A n \in DOMAIN new : new[n].createdAt = inflight[p].start
  /\ Appends(ledger, inflight[p].start, new) \/ Reverses(ledger, new)

LEMMA CommitSteps ==
  ASSUME LedgerTypeOK, NEW p \in Procs, CommitAppend(p) \/ CommitReverse(p) \/ CommitComplete(p)
  PROVE  \E new \in Seq(RowType) : Commits(p, new)
<1>0. ledger \in Seq(RowType) /\ Len(ledger) \in Nat
  BY DEF LedgerTypeOK
<1>1. CASE CommitAppend(p)
  <2> DEFINE call == inflight[p]
             row  == Row(call.entry, call.at, call.start, Len(ledger) + 1, call.key)
             new  == <<row>>
  <2>1. /\ call.op = "append" /\ ledger' = Append(ledger, row)
        /\ Accepts(ledger, call.start, row)
        /\ inflight' = [inflight EXCEPT ![p] = Idle]
        /\ version' = call.start /\ UNCHANGED <<clock, readers>>
    BY <1>1 DEF CommitAppend, Return
  <2>2. call.key \in Keys /\ call.entry \in Entries /\ call.at \in Nat /\ call.start \in Nat
    BY <2>1, CallTypes, LedgerAssumption DEF AppendCall
  <2>3. call.key \in AllKeys /\ Len(ledger) + 1 \in Nat
    BY <1>0, <2>2 DEF AllKeys
  <2>4. row \in RowType /\ row.kind # "reversal"
    <3> HIDE DEF call
    <3> QED BY <2>2, <2>3, RowTypes
  <2>5. row.reversalOf = NoRow /\ row.createdAt = call.start /\ row.id = Len(ledger) + 1
    BY DEF Row
  <2>6. call # Idle
    BY <2>1 DEF Idle
  <2> HIDE DEF row
  <2>7. new \in Seq(RowType) /\ Len(new) = 1 /\ DOMAIN new = {1} /\ new[1] = row
        /\ ledger' = ledger \o new
    BY <1>0, <2>1, <2>4
  <2> HIDE DEF call, new
  <2>8. ledger \o SubSeq(new, 1, 1 - 1) = ledger
    <3>1. SubSeq(new, 1, 0) = <<>>
      BY SubSeqEmpty
    <3>2. 1 - 1 = 0 /\ ledger \o <<>> = ledger
      BY <1>0
    <3> QED BY <3>1, <3>2
  <2>9. Appends(ledger, call.start, new)
    <3>1. \A m, n \in DOMAIN new : m = n
      BY <2>7
    <3>2. row.id > Len(ledger)
      BY <1>0, <2>5
    <3>3. Accepts(ledger \o SubSeq(new, 1, 1 - 1), call.start, row)
      <4> DEFINE before == ledger \o SubSeq(new, 1, 1 - 1)
      <4>1. before = ledger
        BY <2>8
      <4> HIDE DEF before
      <4>2. Accepts(before, call.start, row)
        BY <2>1, <4>1
      <4> QED BY <4>2 DEF before
    <3>4. \A n \in DOMAIN new :
            /\ new[n].kind # "reversal" /\ new[n].reversalOf = NoRow
            /\ new[n].id > Len(ledger)
            /\ Accepts(ledger \o SubSeq(new, 1, n - 1), call.start, new[n])
      <4>1. ASSUME NEW n \in DOMAIN new PROVE n = 1
        BY <2>7
      <4> QED BY <2>4, <2>5, <2>7, <3>2, <3>3, <4>1
    <3> QED BY <3>1, <3>4 DEF Appends
  <2> QED BY <2>1, <2>5, <2>6, <2>7, <2>9 DEF Commits, call
<1>2. CASE CommitReverse(p)
  <2> DEFINE call == inflight[p]
             row  == ReversalRow(call.target, call.start, Len(ledger) + 1, call.key)
             new  == <<row>>
  <2>1. /\ call.op = "reverse" /\ ledger' = Append(ledger, row)
        /\ inflight' = [inflight EXCEPT ![p] = Idle]
        /\ version' = call.start /\ UNCHANGED <<clock, readers>>
    BY <1>2 DEF CommitReverse, Return
  <2>2. PICK t \in DOMAIN ledger : ledger[t].id = call.target /\ IsLatestActive(t)
    BY <1>2 DEF CommitReverse
  <2>3. call.key \in Keys /\ call.target \in Nat /\ call.start \in Nat
    BY <2>1, CallTypes DEF ReverseCall
  <2>4. row \in RowType
    <3>1. call.key \in AllKeys /\ Len(ledger) + 1 \in Nat
      BY <1>0, <2>3 DEF AllKeys
    <3> HIDE DEF call
    <3> QED BY <2>3, <3>1, RowTypes
  <2>5. /\ row.kind = "reversal" /\ row.symbol = "none" /\ row.qty = 0 /\ row.cash = 0
        /\ row.createdAt = call.start /\ row.id = Len(ledger) + 1
        /\ row.reversalOf = call.target
    BY DEF ReversalRow
  <2>6. call # Idle
    BY <2>1 DEF Idle
  <2> HIDE DEF row
  <2>7. new \in Seq(RowType) /\ Len(new) = 1 /\ DOMAIN new = {1} /\ new[1] = row
        /\ ledger' = ledger \o new
    BY <1>0, <2>1, <2>4
  <2> HIDE DEF call, new
  <2>8. t \in ActiveIn(ledger) /\ \A j \in ActiveIn(ledger) : ~ Precedes(ledger[t], ledger[j])
    BY <2>2 DEF IsLatestActive, ActiveIn
  <2>9. Reverses(ledger, new)
    BY <1>0, <2>2, <2>5, <2>7, <2>8 DEF Reverses
  <2> QED BY <2>1, <2>5, <2>6, <2>7, <2>9 DEF Commits, call
<1>3. CASE CommitComplete(p)
  <2> DEFINE call  == inflight[p]
             fills == Batches[call.run]
  <2>1. PICK ids \in NextIds(Len(fills)) :
          LET new == [n \in DOMAIN fills |->
                        Row(fills[n], call.at[n], call.start, ids[n], DerivedKey(call.run, n))]
          IN  /\ ledger' = ledger \o new
              /\ \A n \in DOMAIN fills :
                   Accepts(ledger \o SubSeq(new, 1, n - 1), call.start, new[n])
              /\ inflight' = [inflight EXCEPT ![p] = Idle]
    BY <1>3 DEF CommitComplete, Return
  <2> DEFINE new == [n \in DOMAIN fills |->
                       Row(fills[n], call.at[n], call.start, ids[n], DerivedKey(call.run, n))]
  <2>2. /\ call.op = "complete" /\ version' = call.start /\ UNCHANGED <<clock, readers>>
    BY <1>3 DEF CommitComplete
  <2>3. /\ new \in Seq(RowType) /\ DOMAIN new = DOMAIN fills /\ call.run \in Runs
        /\ \A n \in DOMAIN new : new[n].kind # "reversal"
        /\ \A n \in DOMAIN fills : ids[n] \in Len(ledger) + 1..Len(ledger) + Len(fills)
        /\ Len(new) = Len(fills)
    BY <2>2, BatchTypes
  <2>4. /\ ledger' = ledger \o new
        /\ \A n \in DOMAIN new : Accepts(ledger \o SubSeq(new, 1, n - 1), call.start, new[n])
        /\ inflight' = [inflight EXCEPT ![p] = Idle]
    BY <2>1, <2>3
  <2>5. \A n \in DOMAIN new : /\ new[n].reversalOf = NoRow /\ new[n].createdAt = call.start
                              /\ new[n].id = ids[n] /\ new[n].kind = fills[n].kind
                              /\ new[n].symbol = fills[n].symbol
    BY <2>3 DEF Row
  <2>6. call # Idle
    BY <2>2 DEF Idle
  <2>7. \A m, n \in DOMAIN fills : fills[m].kind = "sell" /\ fills[m].symbol = fills[n].symbol => m = n
    BY <2>3, LedgerAssumption
  <2> HIDE DEF new, fills, call
  <2>8. \A n \in DOMAIN new : new[n].id > Len(ledger)
    <3>1. Len(new) \in Nat
      BY <2>3
    <3> QED BY <1>0, <2>3, <2>5, <3>1
  <2>9. Appends(ledger, call.start, new)
    BY <2>3, <2>4, <2>5, <2>7, <2>8 DEF Appends
  <2> QED BY <2>2, <2>3, <2>4, <2>5, <2>6, <2>9 DEF Commits, call
<1> QED BY <1>1, <1>2, <1>3

\* No two transactions have the same start, nor has one that of a version or row.
Moments ==
  /\ version \in 0..clock
  /\ \A r \in Readers : readers[r].version \in 0..clock
  /\ \A i \in DOMAIN ledger : ledger[i].createdAt \in 0..clock
  /\ \A p \in Procs : inflight[p] # Idle =>
       /\ inflight[p].start \in 1..clock /\ inflight[p].start # version
       /\ \A q \in Procs :
            inflight[q] # Idle /\ inflight[q].start = inflight[p].start => q = p
       /\ \A r \in Readers : readers[r].version # inflight[p].start
       /\ \A i \in DOMAIN ledger : ledger[i].createdAt # inflight[p].start

\* A step starts a call, ends one without effect, commits one, or is not a call's.
LEMMA LedgerSteps ==
  ASSUME LedgerTypeOK, Next
  PROVE  \/ \E p \in Procs, call \in AppendCall \cup ReverseCall \cup CompleteCall :
              Begin(p, call) /\ call.start = clock + 1
         \/ \E p \in Procs : /\ inflight' = [inflight EXCEPT ![p] = Idle]
                             /\ UNCHANGED <<clock, ledger, version, readers>>
         \/ \E p \in Procs, new \in Seq(RowType) : Commits(p, new)
         \/ SetStatus
         \/ \E r \in Readers : ReadPortfolio(r) \/ ReadCount(r) \/ ReadPage(r)
<1>1. clock + 1 \in Nat /\ \A i \in DOMAIN ledger : ledger[i].id \in Nat
  <2>1. \A i \in DOMAIN ledger : ledger[i] \in RowType
    BY DEF LedgerTypeOK
  <2> QED BY <2>1 DEF LedgerTypeOK, RowType
<1>2. ASSUME NEW p \in Procs, BeginAppend(p)
      PROVE  \E call \in AppendCall : Begin(p, call) /\ call.start = clock + 1
  <2>1. PICK key \in Keys, entry \in Entries, at \in TradeTimes :
          Begin(p, [op |-> "append", key |-> key, entry |-> entry, at |-> at,
                    start |-> clock + 1])
    BY <1>2 DEF BeginAppend
  <2> DEFINE call == [op |-> "append", key |-> key, entry |-> entry, at |-> at,
                      start |-> clock + 1]
  <2>2. call \in AppendCall /\ call.start = clock + 1
    BY <1>1 DEF AppendCall
  <2> QED BY <2>1, <2>2
<1>3. ASSUME NEW p \in Procs, BeginReverse(p)
      PROVE  \E call \in ReverseCall : Begin(p, call) /\ call.start = clock + 1
  <2>1. PICK key \in Keys, i \in DOMAIN ledger :
          Begin(p, [op |-> "reverse", key |-> key, target |-> ledger[i].id,
                    start |-> clock + 1])
    BY <1>3 DEF BeginReverse
  <2> DEFINE call == [op |-> "reverse", key |-> key, target |-> ledger[i].id,
                      start |-> clock + 1]
  <2>2. call \in ReverseCall /\ call.start = clock + 1
    BY <1>1 DEF ReverseCall
  <2> QED BY <2>1, <2>2
<1>4. ASSUME NEW p \in Procs, BeginComplete(p)
      PROVE  \E call \in CompleteCall : Begin(p, call) /\ call.start = clock + 1
  <2>1. PICK run \in Runs : \E at \in [DOMAIN Batches[run] -> TradeTimes] :
          Begin(p, [op |-> "complete", run |-> run, at |-> at, start |-> clock + 1])
    BY <1>4 DEF BeginComplete
  <2>2. PICK at \in [DOMAIN Batches[run] -> TradeTimes] :
          Begin(p, [op |-> "complete", run |-> run, at |-> at, start |-> clock + 1])
    BY <2>1
  <2> DEFINE call == [op |-> "complete", run |-> run, at |-> at, start |-> clock + 1]
  <2>3. call \in CompleteCall /\ call.start = clock + 1
    BY <1>1 DEF CompleteCall
  <2> QED BY <2>2, <2>3
<1>5. ASSUME NEW p \in Procs, CommitReplay(p) \/ Abort(p)
      PROVE  /\ inflight' = [inflight EXCEPT ![p] = Idle]
             /\ UNCHANGED <<clock, ledger, version, readers>>
  BY <1>5 DEF CommitReplay, Abort, Return
<1> QED BY <1>2, <1>3, <1>4, <1>5, CommitSteps DEF Next

-----------------------------------------------------------------------------
(* What a reconstruction has read.                                          *)

\* What a reader that may still be current has read, and how much is left of it.
ReadsTruly(reader) ==
  /\ reader.phase = "count" => reader.rows = <<>>
  /\ reader.phase = "pages" /\ reader.version = version =>
       /\ reader.total = Len(ledger) /\ Len(reader.rows) \in 0..Len(ledger) - 1
       /\ reader.rows = SubSeq(Sorted(ledger), 1, Len(reader.rows))
  /\ reader.phase = "done" /\ reader.version = version => reader.rows = Sorted(ledger)

ReadersAre(S) ==
  readers \in [Readers -> [phase : {"idle", "count", "pages", "done"},
                           version : Nat, total : Nat, rows : S]]

ReadsInv == (\E S : ReadersAre(S)) /\ \A r \in Readers : ReadsTruly(readers[r])

LEMMA SortedIsAsLong ==
  ASSUME NEW rows \in Seq(RowType)
  PROVE  \E S : Sorted(rows) \in Seq(S) /\ Len(Sorted(rows)) = Len(rows)
<1> DEFINE place(n) == CHOOSE i \in DOMAIN rows :
                         Cardinality({j \in DOMAIN rows : Precedes(rows[j], rows[i])}) = n - 1
           sorted == [n \in DOMAIN rows |-> rows[place(n)]]
<1>1. Sorted(rows) = sorted
  BY DEF Sorted
<1> HIDE DEF place
<1>2. Len(rows) \in Nat /\ DOMAIN rows = 1..Len(rows)
  OBVIOUS
<1>3. sorted \in Seq({rows[place(n)] : n \in 1..Len(rows)}) /\ Len(sorted) = Len(rows)
  BY <1>2
<1> QED BY <1>1, <1>3

\* The next page continues what was read of the sorted rows.
PageAfter(all, k, size, read, end, page) ==
  /\ k \in 0..Len(all) - 1 /\ size \in Nat \ {0} /\ read = SubSeq(all, 1, k)
  /\ end = Min({Len(all), k + size}) /\ page = SubSeq(all, k + 1, end)

ReadTo(all, k, end, rows) ==
  /\ end \in k + 1..Len(all) /\ rows = SubSeq(all, 1, end) /\ Len(rows) = end
  /\ end = Len(all) => rows = all

LEMMA NextPage ==
  ASSUME NEW S, NEW all \in Seq(S), NEW k, NEW size, NEW read, NEW end, NEW page,
         PageAfter(all, k, size, read, end, page)
  PROVE  ReadTo(all, k, end, read \o page)
<1>0. /\ k \in 0..Len(all) - 1 /\ size \in Nat \ {0} /\ read = SubSeq(all, 1, k)
      /\ end = Min({Len(all), k + size}) /\ page = SubSeq(all, k + 1, end)
  BY DEF PageAfter
<1>1. Len(all) \in Nat /\ k \in Nat /\ k + size \in Nat /\ k + size > k /\ k < Len(all)
  BY <1>0
<1>2. end \in k + 1..Len(all)
  <2>1. Min({Len(all), k + size}) \in {Len(all), k + size}
        /\ Min({Len(all), k + size}) <= Len(all) /\ Min({Len(all), k + size}) <= k + size
    BY <1>1 DEF Min
  <2> QED BY <1>0, <1>1, <2>1
<1>4. read \o page = SubSeq(all, 1, end)
  <2>1. k \in 0..Len(all) /\ end \in k..Len(all) /\ 1 \in 1..Len(all) + 1 /\ 1 - 1 = 0
    BY <1>1, <1>2
  <2> QED BY <1>0, <2>1, ConcatAdjacentSubSeq
<1>5. Len(SubSeq(all, 1, end)) = end
  <2>1. \A i \in 1..end : all[i] \in S
    BY <1>1, <1>2
  <2>2. Len(SubSeq(all, 1, end)) = IF 1 <= end THEN end - 1 + 1 ELSE 0
    BY <1>1, <1>2, <2>1, SubSeqProperties
  <2> QED BY <1>1, <1>2, <2>2
<1>6. SubSeq(all, 1, Len(all)) = all
  BY SubSeqFull
<1> QED BY <1>2, <1>4, <1>5, <1>6 DEF ReadTo

\* Rows and version that no reader has seen the version of: what was read is of the past.
LEMMA ReadsOfThePast ==
  ASSUME ReadsInv, UNCHANGED readers, \A r \in Readers : readers[r].version # version'
  PROVE  ReadsInv'
BY DEF ReadsInv, ReadsTruly, ReadersAre

LEMMA ReadsStep == LedgerTypeOK /\ Moments /\ ReadsInv /\ [Next]_vars => ReadsInv'
<1> SUFFICES ASSUME LedgerTypeOK, Moments, ReadsInv, [Next]_vars PROVE ReadsInv'
  OBVIOUS
<1>0. ledger \in Seq(RowType) /\ Len(ledger) \in Nat /\ version \in Nat /\ clock \in Nat
  BY DEF LedgerTypeOK
<1>1. ASSUME UNCHANGED <<ledger, version, readers>> PROVE ReadsInv'
  BY <1>1 DEF ReadsInv, ReadsTruly, ReadersAre
<1>2. ASSUME NEW p \in Procs, NEW new \in Seq(RowType), Commits(p, new) PROVE ReadsInv'
  <2>1. \A r \in Readers : readers[r].version # version'
    BY <1>2 DEF Commits, Moments
  <2>2. UNCHANGED readers
    BY <1>2 DEF Commits
  <2> QED BY <2>1, <2>2, ReadsOfThePast
<1>3. ASSUME SetStatus PROVE ReadsInv'
  <2>1. UNCHANGED readers /\ version' = clock + 1
    BY <1>3 DEF SetStatus
  <2>2. \A r \in Readers : readers[r].version \in 0..clock
    BY DEF Moments
  <2>3. \A r \in Readers : readers[r].version # version'
    BY <1>0, <2>1, <2>2
  <2> QED BY <2>1, <2>3, ReadsOfThePast
\* A reader takes a step of its own: its record becomes another of the same shape.
<1>4. PICK S : ReadersAre(S)
  BY DEF ReadsInv
<1>5. ASSUME NEW r \in Readers, NEW reader, UNCHANGED <<ledger, version>>,
             readers' = [readers EXCEPT ![r] = reader],
             reader.phase \in {"idle", "count", "pages", "done"},
             reader.version \in Nat, reader.total \in Nat,
             reader = [phase |-> reader.phase, version |-> reader.version,
                       total |-> reader.total, rows |-> reader.rows],
             ReadsTruly(reader)
      PROVE  ReadsInv'
  <2> DEFINE T == S \cup {reader.rows}
             Type(U) == [phase : {"idle", "count", "pages", "done"}, version : Nat, total : Nat, rows : U]
  <2>1. reader \in Type(T)
    BY <1>5
  <2>2. \A x \in Type(S) : x \in Type(T)
    OBVIOUS
  <2>3. readers \in [Readers -> Type(S)]
    BY <1>4 DEF ReadersAre
  <2> HIDE DEF T, Type
  <2>4. readers' \in [Readers -> Type(T)]
    BY <1>5, <2>1, <2>2, <2>3
  <2>5. \A q \in Readers : readers'[q] = IF q = r THEN reader ELSE readers[q]
    BY <1>5, <2>3
  <2>6. \A q \in Readers : ReadsTruly(readers[q]) /\ ReadsTruly(readers'[q])
    BY <1>5, <2>5 DEF ReadsInv
  <2>7. \A q \in Readers : ReadsTruly(readers[q])'
    BY <1>5, <2>6 DEF ReadsTruly
  <2>8. ReadersAre(T)'
    BY <2>4 DEF ReadersAre, Type
  <2> QED BY <2>7, <2>8 DEF ReadsInv
<1>6. ASSUME NEW r \in Readers, ReadPortfolio(r) PROVE ReadsInv'
  <2> DEFINE reader == [phase |-> "count", version |-> version, total |-> 0, rows |-> <<>>]
  <2>1. UNCHANGED <<ledger, version>> /\ readers' = [readers EXCEPT ![r] = reader]
    BY <1>6 DEF ReadPortfolio
  <2>2. reader = [phase |-> "count", version |-> version, total |-> 0, rows |-> <<>>]
    OBVIOUS
  <2> HIDE DEF reader
  <2>3. ReadsTruly(reader)
    BY <2>2 DEF ReadsTruly
  <2> QED BY <1>0, <1>5, <2>1, <2>2, <2>3
<1>7. ASSUME NEW r \in Readers, ReadCount(r) PROVE ReadsInv'
  <2> DEFINE was    == readers[r]
             reader == [phase |-> IF ledger = <<>> THEN "done" ELSE "pages",
                        version |-> was.version, total |-> Len(ledger), rows |-> <<>>]
  <2>1. UNCHANGED <<ledger, version>> /\ readers' = [readers EXCEPT ![r] = reader]
    BY <1>7 DEF ReadCount
  <2>2. was \in [phase : {"idle", "count", "pages", "done"}, version : Nat, total : Nat, rows : S]
    BY <1>4 DEF ReadersAre
  <2>5. reader = [phase |-> IF ledger = <<>> THEN "done" ELSE "pages", version |-> was.version,
                  total |-> Len(ledger), rows |-> <<>>]
    OBVIOUS
  <2> HIDE DEF was
  <2>6. was.version \in Nat
    BY <2>2
  <2> HIDE DEF reader
  <2>7. ReadsTruly(reader)
    <3>1. CASE ledger = <<>>
      <4>1. Sorted(ledger) = <<>>
        BY <3>1 DEF Sorted
      <4> QED BY <2>5, <3>1, <4>1 DEF ReadsTruly
    <3>2. CASE ledger # <<>>
      <4>1. SubSeq(Sorted(ledger), 1, 0) = <<>>
        BY SubSeqEmpty
      <4>2. Len(ledger) > 0 /\ Len(<<>>) = 0
        BY <1>0, <3>2
      <4> QED BY <1>0, <2>5, <3>2, <4>1, <4>2 DEF ReadsTruly
    <3> QED BY <3>1, <3>2
  <2> QED BY <1>0, <1>5, <2>1, <2>5, <2>6, <2>7
<1>8. ASSUME NEW r \in Readers, ReadPage(r) PROVE ReadsInv'
  <2> DEFINE was    == readers[r]
             offset == Len(was.rows)
             end    == Min({was.total, offset + PageSize})
             page   == SubSeq(Sorted(ledger), offset + 1, end)
             read   == [phase |-> IF end = was.total THEN "done" ELSE "pages",
                        version |-> was.version, total |-> was.total, rows |-> was.rows \o page]
             reader == IF Len(page) # end - offset THEN NoReader ELSE read
  <2>1. /\ UNCHANGED <<ledger, version>> /\ was.phase = "pages"
        /\ readers' = [readers EXCEPT ![r] = reader]
    BY <1>8 DEF ReadPage
  <2>2. was \in [phase : {"idle", "count", "pages", "done"}, version : Nat, total : Nat, rows : S]
    BY <1>4 DEF ReadersAre
  <2>3. ReadsTruly(was)
    BY DEF ReadsInv
  <2>4. read = [phase |-> IF end = was.total THEN "done" ELSE "pages", version |-> was.version,
                total |-> was.total, rows |-> was.rows \o page]
    OBVIOUS
  <2>5. PageSize \in Nat \ {0}
    BY LedgerAssumption
  <2>6. PICK U : Sorted(ledger) \in Seq(U) /\ Len(Sorted(ledger)) = Len(ledger)
    BY <1>0, SortedIsAsLong
  <2> DEFINE all == Sorted(ledger)
             k   == Len(was.rows)
  <2>7. ASSUME was.version = version
        PROVE  /\ end = was.total => was.rows \o page = Sorted(ledger)
               /\ end # was.total =>
                    /\ was.total = Len(ledger) /\ Len(was.rows \o page) \in 0..Len(ledger) - 1
                    /\ was.rows \o page = SubSeq(Sorted(ledger), 1, Len(was.rows \o page))
    <3>1. was.total = Len(all) /\ k \in 0..Len(all) - 1 /\ was.rows = SubSeq(all, 1, k)
          /\ was.total = Len(ledger)
      BY <2>1, <2>3, <2>6, <2>7 DEF ReadsTruly
    <3>2. end = Min({Len(all), k + PageSize}) /\ page = SubSeq(all, k + 1, end)
      BY <3>1
    <3>5. all \in Seq(U)
      BY <2>6
    <3> HIDE DEF all, k, end, page, was
    <3>3. /\ end \in k + 1..Len(all) /\ was.rows \o page = SubSeq(all, 1, end)
          /\ Len(was.rows \o page) = end
          /\ end = Len(all) => was.rows \o page = all
      <4>1. PageAfter(all, k, PageSize, was.rows, end, page)
        BY <2>5, <3>1, <3>2 DEF PageAfter
      <4>2. ReadTo(all, k, end, was.rows \o page)
        BY <3>5, <4>1, NextPage
      <4> QED BY <4>2 DEF ReadTo
    <3>4. end # Len(all) => end \in 0..Len(all) - 1
      BY <1>0, <3>1, <3>3
    <3> QED BY <3>1, <3>3, <3>4 DEF all
  <2> HIDE DEF read, page, end, was
  <2>8. CASE reader = NoReader
    <3>1. ReadsTruly(NoReader) /\ NoReader.phase = "idle" /\ NoReader.version = 0
          /\ NoReader.total = 0 /\ NoReader.rows = <<>>
          /\ NoReader = [phase |-> "idle", version |-> 0, total |-> 0, rows |-> <<>>]
      BY DEF NoReader, ReadsTruly
    <3> HIDE DEF reader
    <3> QED BY <1>5, <2>1, <2>8, <3>1
  <2>9. CASE reader = read
    <3>1. ReadsTruly(read)
      BY <2>4, <2>7 DEF ReadsTruly
    <3>2. was.version \in Nat /\ was.total \in Nat
      BY <2>2
    <3> HIDE DEF reader
    <3> QED BY <1>5, <2>1, <2>4, <2>9, <3>1, <3>2
  <2> QED BY <2>8, <2>9
<1>9. CASE UNCHANGED vars
  BY <1>1, <1>9 DEF vars
<1>10. ASSUME NEW p \in Procs, NEW call, Begin(p, call) PROVE ReadsInv'
  BY <1>1, <1>10 DEF Begin
<1> QED BY <1>1, <1>2, <1>3, <1>6, <1>7, <1>8, <1>9, <1>10, LedgerSteps

-----------------------------------------------------------------------------
(* Starts are never used twice.                                             *)

LEMMA MomentsStep == LedgerTypeOK /\ ReadsInv /\ Moments /\ [Next]_vars => Moments'
<1> SUFFICES ASSUME LedgerTypeOK, ReadsInv, Moments, [Next]_vars PROVE Moments'
  OBVIOUS
<1>0. ledger \in Seq(RowType) /\ Len(ledger) \in Nat /\ version \in Nat /\ clock \in Nat
  BY DEF LedgerTypeOK
<1>a. inflight \in [Procs -> {Idle} \cup AppendCall \cup ReverseCall \cup CompleteCall]
  BY DEF LedgerTypeOK
<1>1. ASSUME NEW p \in Procs, NEW call \in AppendCall \cup ReverseCall \cup CompleteCall,
             Begin(p, call), call.start = clock + 1
      PROVE  Moments'
  <2>1. /\ UNCHANGED <<ledger, version, readers>> /\ clock' = clock + 1
        /\ \A q \in Procs : inflight'[q] = IF q = p THEN call ELSE inflight[q]
    BY <1>a, <1>1 DEF Begin
  <2>2. clock + 1 \in 0..clock' /\ \A n \in 0..clock : n \in 0..clock' /\ n # clock + 1
    BY <1>0, <2>1
  <2>3. clock + 1 \in 1..clock' /\ \A n \in 1..clock : n \in 1..clock' /\ n \in 0..clock
    BY <1>0, <2>1
  <2>4. /\ version' \in 0..clock'
        /\ \A r \in Readers : readers'[r].version \in 0..clock'
        /\ \A i \in DOMAIN ledger' : ledger'[i].createdAt \in 0..clock'
    BY <2>1, <2>2 DEF Moments
  <2>5. ASSUME NEW q \in Procs, inflight'[q] # Idle
        PROVE  /\ inflight'[q].start \in 1..clock' /\ inflight'[q].start # version'
               /\ \A s \in Procs :
                    inflight'[s] # Idle /\ inflight'[s].start = inflight'[q].start => s = q
               /\ \A r \in Readers : readers'[r].version # inflight'[q].start
               /\ \A i \in DOMAIN ledger' : ledger'[i].createdAt # inflight'[q].start
    <3>1. CASE q = p
      <4>1. inflight'[q].start = clock + 1
        BY <1>1, <2>1, <3>1
      <4>2. \A s \in Procs : s # p /\ inflight'[s] # Idle => inflight'[s].start # clock + 1
        BY <2>1, <2>2 DEF Moments
      <4> QED BY <2>1, <2>2, <2>3, <3>1, <4>1, <4>2 DEF Moments
    <3>2. CASE q # p
      <4>1. inflight'[q] = inflight[q] /\ inflight[q] # Idle
        BY <2>1, <2>5, <3>2
      <4>2. inflight'[q].start # inflight'[p].start
        BY <1>1, <2>1, <2>2, <4>1 DEF Moments
      <4> QED BY <2>1, <2>2, <4>1, <4>2 DEF Moments
    <3> QED BY <3>1, <3>2
  <2> QED BY <2>4, <2>5 DEF Moments
\* A call that ends takes its start along.
<1>2. ASSUME NEW p \in Procs, inflight' = [inflight EXCEPT ![p] = Idle]
      PROVE  \A q \in Procs : inflight'[q] # Idle =>
               q # p /\ inflight'[q] = inflight[q]
  BY <1>a, <1>2
<1>3. ASSUME NEW p \in Procs, inflight' = [inflight EXCEPT ![p] = Idle],
             UNCHANGED <<clock, ledger, version, readers>>
      PROVE  Moments'
  <2>1. \A q \in Procs : inflight'[q] # Idle => inflight'[q] = inflight[q]
    BY <1>2, <1>3
  <2> QED BY <1>3, <2>1 DEF Moments
<1>4. ASSUME NEW p \in Procs, NEW new \in Seq(RowType), Commits(p, new) PROVE Moments'
  <2> DEFINE start == inflight[p].start
  <2>1. /\ inflight[p] # Idle /\ inflight' = [inflight EXCEPT ![p] = Idle]
        /\ version' = start /\ UNCHANGED <<clock, readers>>
        /\ ledger' = ledger \o new /\ \A n \in DOMAIN new : new[n].createdAt = start
    BY <1>4 DEF Commits
  <2>2. \A q \in Procs : inflight'[q] # Idle =>
          inflight'[q] = inflight[q] /\ inflight[q] # Idle /\ inflight[q].start # start
    BY <1>2, <2>1 DEF Moments
  <2>3. \A i \in DOMAIN ledger' :
          \/ i \in DOMAIN ledger /\ ledger'[i] = ledger[i]
          \/ ledger'[i].createdAt = start
    BY <1>0, <2>1, PrefixOfConcat
  <2>4. start \in 0..clock /\ start \in 1..clock
    BY <1>0, <2>1 DEF Moments
  <2> HIDE DEF start
  <2>5. /\ version' \in 0..clock'
        /\ \A r \in Readers : readers'[r].version \in 0..clock'
        /\ \A i \in DOMAIN ledger' : ledger'[i].createdAt \in 0..clock'
    BY <2>1, <2>3, <2>4 DEF Moments
  <2>6. ASSUME NEW q \in Procs, inflight'[q] # Idle
        PROVE  /\ inflight'[q].start \in 1..clock' /\ inflight'[q].start # version'
               /\ \A s \in Procs :
                    inflight'[s] # Idle /\ inflight'[s].start = inflight'[q].start => s = q
               /\ \A r \in Readers : readers'[r].version # inflight'[q].start
               /\ \A i \in DOMAIN ledger' : ledger'[i].createdAt # inflight'[q].start
    BY <2>1, <2>2, <2>3, <2>6 DEF Moments
  <2> QED BY <2>5, <2>6 DEF Moments
<1>5. ASSUME SetStatus PROVE Moments'
  <2>1. UNCHANGED <<ledger, inflight, readers>> /\ clock' = clock + 1 /\ version' = clock + 1
    BY <1>5 DEF SetStatus
  <2>2. clock + 1 \in 0..clock' /\ \A n \in 0..clock : n \in 0..clock' /\ n # clock + 1
    BY <1>0, <2>1
  <2>3. clock + 1 \in 1..clock' /\ \A n \in 1..clock : n \in 1..clock' /\ n \in 0..clock
    BY <1>0, <2>1
  <2> QED BY <2>1, <2>2, <2>3 DEF Moments
<1>6. ASSUME NEW r \in Readers, ReadPortfolio(r) \/ ReadCount(r) \/ ReadPage(r) PROVE Moments'
  <2>1. UNCHANGED <<clock, ledger, version, inflight>>
    BY <1>6 DEF ReadPortfolio, ReadCount, ReadPage
  <2>2. PICK S : ReadersAre(S)
    BY DEF ReadsInv
  <2>3. \A q \in Readers : readers'[q].version \in {readers[q].version, version, 0}
    <3>1. CASE ReadPortfolio(r)
      BY <2>2, <3>1 DEF ReadPortfolio, ReadersAre
    <3>2. CASE ReadCount(r)
      BY <2>2, <3>2 DEF ReadCount, ReadersAre
    <3>3. CASE ReadPage(r)
      <4>1. NoReader.version = 0
        BY DEF NoReader
      <4> DEFINE reader == readers[r]
                 end    == Min({reader.total, Len(reader.rows) + PageSize})
                 page   == SubSeq(Sorted(ledger), Len(reader.rows) + 1, end)
                 next   == IF Len(page) # end - Len(reader.rows) THEN NoReader
                           ELSE [phase |-> IF end = reader.total THEN "done" ELSE "pages",
                                 version |-> reader.version, total |-> reader.total,
                                 rows |-> reader.rows \o page]
      <4>2. readers' = [readers EXCEPT ![r] = next]
        BY <3>3 DEF ReadPage
      <4>3. next.version \in {reader.version, 0}
        BY <4>1
      <4> HIDE DEF next
      <4> QED BY <2>2, <4>2, <4>3 DEF ReadersAre
    <3> QED BY <1>6, <3>1, <3>2, <3>3
  <2>4. \A p \in Procs : inflight[p] # Idle => inflight[p].start # 0
    BY DEF Moments
  <2>5. \A q \in Readers : readers'[q].version \in 0..clock'
    <3>1. 0 \in 0..clock /\ version \in 0..clock /\ \A q \in Readers : readers[q].version \in 0..clock
      BY <1>0 DEF Moments
    <3> QED BY <2>1, <2>3, <3>1
  <2>6. \A p \in Procs : inflight'[p] # Idle =>
          \A q \in Readers : readers'[q].version # inflight'[p].start
    <3>1. \A p \in Procs : inflight[p] # Idle =>
            /\ inflight[p].start # version
            /\ \A q \in Readers : readers[q].version # inflight[p].start
      BY DEF Moments
    <3> QED BY <2>1, <2>3, <2>4, <3>1
  <2> QED BY <2>1, <2>5, <2>6 DEF Moments
<1>7. CASE UNCHANGED vars
  BY <1>7 DEF vars, Moments
<1> QED BY <1>1, <1>3, <1>4, <1>5, <1>6, <1>7, LedgerSteps

LEMMA MomentsStart == Init => Moments /\ ReadsInv
<1> SUFFICES ASSUME Init PROVE Moments /\ ReadsInv
  OBVIOUS
<1>1. ReadersAre({<<>>})
  BY DEF Init, ReadersAre, NoReader
<1>2. \A r \in Readers : readers[r].version = 0 /\ ReadsTruly(readers[r])
  BY DEF Init, NoReader, ReadsTruly
<1>3. clock = 0 /\ version = 0 /\ ledger = <<>> /\ \A p \in Procs : inflight[p] = Idle
  BY DEF Init
<1> QED BY <1>1, <1>2, <1>3 DEF Moments, ReadsInv

\* A summary whose version is still that of the portfolio when it is used was read
\* from exactly the rows of that version, whatever was committed while it was read:
\* a version is the start of the transaction that wrote it, and no start comes twice.
THEOREM FreshReadIsExactAlways == Spec => []FreshReadIsExact
<1>1. ReadsInv => FreshReadIsExact
  BY DEF ReadsInv, ReadsTruly, FreshReadIsExact
<1> QED BY <1>1, MomentsStart, MomentsStep, ReadsStep, TypeCorrect, PTL DEF Spec

-----------------------------------------------------------------------------
(* What the rows up to one of them add up to.                               *)

Through(rows, i) == {j \in ActiveIn(rows) : j <= i}

Cashes(rows) == [i \in DOMAIN rows |-> CashEffect(rows[i])]
Quantities(rows, symbol) == [i \in DOMAIN rows |-> QuantityEffect(rows[i], symbol)]

LEMMA RowFacts ==
  ASSUME NEW rows \in Seq(RowType)
  PROVE  /\ IsFiniteSet(ActiveIn(rows)) /\ \A i \in Nat : IsFiniteSet(Through(rows, i))
         /\ \A i \in ActiveIn(rows) : i \in 1..Len(rows) /\ i \in DOMAIN rows /\ i \in Nat
         /\ \A i \in DOMAIN rows : Cashes(rows)[i] \in Int
         /\ \A s : \A i \in DOMAIN rows : Quantities(rows, s)[i] \in Int
         /\ Len(rows) \in Nat /\ DOMAIN rows = 1..Len(rows)
         /\ \A i \in DOMAIN rows : /\ rows[i] \in RowType /\ rows[i].qty \in Nat /\ rows[i].cash \in Int
                                   /\ rows[i].id \in Nat /\ rows[i].kind \in Kinds \cup {"reversal"}
                                   /\ rows[i].tradeAt \in Nat /\ rows[i].createdAt \in Nat
<1>1. Len(rows) \in Nat /\ DOMAIN rows = 1..Len(rows)
  OBVIOUS
<1>2. ActiveIn(rows) \subseteq 1..Len(rows) /\ IsFiniteSet(1..Len(rows))
  BY <1>1, FS_Interval DEF ActiveIn
<1>3. IsFiniteSet(ActiveIn(rows)) /\ \A i \in Nat : IsFiniteSet(Through(rows, i))
  <2>1. \A i \in Nat : Through(rows, i) \subseteq 1..Len(rows)
    BY <1>2 DEF Through
  <2> QED BY <1>2, <2>1, FS_Subset
<1>4. \A i \in DOMAIN rows : /\ rows[i] \in RowType /\ rows[i].qty \in Nat /\ rows[i].cash \in Int
                             /\ rows[i].id \in Nat /\ rows[i].kind \in Kinds \cup {"reversal"}
                             /\ rows[i].tradeAt \in Nat /\ rows[i].createdAt \in Nat
  <2>1. \A i \in DOMAIN rows : rows[i] \in RowType
    OBVIOUS
  <2> QED BY <2>1 DEF RowType
<1>5. \A i \in DOMAIN rows : Cashes(rows)[i] \in Int
  <2>1. \A i \in DOMAIN rows : -rows[i].cash \in Int
    BY <1>4
  <2> QED BY <1>4, <2>1 DEF Cashes, CashEffect
<1>6. \A s : \A i \in DOMAIN rows : Quantities(rows, s)[i] \in Int
  <2>1. \A i \in DOMAIN rows : rows[i].qty \in Int /\ -rows[i].qty \in Int
    BY <1>4
  <2> QED BY <2>1 DEF Quantities, QuantityEffect
<1> QED BY <1>1, <1>2, <1>3, <1>4, <1>5, <1>6

\* Rows without reversals, numbered after those before them, all become active.
LEMMA AllBecomeActive ==
  ASSUME NEW rows \in Seq(RowType), NEW new \in Seq(RowType), RowsOK(rows),
         \A n \in DOMAIN new : /\ new[n].kind # "reversal" /\ new[n].reversalOf = NoRow
                               /\ new[n].id > Len(rows)
  PROVE  /\ \A i \in DOMAIN rows : i \in ActiveIn(rows \o new) <=> i \in ActiveIn(rows)
         /\ \A n \in DOMAIN new : Len(rows) + n \in ActiveIn(rows \o new)
<1> DEFINE all == rows \o new
<1>1. /\ all \in Seq(RowType) /\ Len(all) = Len(rows) + Len(new)
      /\ \A i \in DOMAIN rows : i \in DOMAIN all /\ all[i] = rows[i]
      /\ \A n \in DOMAIN new : Len(rows) + n \in DOMAIN all /\ all[Len(rows) + n] = new[n]
      /\ \A i \in DOMAIN all : i \in DOMAIN rows \/ \E n \in DOMAIN new : i = Len(rows) + n
  BY PrefixOfConcat
<1> HIDE DEF all
<1>2. \A n \in DOMAIN new : new[n].id \in Nat /\ new[n].id # NoRow
  BY RowFacts DEF NoRow
<1>3. \A i \in DOMAIN rows : rows[i].id \in Nat /\ rows[i].id # NoRow
  BY RowFacts DEF NoRow
<1>4. \A i \in DOMAIN all : all[i].reversalOf = NoRow \/
        \E j \in DOMAIN rows : i = j /\ all[i].reversalOf \in 1..Len(rows)
  BY <1>1 DEF RowsOK
<1>5. ASSUME NEW i \in DOMAIN rows PROVE i \in ActiveIn(all) <=> i \in ActiveIn(rows)
  <2>1. i \in ActiveIn(all) => i \in ActiveIn(rows)
    BY <1>1 DEF ActiveIn, IsActive
  <2>2. ASSUME i \in ActiveIn(rows) PROVE i \in ActiveIn(all)
    <3>1. \A n \in DOMAIN new : new[n].reversalOf # rows[i].id
      BY <1>3
    <3> QED BY <2>2, <3>1, StaysActive DEF all
  <2> QED BY <2>1, <2>2
<1>6. ASSUME NEW n \in DOMAIN new PROVE Len(rows) + n \in ActiveIn(all)
  <2>1. \A j \in DOMAIN all : all[j].reversalOf # new[n].id
    <3>1. Len(rows) \in Nat /\ new[n].id \in Nat /\ new[n].id > Len(rows)
      BY <1>2, RowFacts
    <3> QED BY <1>2, <1>4, <3>1
  <2> QED BY <1>1, <2>1 DEF ActiveIn, IsActive
<1> QED BY <1>5, <1>6 DEF all

\* The rows a batch is checked against are those up to the one that is added.
LEMMA BeforeOne ==
  ASSUME NEW rows \in Seq(RowType), NEW new \in Seq(RowType), RowsOK(rows),
         \A n \in DOMAIN new : /\ new[n].kind # "reversal" /\ new[n].reversalOf = NoRow
                               /\ new[n].id > Len(rows),
         NEW n \in DOMAIN new
  PROVE  LET all == rows \o new
             pre == rows \o SubSeq(new, 1, n - 1)
         IN  /\ pre \in Seq(RowType) /\ \A k \in DOMAIN pre : k \in DOMAIN all /\ pre[k] = all[k]
             /\ Len(rows) + n \in DOMAIN all /\ all[Len(rows) + n] = new[n]
             /\ Len(rows) + n \notin ActiveIn(pre)
             /\ Through(all, Len(rows) + n) = ActiveIn(pre) \cup {Len(rows) + n}
<1> DEFINE part == SubSeq(new, 1, n - 1)
           all  == rows \o new
           pre  == rows \o part
<1>1. Len(rows) \in Nat /\ Len(new) \in Nat /\ n \in 1..Len(new) /\ DOMAIN new = 1..Len(new)
      /\ DOMAIN rows = 1..Len(rows)
  OBVIOUS
<1>2. /\ part \in Seq(RowType) /\ Len(part) = n - 1 /\ DOMAIN part = 1..(n - 1)
      /\ \A k \in 1..(n - 1) : part[k] = new[k] /\ k \in DOMAIN new
  BY <1>1
<1>3. /\ \A i \in DOMAIN rows : i \in ActiveIn(all) <=> i \in ActiveIn(rows)
      /\ \A k \in DOMAIN new : Len(rows) + k \in ActiveIn(all)
  BY AllBecomeActive
<1>4. /\ all \in Seq(RowType) /\ Len(all) = Len(rows) + Len(new)
      /\ \A i \in DOMAIN rows : i \in DOMAIN all /\ all[i] = rows[i]
      /\ \A k \in DOMAIN new : Len(rows) + k \in DOMAIN all /\ all[Len(rows) + k] = new[k]
      /\ \A i \in DOMAIN all : i \in DOMAIN rows \/ \E k \in DOMAIN new : i = Len(rows) + k
  BY PrefixOfConcat
<1> HIDE DEF part, all
<1>5. \A k \in DOMAIN part : /\ part[k].kind # "reversal" /\ part[k].reversalOf = NoRow
                             /\ part[k].id > Len(rows)
  BY <1>2
<1>6. /\ \A i \in DOMAIN rows : i \in ActiveIn(pre) <=> i \in ActiveIn(rows)
      /\ \A k \in DOMAIN part : Len(rows) + k \in ActiveIn(pre)
  BY <1>2, <1>5, AllBecomeActive
<1>7. /\ pre \in Seq(RowType) /\ Len(pre) = Len(rows) + Len(part)
      /\ \A i \in DOMAIN rows : i \in DOMAIN pre /\ pre[i] = rows[i]
      /\ \A k \in DOMAIN part : Len(rows) + k \in DOMAIN pre /\ pre[Len(rows) + k] = part[k]
      /\ \A i \in DOMAIN pre : i \in DOMAIN rows \/ \E k \in DOMAIN part : i = Len(rows) + k
  <2>1. part \in Seq(RowType)
    BY <1>2
  <2> QED BY <2>1, PrefixOfConcat
<1> HIDE DEF pre
<1>8. \A k \in DOMAIN pre : k \in DOMAIN all /\ pre[k] = all[k]
  BY <1>2, <1>4, <1>7
<1>9. DOMAIN pre = 1..(Len(rows) + n - 1) /\ DOMAIN all = 1..(Len(rows) + Len(new))
  <2>1. DOMAIN pre = 1..Len(pre) /\ DOMAIN all = 1..Len(all)
    BY <1>4, <1>7
  <2> QED BY <1>1, <1>2, <1>4, <1>7, <2>1
<1>10. ASSUME NEW i \in DOMAIN pre PROVE i \in ActiveIn(all) <=> i \in ActiveIn(pre)
  <2>1. CASE i \in DOMAIN rows
    BY <1>3, <1>6, <2>1
  <2>2. CASE i \notin DOMAIN rows
    BY <1>2, <1>3, <1>6, <1>7, <2>2
  <2> QED BY <2>1, <2>2
<1>11. ActiveIn(pre) \subseteq DOMAIN pre /\ ActiveIn(all) \subseteq DOMAIN all
  BY DEF ActiveIn
<1>12. Through(all, Len(rows) + n) = ActiveIn(pre) \cup {Len(rows) + n}
  <2>1. \A i \in DOMAIN all : i <= Len(rows) + n <=> i \in DOMAIN pre \/ i = Len(rows) + n
    BY <1>1, <1>9
  <2>2. DOMAIN pre \subseteq DOMAIN all /\ Len(rows) + n \in DOMAIN all
    BY <1>4, <1>8
  <2>3. Len(rows) + n \in ActiveIn(all)
    BY <1>3
  <2> QED BY <1>10, <1>11, <2>1, <2>2, <2>3 DEF Through
<1>13. Len(rows) + n \notin ActiveIn(pre)
  BY <1>1, <1>9, <1>11
<1> QED BY <1>4, <1>7, <1>8, <1>12, <1>13 DEF part, all, pre

\* What the rows before one of a batch add up to, is what was checked of them.
LEMMA CheckedBefore ==
  ASSUME NEW rows \in Seq(RowType), NEW new \in Seq(RowType), RowsOK(rows),
         NEW start, Appends(rows, start, new), NEW n \in DOMAIN new
  PROVE  LET all == rows \o new
             i   == Len(rows) + n
         IN  /\ \E sum \in Int :
                  /\ SumFunctionOnSet(Cashes(all), Through(all, i)) = sum + CashEffect(new[n])
                  /\ new[n].kind \in {"buy", "withdrawal", "fee"} => sum >= new[n].cash
                  /\ CurrentCash(rows \o SubSeq(new, 1, n - 1)) = sum
             /\ \A s : \E sum \in Int :
                  /\ SumFunctionOnSet(Quantities(all, s), Through(all, i)) = sum + QuantityEffect(new[n], s)
                  /\ new[n].kind = "sell" /\ new[n].symbol = s => sum >= new[n].qty
                  /\ CurrentQuantity(rows \o SubSeq(new, 1, n - 1), s) = sum
<1> DEFINE all == rows \o new
           pre == rows \o SubSeq(new, 1, n - 1)
           i   == Len(rows) + n
<1>1. \A k \in DOMAIN new : /\ new[k].kind # "reversal" /\ new[k].reversalOf = NoRow
                            /\ new[k].id > Len(rows)
  BY DEF Appends
<1>2. Accepts(pre, start, new[n])
  BY DEF Appends
<1>3. /\ pre \in Seq(RowType) /\ \A k \in DOMAIN pre : k \in DOMAIN all /\ pre[k] = all[k]
      /\ i \in DOMAIN all /\ all[i] = new[n]
      /\ i \notin ActiveIn(pre)
      /\ Through(all, i) = ActiveIn(pre) \cup {i}
  BY <1>1, BeforeOne
<1>4. all \in Seq(RowType)
  OBVIOUS
<1> HIDE DEF all, pre, i
<1>5. IsFiniteSet(ActiveIn(pre)) /\ ActiveIn(pre) \subseteq DOMAIN pre
  BY <1>3, RowFacts
<1>6. IsFiniteSet(Through(all, i)) /\ Through(all, i) \subseteq DOMAIN all /\ i \in Through(all, i)
      /\ Through(all, i) \ {i} = ActiveIn(pre)
  <2>1. IsFiniteSet(ActiveIn(pre) \cup {i})
    BY <1>5, FS_AddElement
  <2> QED BY <1>3, <1>5, <2>1
\* The sum of a weight of rows: over all rows up to the new one, and over those before it.
<1>7. ASSUME NEW w, NEW v, \A k \in DOMAIN all : w[k] \in Int,
             \A k \in DOMAIN pre : v[k] = w[k]
      PROVE  /\ SumFunctionOnSet(v, ActiveIn(pre)) \in Int
             /\ SumFunctionOnSet(w, Through(all, i)) = SumFunctionOnSet(v, ActiveIn(pre)) + w[i]
  <2>1. SumFunctionOnSet(w, Through(all, i)) = w[i] + SumFunctionOnSet(w, ActiveIn(pre))
    <3>1. \A x \in Through(all, i) : w[x] \in Int
      BY <1>6, <1>7
    <3>2. SumFunctionOnSet(w, Through(all, i)) = w[i] + SumFunctionOnSet(w, Through(all, i) \ {i})
      BY <1>6, <3>1, SumOfOneMore
    <3> QED BY <1>6, <3>2
  <2>2. \A x \in ActiveIn(pre) : w[x] \in Int /\ v[x] = w[x] /\ v[x] \in Int
    BY <1>3, <1>5, <1>7
  <2>3. SumFunctionOnSet(v, ActiveIn(pre)) = SumFunctionOnSet(w, ActiveIn(pre))
    BY <1>5, <2>2, SumsAgree
  <2>4. SumFunctionOnSet(v, ActiveIn(pre)) \in Int
    BY <1>5, <2>2, SumOfOneMore
  <2>5. w[i] \in Int
    BY <1>3, <1>7
  <2> QED BY <2>1, <2>3, <2>4, <2>5
<1>8. /\ SumFunctionOnSet(Cashes(pre), ActiveIn(pre)) \in Int
      /\ SumFunctionOnSet(Cashes(all), Through(all, i)) =
           SumFunctionOnSet(Cashes(pre), ActiveIn(pre)) + CashEffect(new[n])
  <2>1. \A k \in DOMAIN all : Cashes(all)[k] \in Int
    BY <1>4, RowFacts
  <2>2. \A k \in DOMAIN pre : Cashes(pre)[k] = Cashes(all)[k]
    BY <1>3 DEF Cashes
  <2>3. Cashes(all)[i] = CashEffect(new[n])
    BY <1>3 DEF Cashes
  <2> QED BY <1>7, <2>1, <2>2, <2>3
<1>9. ASSUME NEW s
      PROVE  /\ SumFunctionOnSet(Quantities(pre, s), ActiveIn(pre)) \in Int
             /\ SumFunctionOnSet(Quantities(all, s), Through(all, i)) =
                  SumFunctionOnSet(Quantities(pre, s), ActiveIn(pre)) + QuantityEffect(new[n], s)
  <2>1. \A k \in DOMAIN all : Quantities(all, s)[k] \in Int
    BY <1>4, RowFacts
  <2>2. \A k \in DOMAIN pre : Quantities(pre, s)[k] = Quantities(all, s)[k]
    BY <1>3 DEF Quantities
  <2>3. Quantities(all, s)[i] = QuantityEffect(new[n], s)
    BY <1>3 DEF Quantities
  <2> QED BY <1>7, <2>1, <2>2, <2>3
<1>10. CurrentCash(pre) = SumFunctionOnSet(Cashes(pre), ActiveIn(pre))
  BY DEF CurrentCash, CashOver, Cashes
<1>11. \A s : CurrentQuantity(pre, s) = SumFunctionOnSet(Quantities(pre, s), ActiveIn(pre))
  BY DEF CurrentQuantity, QuantityOver, Quantities
<1>12. /\ new[n].kind \in {"buy", "withdrawal", "fee"} => CurrentCash(pre) >= new[n].cash
       /\ \A s : new[n].kind = "sell" /\ new[n].symbol = s => CurrentQuantity(pre, s) >= new[n].qty
  BY <1>2 DEF Accepts
<1>13. \E sum \in Int :
         /\ SumFunctionOnSet(Cashes(all), Through(all, i)) = sum + CashEffect(new[n])
         /\ new[n].kind \in {"buy", "withdrawal", "fee"} => sum >= new[n].cash
         /\ CurrentCash(pre) = sum
  BY <1>8, <1>10, <1>12
<1>14. \A s : \E sum \in Int :
         /\ SumFunctionOnSet(Quantities(all, s), Through(all, i)) = sum + QuantityEffect(new[n], s)
         /\ new[n].kind = "sell" /\ new[n].symbol = s => sum >= new[n].qty
         /\ CurrentQuantity(pre, s) = sum
  BY <1>9, <1>11, <1>12
<1> QED BY <1>13, <1>14 DEF all, pre, i

\* Before a row there is what there was before the batch.
LEMMA SameBefore ==
  ASSUME NEW rows \in Seq(RowType), NEW new \in Seq(RowType), RowsOK(rows),
         \A n \in DOMAIN new : /\ new[n].kind # "reversal" /\ new[n].reversalOf = NoRow
                               /\ new[n].id > Len(rows),
         NEW i \in 0..Len(rows)
  PROVE  /\ Through(rows \o new, i) = Through(rows, i)
         /\ SumFunctionOnSet(Cashes(rows \o new), Through(rows \o new, i)) =
              SumFunctionOnSet(Cashes(rows), Through(rows, i))
         /\ \A s : SumFunctionOnSet(Quantities(rows \o new, s), Through(rows \o new, i)) =
                     SumFunctionOnSet(Quantities(rows, s), Through(rows, i))
<1> DEFINE all == rows \o new
<1>1. /\ all \in Seq(RowType) /\ Len(all) = Len(rows) + Len(new)
      /\ \A k \in DOMAIN rows : k \in DOMAIN all /\ all[k] = rows[k]
  BY PrefixOfConcat
<1>2. \A k \in DOMAIN rows : k \in ActiveIn(all) <=> k \in ActiveIn(rows)
  BY AllBecomeActive
<1> HIDE DEF all
<1>3. Len(rows) \in Nat /\ DOMAIN rows = 1..Len(rows) /\ i \in Nat
  OBVIOUS
<1>4. DOMAIN all = 1..Len(all)
  BY <1>1
<1>5. Through(all, i) = Through(rows, i)
  <2>1. \A k \in DOMAIN all : k <= i => k \in DOMAIN rows
    BY <1>3, <1>4
  <2> QED BY <1>2, <2>1 DEF Through, ActiveIn
<1>6. IsFiniteSet(Through(rows, i)) /\ Through(rows, i) \subseteq DOMAIN rows
  BY <1>3, RowFacts DEF Through
<1>7. \A k \in Through(rows, i) : Cashes(rows)[k] \in Int /\ Cashes(all)[k] = Cashes(rows)[k]
  <2>1. \A k \in DOMAIN rows : Cashes(all)[k] = Cashes(rows)[k]
    BY <1>1 DEF Cashes
  <2> QED BY <1>6, <2>1, RowFacts
<1>8. ASSUME NEW s
      PROVE  \A k \in Through(rows, i) :
               Quantities(rows, s)[k] \in Int /\ Quantities(all, s)[k] = Quantities(rows, s)[k]
  <2>1. \A k \in DOMAIN rows : Quantities(all, s)[k] = Quantities(rows, s)[k]
    BY <1>1 DEF Quantities
  <2> QED BY <1>6, <2>1, RowFacts
<1>9. SumFunctionOnSet(Cashes(all), Through(rows, i)) = SumFunctionOnSet(Cashes(rows), Through(rows, i))
  BY <1>6, <1>7, SumsAgree
<1>10. \A s : SumFunctionOnSet(Quantities(all, s), Through(rows, i)) =
                SumFunctionOnSet(Quantities(rows, s), Through(rows, i))
  BY <1>6, <1>8, SumsAgree
<1> QED BY <1>5, <1>9, <1>10 DEF all

-----------------------------------------------------------------------------
(* No sell exceeds what was there, and nothing falls below zero.            *)

\* Up to each sell, what was bought of its symbol covers what was sold.
Sold(rows) ==
  \A i \in ActiveIn(rows) :
    rows[i].kind = "sell"
      => SumFunctionOnSet(Quantities(rows, rows[i].symbol), Through(rows, i)) >= 0

\* The rows up to any one leave no negative position, and no negative balance if none cost more than it brought.
Solvent(rows) ==
  \A i \in 0..Len(rows) :
    /\ (\A k \in DOMAIN rows : rows[k].cash >= 0)
         => SumFunctionOnSet(Cashes(rows), Through(rows, i)) >= 0
    /\ \A s : SumFunctionOnSet(Quantities(rows, s), Through(rows, i)) >= 0

\* A transaction that sells writes no other row of the same symbol.
OneOfASymbol(rows) ==
  \A i, j \in DOMAIN rows :
    i # j /\ rows[i].createdAt = rows[j].createdAt /\ rows[i].kind = "sell" /\ rows[j].kind # "reversal"
      => rows[i].symbol # rows[j].symbol

LEMMA AfterReversal ==
  ASSUME NEW rows \in Seq(RowType), NEW new \in Seq(RowType), RowsOK(rows),
         Len(new) = 1, new[1].kind = "reversal",
         NEW t \in ActiveIn(rows), new[1].reversalOf = rows[t].id
  PROVE  /\ ActiveIn(rows \o new) = ActiveIn(rows) \ {t}
         /\ \A T \in SUBSET ActiveIn(rows) :
              /\ SumFunctionOnSet(Cashes(rows \o new), T) = SumFunctionOnSet(Cashes(rows), T)
              /\ \A s : SumFunctionOnSet(Quantities(rows \o new, s), T) =
                          SumFunctionOnSet(Quantities(rows, s), T)
<1>0. rows \in Seq(RowType) /\ new \in Seq(RowType)
  OBVIOUS
<1> DEFINE all == rows \o new
<1>1. /\ all \in Seq(RowType) /\ Len(all) = Len(rows) + Len(new)
      /\ \A i \in DOMAIN rows : i \in DOMAIN all /\ all[i] = rows[i]
      /\ \A n \in DOMAIN new : Len(rows) + n \in DOMAIN all /\ all[Len(rows) + n] = new[n]
      /\ \A i \in DOMAIN all : i \in DOMAIN rows \/ \E n \in DOMAIN new : i = Len(rows) + n
  BY ONLY <1>0, PrefixOfConcat
<1> HIDE DEF all
<1>2. DOMAIN new = {1} /\ 1 \in DOMAIN new
  OBVIOUS
<1>3. ActiveIn(rows) \subseteq DOMAIN rows
  BY DEF ActiveIn
<1>4. ASSUME NEW i \in ActiveIn(all) PROVE i \in ActiveIn(rows) \ {t}
  <2>1. i \in DOMAIN all /\ all[i].kind # "reversal" /\ \A j \in DOMAIN all : all[j].reversalOf # all[i].id
    BY <1>4 DEF ActiveIn, IsActive
  <2>2. i \in DOMAIN rows
    BY <1>1, <1>2, <2>1
  <2>3. i # t
    BY <1>1, <1>2, <1>3, <2>1
  <2> QED BY <1>1, <1>4, <2>2, <2>3, ActiveShrinks
<1>5. ASSUME NEW i \in ActiveIn(rows), i # t PROVE i \in ActiveIn(all)
  <2>1. \A n \in DOMAIN new : new[n].reversalOf # rows[i].id
    BY <1>2, <1>3, <1>5 DEF RowsOK
  <2> QED BY <2>1, StaysActive DEF all
<1>6. ASSUME NEW T \in SUBSET ActiveIn(rows)
      PROVE  /\ SumFunctionOnSet(Cashes(all), T) = SumFunctionOnSet(Cashes(rows), T)
             /\ \A s : SumFunctionOnSet(Quantities(all, s), T) = SumFunctionOnSet(Quantities(rows, s), T)
  <2>1. IsFiniteSet(T)
    BY RowFacts, FS_Subset
  <2>2. \A k \in T : Cashes(rows)[k] \in Int /\ Cashes(all)[k] = Cashes(rows)[k]
    <3>1. \A k \in DOMAIN rows : Cashes(all)[k] = Cashes(rows)[k]
      BY <1>1 DEF Cashes
    <3> QED BY <1>3, <3>1, RowFacts
  <2>3. ASSUME NEW s
        PROVE  \A k \in T : Quantities(rows, s)[k] \in Int /\ Quantities(all, s)[k] = Quantities(rows, s)[k]
    <3>1. \A k \in DOMAIN rows : Quantities(all, s)[k] = Quantities(rows, s)[k]
      BY <1>1 DEF Quantities
    <3> QED BY <1>3, <3>1, RowFacts
  <2>4. SumFunctionOnSet(Cashes(all), T) = SumFunctionOnSet(Cashes(rows), T)
    BY <2>1, <2>2, SumsAgree
  <2>5. \A s : SumFunctionOnSet(Quantities(all, s), T) = SumFunctionOnSet(Quantities(rows, s), T)
    BY <2>1, <2>3, SumsAgree
  <2> QED BY <2>4, <2>5
<1> QED BY <1>4, <1>5, <1>6 DEF all

LEMMA SoldAfterAppends ==
  ASSUME NEW rows \in Seq(RowType), NEW new \in Seq(RowType), RowsOK(rows),
         NEW start, Appends(rows, start, new), Sold(rows)
  PROVE  Sold(rows \o new)
<1> DEFINE all == rows \o new
<1>1. /\ all \in Seq(RowType)
      /\ \A k \in DOMAIN rows : k \in DOMAIN all /\ all[k] = rows[k]
      /\ \A n \in DOMAIN new : Len(rows) + n \in DOMAIN all /\ all[Len(rows) + n] = new[n]
      /\ \A k \in DOMAIN all : k \in DOMAIN rows \/ \E n \in DOMAIN new : k = Len(rows) + n
  BY PrefixOfConcat
<1>2. \A n \in DOMAIN new : /\ new[n].kind # "reversal" /\ new[n].reversalOf = NoRow
                            /\ new[n].id > Len(rows)
  BY DEF Appends
<1>3. \A k \in DOMAIN rows : k \in ActiveIn(all) <=> k \in ActiveIn(rows)
  BY <1>2, AllBecomeActive
<1>4. ASSUME NEW i \in ActiveIn(all), all[i].kind = "sell"
      PROVE  SumFunctionOnSet(Quantities(all, all[i].symbol), Through(all, i)) >= 0
  <2>1. i \in DOMAIN all
    BY DEF ActiveIn
  <2>2. CASE i \in DOMAIN rows
    <3>1. i \in ActiveIn(rows) /\ all[i] = rows[i]
      BY <1>1, <1>3, <2>2
    <3>2. i \in 0..Len(rows)
      BY <2>2
    <3>3. SumFunctionOnSet(Quantities(all, rows[i].symbol), Through(all, i)) =
            SumFunctionOnSet(Quantities(rows, rows[i].symbol), Through(rows, i))
      BY <1>2, <3>2, SameBefore
    <3> HIDE DEF all
    <3> QED BY <1>4, <3>1, <3>3 DEF Sold
  <2>3. CASE i \notin DOMAIN rows
    <3>1. PICK n \in DOMAIN new : i = Len(rows) + n
      BY <1>1, <2>1, <2>3
    <3>2. all[i] = new[n]
      BY <1>1, <3>1
    <3>3. \E sum \in Int :
            /\ SumFunctionOnSet(Quantities(all, new[n].symbol), Through(all, i)) =
                 sum + QuantityEffect(new[n], new[n].symbol)
            /\ new[n].kind = "sell" /\ new[n].symbol = new[n].symbol => sum >= new[n].qty
      BY <3>1, CheckedBefore
    <3> HIDE DEF all
    <3>4. QuantityEffect(new[n], new[n].symbol) = -new[n].qty
      BY <1>4, <3>2 DEF QuantityEffect
    <3>5. new[n].qty \in Nat
      BY RowFacts
    <3> QED BY <1>4, <3>2, <3>3, <3>4, <3>5
  <2> QED BY <2>2, <2>3
<1> HIDE DEF all
<1>5. Sold(all)
  BY <1>4 DEF Sold
<1> QED BY <1>5 DEF all

\* A reversal takes nothing a sell needed: of the sell's symbol and before it, it
\* would not have been the latest.
LEMMA SoldAfterReversal ==
  ASSUME NEW rows \in Seq(RowType), NEW new \in Seq(RowType), RowsOK(rows),
         Reverses(rows, new), Sold(rows), OneOfASymbol(rows),
         \A i, j \in DOMAIN rows : i < j => rows[i].createdAt <= rows[j].createdAt,
         \A i, j \in ActiveIn(rows) : i < j => rows[i].tradeAt <= rows[j].tradeAt
  PROVE  Sold(rows \o new)
<1> DEFINE all == rows \o new
<1>1. PICK t \in ActiveIn(rows) :
        /\ new[1].reversalOf = rows[t].id
        /\ \A j \in ActiveIn(rows) : ~ Precedes(rows[t], rows[j])
  BY DEF Reverses
<1>2. Len(new) = 1 /\ new[1].kind = "reversal"
  BY DEF Reverses
<1>3. /\ ActiveIn(all) = ActiveIn(rows) \ {t}
      /\ \A T \in SUBSET ActiveIn(rows) : \A s :
           SumFunctionOnSet(Quantities(all, s), T) = SumFunctionOnSet(Quantities(rows, s), T)
  BY <1>1, <1>2, AfterReversal
<1>4. \A k \in DOMAIN rows : all[k] = rows[k]
  BY PrefixOfConcat
<1> HIDE DEF all
<1>5. ASSUME NEW i \in ActiveIn(all), all[i].kind = "sell"
      PROVE  SumFunctionOnSet(Quantities(all, all[i].symbol), Through(all, i)) >= 0
  <2> DEFINE s == rows[i].symbol
             w == Quantities(rows, s)
             T == Through(rows, i)
  <2>1. i \in ActiveIn(rows) /\ i # t /\ i \in DOMAIN rows /\ t \in DOMAIN rows
    BY <1>3, <1>5 DEF ActiveIn
  <2>2. all[i] = rows[i] /\ rows[i].kind = "sell"
    BY <1>4, <1>5, <2>1
  <2>3. Through(all, i) = T \ {t} /\ T \in SUBSET ActiveIn(rows)
    BY <1>3 DEF Through
  <2>4. SumFunctionOnSet(Quantities(all, s), T \ {t}) = SumFunctionOnSet(w, T \ {t})
    BY <1>3, <2>3
  <2>5. SumFunctionOnSet(w, T) >= 0
    BY <2>1, <2>2 DEF Sold
  <2>6. /\ IsFiniteSet(T) /\ \A k \in DOMAIN rows : w[k] \in Int
        /\ ActiveIn(rows) \subseteq DOMAIN rows
        /\ i \in Nat /\ t \in Nat
        /\ rows[i].tradeAt \in Nat /\ rows[t].tradeAt \in Nat
        /\ rows[i].createdAt \in Nat /\ rows[t].createdAt \in Nat /\ rows[t].qty \in Nat
    BY <2>1, RowFacts
  <2>7. t \in T => w[t] <= 0
    <3> SUFFICES ASSUME t \in T, ~ (w[t] <= 0) PROVE FALSE
      OBVIOUS
    <3>1. w[t] = QuantityEffect(rows[t], s)
      BY <2>1 DEF Quantities
    <3>2. rows[t].kind = "buy" /\ rows[t].symbol = s
      <4>1. CASE rows[t].kind = "sell" /\ rows[t].symbol = s
        <5>1. w[t] = -rows[t].qty
          BY <3>1, <4>1 DEF QuantityEffect
        <5> QED BY <2>6, <5>1
      <4>2. CASE ~ (rows[t].kind = "sell" /\ rows[t].symbol = s) /\ ~ (rows[t].kind = "buy" /\ rows[t].symbol = s)
        <5>1. w[t] = 0
          BY <3>1, <4>2 DEF QuantityEffect
        <5> QED BY <5>1
      <4> QED BY <4>1, <4>2
    <3>3. t < i
      BY <2>1, <2>6 DEF Through
    <3>4. rows[t].createdAt # rows[i].createdAt
      BY <2>1, <2>2, <3>2 DEF OneOfASymbol
    <3>5. rows[t].createdAt <= rows[i].createdAt /\ rows[t].tradeAt <= rows[i].tradeAt
      BY <2>1, <3>3
    <3>6. Precedes(rows[t], rows[i])
      BY <2>6, <3>4, <3>5 DEF Precedes
    <3> QED BY <1>1, <2>1, <3>6
  <2> HIDE DEF w, T
  <2>8. SumFunctionOnSet(w, T \ {t}) >= 0
    <3>1. CASE t \notin T
      <4>1. T \ {t} = T
        BY <3>1
      <4> QED BY <2>5, <4>1
    <3>2. CASE t \in T
      <4>1. \A k \in T : w[k] \in Int
        BY <2>3, <2>6
      <4>2. SumFunctionOnSet(w, T) = w[t] + SumFunctionOnSet(w, T \ {t})
        BY <2>6, <3>2, <4>1, SumOfOneMore
      <4>3. IsFiniteSet(T \ {t}) /\ \A k \in T \ {t} : w[k] \in Int
        BY <2>6, <4>1, FS_Subset
      <4>4. SumFunctionOnSet(w, T \ {t}) \in Int
        BY <4>3, SumOfOneMore
      <4>5. w[t] \in Int
        BY <3>2, <4>1
      <4> QED BY <2>5, <2>7, <3>2, <4>2, <4>4, <4>5
    <3> QED BY <3>1, <3>2
  <2> QED BY <2>2, <2>3, <2>4, <2>8
<1>6. Sold(all)
  BY <1>5 DEF Sold
<1> QED BY <1>6 DEF all

LEMMA SolventAfterOne ==
  ASSUME NEW rows \in Seq(RowType), NEW new \in Seq(RowType), RowsOK(rows), Len(new) = 1,
         NEW start, Appends(rows, start, new), Solvent(rows)
  PROVE  Solvent(rows \o new)
<1> DEFINE all == rows \o new
           row == new[1]
           here == Len(rows) + 1
<1>0. rows \in Seq(RowType) /\ new \in Seq(RowType)
  OBVIOUS
<1>1. /\ all \in Seq(RowType) /\ Len(all) = Len(rows) + Len(new)
      /\ \A k \in DOMAIN rows : k \in DOMAIN all /\ all[k] = rows[k]
      /\ \A n \in DOMAIN new : Len(rows) + n \in DOMAIN all /\ all[Len(rows) + n] = new[n]
  BY ONLY <1>0, PrefixOfConcat
<1>2. 1 \in DOMAIN new /\ Len(rows) \in Nat
  OBVIOUS
<1>3. \A n \in DOMAIN new : /\ new[n].kind # "reversal" /\ new[n].reversalOf = NoRow
                            /\ new[n].id > Len(rows)
  BY DEF Appends
<1>4. rows \o SubSeq(new, 1, 1 - 1) = rows
  <2>1. SubSeq(new, 1, 1 - 1) = <<>>
    BY SubSeqEmpty
  <2>2. rows \o <<>> = rows
    OBVIOUS
  <2> QED BY <2>1, <2>2
<1>5. Through(rows, Len(rows)) = ActiveIn(rows) /\ Len(rows) \in 0..Len(rows)
  <2>1. \A k \in ActiveIn(rows) : k <= Len(rows)
    BY <1>2, RowFacts
  <2> QED BY <1>2, <2>1 DEF Through
<1>6. /\ CurrentCash(rows) = SumFunctionOnSet(Cashes(rows), Through(rows, Len(rows)))
      /\ \A s : CurrentQuantity(rows, s) = SumFunctionOnSet(Quantities(rows, s), Through(rows, Len(rows)))
  BY <1>5 DEF CurrentCash, CashOver, Cashes, CurrentQuantity, QuantityOver, Quantities
<1>7. row.kind \in Kinds /\ row.qty \in Nat /\ row.cash \in Int
  BY <1>2, <1>3, RowFacts
<1>8. /\ \E sum \in Int :
           /\ SumFunctionOnSet(Cashes(all), Through(all, here)) = sum + CashEffect(row)
           /\ row.kind \in {"buy", "withdrawal", "fee"} => sum >= row.cash
           /\ CurrentCash(rows \o SubSeq(new, 1, 1 - 1)) = sum
      /\ \A s : \E sum \in Int :
           /\ SumFunctionOnSet(Quantities(all, s), Through(all, here)) = sum + QuantityEffect(row, s)
           /\ row.kind = "sell" /\ row.symbol = s => sum >= row.qty
           /\ CurrentQuantity(rows \o SubSeq(new, 1, 1 - 1), s) = sum
  BY <1>2, CheckedBefore
<1> HIDE DEF all, row
<1>9. ASSUME \A k \in DOMAIN all : all[k].cash >= 0
      PROVE  SumFunctionOnSet(Cashes(all), Through(all, here)) >= 0
  <2>1. PICK sum \in Int :
           /\ SumFunctionOnSet(Cashes(all), Through(all, here)) = sum + CashEffect(row)
           /\ row.kind \in {"buy", "withdrawal", "fee"} => sum >= row.cash
           /\ CurrentCash(rows) = sum
    BY <1>4, <1>8
  <2>2. sum >= 0
    <3>1. \A k \in DOMAIN rows : rows[k].cash >= 0
      BY <1>1, <1>9
    <3> QED BY <1>5, <1>6, <2>1, <3>1 DEF Solvent
  <2>3. row.cash >= 0
    BY <1>1, <1>2, <1>9 DEF row
  <2>4. CASE row.kind \in {"buy", "withdrawal", "fee"}
    <3>1. CashEffect(row) = -row.cash
      BY <2>4 DEF CashEffect
    <3> QED BY <1>7, <2>1, <2>4, <3>1
  <2>5. CASE row.kind \in {"deposit", "dividend", "sell"}
    <3>1. CashEffect(row) = row.cash
      BY <2>5 DEF CashEffect
    <3> QED BY <1>7, <2>1, <2>2, <2>3, <3>1
  <2> QED BY <1>7, <2>4, <2>5 DEF Kinds
<1>10. ASSUME NEW s PROVE SumFunctionOnSet(Quantities(all, s), Through(all, here)) >= 0
  <2>1. PICK sum \in Int :
           /\ SumFunctionOnSet(Quantities(all, s), Through(all, here)) = sum + QuantityEffect(row, s)
           /\ row.kind = "sell" /\ row.symbol = s => sum >= row.qty
           /\ CurrentQuantity(rows, s) = sum
    BY <1>4, <1>8
  <2>2. sum >= 0
    BY <1>5, <1>6, <2>1 DEF Solvent
  <2>3. CASE row.kind = "sell" /\ row.symbol = s
    <3>1. QuantityEffect(row, s) = -row.qty
      BY <2>3 DEF QuantityEffect
    <3> QED BY <1>7, <2>1, <2>3, <3>1
  <2>4. CASE ~ (row.kind = "sell" /\ row.symbol = s)
    <3>1. QuantityEffect(row, s) \in {row.qty, 0}
      BY <2>4 DEF QuantityEffect
    <3> QED BY <1>7, <2>1, <2>2, <3>1
  <2> QED BY <2>3, <2>4
<1>11. ASSUME NEW i \in 0..Len(all)
       PROVE  /\ (\A k \in DOMAIN all : all[k].cash >= 0)
                   => SumFunctionOnSet(Cashes(all), Through(all, i)) >= 0
              /\ \A s : SumFunctionOnSet(Quantities(all, s), Through(all, i)) >= 0
  <2>1. CASE i \in 0..Len(rows)
    <3>1. /\ SumFunctionOnSet(Cashes(all), Through(all, i)) = SumFunctionOnSet(Cashes(rows), Through(rows, i))
          /\ \A s : SumFunctionOnSet(Quantities(all, s), Through(all, i)) =
                      SumFunctionOnSet(Quantities(rows, s), Through(rows, i))
      BY <1>3, <2>1, SameBefore DEF all
    <3>2. (\A k \in DOMAIN all : all[k].cash >= 0) => \A k \in DOMAIN rows : rows[k].cash >= 0
      BY <1>1
    <3> QED BY <2>1, <3>1, <3>2 DEF Solvent
  <2>2. CASE i = here
    BY <1>9, <1>10, <2>2
  <2>3. i \in 0..Len(rows) \/ i = here
    BY <1>1, <1>2
  <2> QED BY <2>1, <2>2, <2>3
<1>12. Solvent(all)
  BY <1>11 DEF Solvent
<1> QED BY <1>12 DEF all

LEMMA SolventAfterReversal ==
  ASSUME NEW rows \in Seq(RowType), NEW new \in Seq(RowType), RowsOK(rows), Solvent(rows),
         Reverses(rows, new),
         \A t \in ActiveIn(rows) :
           (\A j \in ActiveIn(rows) : ~ Precedes(rows[t], rows[j])) => \A j \in ActiveIn(rows) : j <= t
  PROVE  Solvent(rows \o new)
<1> DEFINE all == rows \o new
<1>1. PICK t \in ActiveIn(rows) :
        /\ new[1].reversalOf = rows[t].id
        /\ \A j \in ActiveIn(rows) : ~ Precedes(rows[t], rows[j])
  BY DEF Reverses
<1>2. Len(new) = 1 /\ new[1].kind = "reversal"
  BY DEF Reverses
<1>3. /\ ActiveIn(all) = ActiveIn(rows) \ {t}
      /\ \A T \in SUBSET ActiveIn(rows) :
           /\ SumFunctionOnSet(Cashes(all), T) = SumFunctionOnSet(Cashes(rows), T)
           /\ \A s : SumFunctionOnSet(Quantities(all, s), T) = SumFunctionOnSet(Quantities(rows, s), T)
  BY <1>1, <1>2, AfterReversal
<1>4. /\ \A k \in DOMAIN rows : k \in DOMAIN all /\ all[k] = rows[k]
      /\ Len(all) = Len(rows) + Len(new)
  BY PrefixOfConcat
<1> HIDE DEF all
<1>5. \A j \in ActiveIn(rows) : j <= t
  BY <1>1
<1>6. Len(rows) \in Nat /\ t \in 1..Len(rows) /\ t \in Nat /\ \A j \in ActiveIn(rows) : j \in Nat
  BY RowFacts
<1>7. ASSUME NEW i \in 0..Len(all)
      PROVE  \E k \in 0..Len(rows) : Through(all, i) = Through(rows, k)
  <2>1. CASE i < t
    <3>1. Through(all, i) = Through(rows, i)
      BY <1>3, <1>6, <2>1 DEF Through
    <3> QED BY <1>6, <2>1, <3>1
  <2>2. CASE ~ (i < t)
    <3>1. \A j \in ActiveIn(rows) : j <= i /\ (j <= t - 1 <=> j # t)
      BY <1>5, <1>6, <2>2
    <3>2. Through(all, i) = Through(rows, t - 1)
      BY <1>3, <3>1 DEF Through
    <3>3. t - 1 \in 0..Len(rows)
      BY <1>6
    <3> QED BY <3>2, <3>3
  <2> QED BY <2>1, <2>2
<1>8. ASSUME NEW i \in 0..Len(all)
      PROVE  /\ (\A k \in DOMAIN all : all[k].cash >= 0)
                  => SumFunctionOnSet(Cashes(all), Through(all, i)) >= 0
             /\ \A s : SumFunctionOnSet(Quantities(all, s), Through(all, i)) >= 0
  <2>1. PICK k \in 0..Len(rows) : Through(all, i) = Through(rows, k)
    BY <1>7
  <2>2. Through(rows, k) \in SUBSET ActiveIn(rows)
    BY DEF Through
  <2>3. (\A j \in DOMAIN all : all[j].cash >= 0) => \A j \in DOMAIN rows : rows[j].cash >= 0
    BY <1>4
  <2>4. /\ SumFunctionOnSet(Cashes(all), Through(rows, k)) = SumFunctionOnSet(Cashes(rows), Through(rows, k))
        /\ \A s : SumFunctionOnSet(Quantities(all, s), Through(rows, k)) =
                    SumFunctionOnSet(Quantities(rows, s), Through(rows, k))
    BY <1>3, <2>2
  <2> QED BY <2>1, <2>3, <2>4 DEF Solvent
<1>9. Solvent(all)
  BY <1>8 DEF Solvent
<1> QED BY <1>9 DEF all

LEMMA KeepsOneOfASymbol ==
  ASSUME NEW rows \in Seq(RowType), NEW new \in Seq(RowType), OneOfASymbol(rows), NEW start,
         \A n \in DOMAIN new : new[n].createdAt = start,
         \A i \in DOMAIN rows : rows[i].createdAt # start,
         Appends(rows, start, new) \/ Reverses(rows, new)
  PROVE  OneOfASymbol(rows \o new)
<1> DEFINE all == rows \o new
<1>1. /\ \A k \in DOMAIN rows : all[k] = rows[k]
      /\ \A n \in DOMAIN new : all[Len(rows) + n] = new[n]
      /\ \A k \in DOMAIN all : k \in DOMAIN rows \/ \E n \in DOMAIN new : k = Len(rows) + n
  BY PrefixOfConcat
<1> HIDE DEF all
<1>2. \A m, n \in DOMAIN new :
        m # n /\ new[m].kind = "sell" => new[m].symbol # new[n].symbol
  <2>1. CASE Appends(rows, start, new)
    BY <2>1 DEF Appends
  <2>2. CASE Reverses(rows, new)
    <3>1. DOMAIN new = {1}
      BY <2>2 DEF Reverses
    <3> QED BY <3>1
  <2> QED BY <2>1, <2>2
<1>3. ASSUME NEW i \in DOMAIN all, NEW j \in DOMAIN all, i # j,
             all[i].createdAt = all[j].createdAt, all[i].kind = "sell", all[j].kind # "reversal"
      PROVE  all[i].symbol # all[j].symbol
  <2>1. CASE i \in DOMAIN rows /\ j \in DOMAIN rows
    BY <1>1, <1>3, <2>1 DEF OneOfASymbol
  <2>2. CASE i \notin DOMAIN rows /\ j \notin DOMAIN rows
    <3>1. PICK m \in DOMAIN new : i = Len(rows) + m
      BY <1>1, <2>2
    <3>2. PICK n \in DOMAIN new : j = Len(rows) + n
      BY <1>1, <2>2
    <3>3. all[i] = new[m] /\ all[j] = new[n] /\ m # n
      BY <1>1, <1>3, <3>1, <3>2
    <3> QED BY <1>2, <1>3, <3>3
  <2>3. CASE i \in DOMAIN rows /\ j \notin DOMAIN rows
    BY <1>1, <1>3, <2>3
  <2>4. CASE i \notin DOMAIN rows /\ j \in DOMAIN rows
    BY <1>1, <1>3, <2>4
  <2> QED BY <2>1, <2>2, <2>3, <2>4
<1>4. OneOfASymbol(all)
  BY <1>3 DEF OneOfASymbol
<1> QED BY <1>4 DEF all

\* What is kept of the rows: the sums as far as transactions came in their order.
SoundRows(rows) ==
  /\ OneOfASymbol(rows)
  /\ (\A i, j \in DOMAIN rows : i < j => rows[i].createdAt <= rows[j].createdAt) => Sold(rows)
  /\ (\A i, j \in DOMAIN rows : i < j => rows[i].createdAt < rows[j].createdAt) => Solvent(rows)

LEMMA SoundAfterOne ==
  ASSUME NEW rows \in Seq(RowType), NEW new \in Seq(RowType), RowsOK(rows), SoundRows(rows),
         NEW start,
         \A n \in DOMAIN new : new[n].createdAt = start,
         \A i \in DOMAIN rows : rows[i].createdAt # start,
         \A i, j \in ActiveIn(rows) : i < j => rows[i].tradeAt <= rows[j].tradeAt,
         Appends(rows, start, new) \/ Reverses(rows, new)
  PROVE  SoundRows(rows \o new)
<1> DEFINE all == rows \o new
<1>1. /\ \A k \in DOMAIN rows : k \in DOMAIN all /\ all[k] = rows[k]
      /\ \A n \in DOMAIN new : Len(rows) + n \in DOMAIN all /\ all[Len(rows) + n] = new[n]
  BY PrefixOfConcat
<1>2. OneOfASymbol(all)
  BY KeepsOneOfASymbol DEF SoundRows
<1> HIDE DEF all
<1>3. ASSUME \A i, j \in DOMAIN all : i < j => all[i].createdAt <= all[j].createdAt
      PROVE  Sold(all)
  <2>1. \A i, j \in DOMAIN rows : i < j => rows[i].createdAt <= rows[j].createdAt
    BY <1>1, <1>3
  <2>2. Sold(rows) /\ OneOfASymbol(rows)
    BY <2>1 DEF SoundRows
  <2>3. CASE Appends(rows, start, new)
    BY <2>2, <2>3, SoldAfterAppends DEF all
  <2>4. CASE Reverses(rows, new)
    BY <2>1, <2>2, <2>4, SoldAfterReversal DEF all
  <2> QED BY <2>3, <2>4
<1>4. ASSUME \A i, j \in DOMAIN all : i < j => all[i].createdAt < all[j].createdAt
      PROVE  Solvent(all)
  <2>1. \A i, j \in DOMAIN rows : i < j => rows[i].createdAt < rows[j].createdAt
    BY <1>1, <1>4
  <2>2. Solvent(rows)
    BY <2>1 DEF SoundRows
  <2>3. CASE Appends(rows, start, new)
    <3>1. Len(new) \in Nat /\ DOMAIN new = 1..Len(new) /\ Len(rows) \in Nat
      OBVIOUS
    <3>2. CASE Len(new) = 0
      <4>1. all = rows
        BY <3>2 DEF all
      <4> QED BY <2>2, <4>1
    <3>3. CASE Len(new) = 1
      BY <2>2, <2>3, <3>3, SolventAfterOne DEF all
    <3>4. CASE Len(new) > 1
      <4>1. 1 \in DOMAIN new /\ 2 \in DOMAIN new
        BY <3>1, <3>4
      <4>2. all[Len(rows) + 1].createdAt = start /\ all[Len(rows) + 2].createdAt = start
            /\ Len(rows) + 1 \in DOMAIN all /\ Len(rows) + 2 \in DOMAIN all
        BY <1>1, <4>1
      <4>3. new[1].createdAt \in Nat /\ start = new[1].createdAt
        BY <4>1, RowFacts
      <4>4. Len(rows) + 1 < Len(rows) + 2
        BY <3>1
      <4>5. start < start
        BY <1>4, <4>2, <4>4
      <4> QED BY <4>3, <4>5
    <3> QED BY <3>1, <3>2, <3>3, <3>4
  <2>4. CASE Reverses(rows, new)
    <3>1. ASSUME NEW t \in ActiveIn(rows), NEW j \in ActiveIn(rows), ~ Precedes(rows[t], rows[j])
          PROVE  j <= t
      <4>1. /\ t \in DOMAIN rows /\ j \in DOMAIN rows /\ t \in Nat /\ j \in Nat
            /\ rows[t].tradeAt \in Nat /\ rows[j].tradeAt \in Nat
            /\ rows[t].createdAt \in Nat /\ rows[j].createdAt \in Nat
        BY RowFacts
      <4>2. t < j => rows[t].tradeAt <= rows[j].tradeAt /\ rows[t].createdAt < rows[j].createdAt
        BY <2>1, <4>1
      <4> QED BY <3>1, <4>1, <4>2 DEF Precedes
    <3>2. \A t \in ActiveIn(rows) :
            (\A j \in ActiveIn(rows) : ~ Precedes(rows[t], rows[j]))
              => \A j \in ActiveIn(rows) : j <= t
      BY <3>1
    <3> QED BY <2>2, <2>4, <3>2, SolventAfterReversal DEF all
  <2> QED BY <2>3, <2>4
<1>5. SoundRows(all)
  BY <1>2, <1>3, <1>4 DEF SoundRows
<1> QED BY <1>5 DEF all

SoundInv == SoundRows(ledger)

LEMMA SoundStep ==
  LedgerTypeOK /\ TradeOrderFollowsCommitOrder /\ RowsInv /\ Moments /\ SoundInv /\ [Next]_vars
    => SoundInv'
<1> SUFFICES ASSUME LedgerTypeOK, TradeOrderFollowsCommitOrder, RowsInv, Moments,
                    SoundInv, [Next]_vars
             PROVE  SoundInv'
  OBVIOUS
<1>1. CASE ledger' = ledger
  BY <1>1 DEF SoundInv
<1>2. ASSUME NEW p \in Procs, NEW new \in Seq(RowType), Commits(p, new)
      PROVE  SoundInv'
  <2> DEFINE start == inflight[p].start
  <2>1. /\ ledger' = ledger \o new /\ inflight[p] # Idle
        /\ \A n \in DOMAIN new : new[n].createdAt = start
        /\ Appends(ledger, start, new) \/ Reverses(ledger, new)
    BY <1>2 DEF Commits
  <2>2. \A i \in DOMAIN ledger : ledger[i].createdAt # start
    BY <2>1 DEF Moments
  <2>3. \A i, j \in ActiveIn(ledger) : i < j => ledger[i].tradeAt <= ledger[j].tradeAt
    BY DEF TradeOrderFollowsCommitOrder
  <2>4. ledger \in Seq(RowType) /\ RowsOK(ledger) /\ SoundRows(ledger)
    BY DEF LedgerTypeOK, RowsInv, SoundInv
  <2> HIDE DEF start
  <2>5. SoundRows(ledger \o new)
    BY <2>1, <2>2, <2>3, <2>4, SoundAfterOne
  <2> QED BY <2>1, <2>5 DEF SoundInv
<1>3. ASSUME NEW p \in Procs, NEW call, Begin(p, call) PROVE ledger' = ledger
  BY <1>3 DEF Begin
<1>4. ASSUME SetStatus \/ (\E r \in Readers : ReadPortfolio(r) \/ ReadCount(r) \/ ReadPage(r))
             \/ UNCHANGED vars
      PROVE  ledger' = ledger
  BY <1>4 DEF SetStatus, ReadPortfolio, ReadCount, ReadPage, vars
<1> QED BY <1>1, <1>2, <1>3, <1>4, LedgerSteps

\* Replay takes the rows in the order of the commits, but for rows of one
\* transaction, and those a sell has no part in.
LEMMA SoldInReplay ==
  LedgerTypeOK /\ TradeOrderFollowsCommitOrder /\ SoundInv => ReconstructionAgrees
<1> SUFFICES ASSUME LedgerTypeOK, TradeOrderFollowsCommitOrder, SoundInv, NoneOvertaken,
                    NEW i \in ActiveIn(ledger), ledger[i].kind = "sell"
             PROVE  QuantityOver(ledger, UpTo(ledger, i), ledger[i].symbol) >= 0
  BY DEF ReconstructionAgrees
<1> DEFINE s == ledger[i].symbol
           w == Quantities(ledger, s)
           before == Through(ledger, i)
           upTo   == UpTo(ledger, i)
<1>1. ledger \in Seq(RowType) /\ ActiveIn(ledger) \subseteq DOMAIN ledger /\ i \in DOMAIN ledger
  BY DEF LedgerTypeOK, ActiveIn
<1>2. OneOfASymbol(ledger) /\ Sold(ledger)
  BY DEF SoundInv, SoundRows, NoneOvertaken
<1>3. /\ IsFiniteSet(ActiveIn(ledger)) /\ \A x \in DOMAIN ledger : w[x] \in Int
      /\ \A x \in DOMAIN ledger : /\ x \in Nat /\ ledger[x].tradeAt \in Nat
                                  /\ ledger[x].createdAt \in Nat /\ ledger[x].id \in Nat
  BY <1>1, RowFacts
<1>4. before \subseteq ActiveIn(ledger) /\ upTo \subseteq ActiveIn(ledger)
  BY DEF Through, UpTo
<1>5. ASSUME NEW x \in ActiveIn(ledger), w[x] # 0 PROVE x \in before <=> x \in upTo
  <2>1. x \in DOMAIN ledger /\ ledger[x].kind # "reversal"
    BY DEF ActiveIn, IsActive
  <2>2. ledger[x].symbol = s
    <3>1. w[x] = QuantityEffect(ledger[x], s)
      BY <2>1 DEF Quantities
    <3> HIDE DEF w, s
    <3> QED BY <1>5, <3>1 DEF QuantityEffect
  <2>3. x # i => ledger[x].createdAt # ledger[i].createdAt
    BY <1>1, <1>2, <2>1, <2>2 DEF OneOfASymbol
  <2>4. x < i => ledger[x].tradeAt <= ledger[i].tradeAt /\ ledger[x].createdAt <= ledger[i].createdAt
    BY <1>1, <2>1 DEF TradeOrderFollowsCommitOrder, NoneOvertaken
  <2>5. i < x => ledger[i].tradeAt <= ledger[x].tradeAt /\ ledger[i].createdAt <= ledger[x].createdAt
    BY <1>1, <2>1 DEF TradeOrderFollowsCommitOrder, NoneOvertaken
  <2>6. x # i => (Precedes(ledger[x], ledger[i]) <=> x < i)
    BY <1>1, <1>3, <2>1, <2>3, <2>4, <2>5 DEF Precedes
  <2>7. x <= i <=> x = i \/ x < i
    BY <1>1, <1>3, <2>1
  <2> QED BY <2>6, <2>7 DEF Through, UpTo
<1>6. SumFunctionOnSet(w, before) >= 0
  BY <1>2 DEF Sold
<1>7. QuantityOver(ledger, upTo, s) = SumFunctionOnSet(w, upTo)
  BY DEF QuantityOver, Quantities
<1> HIDE DEF w, before, upTo
<1>8. {x \in before : w[x] # 0} = {x \in upTo : w[x] # 0}
  BY <1>4, <1>5
<1>9. /\ IsFiniteSet(before) /\ IsFiniteSet(upTo)
      /\ \A x \in before : w[x] \in Int /\ \A y \in upTo : w[y] \in Int
  BY <1>1, <1>3, <1>4, FS_Subset
<1>10. SumFunctionOnSet(w, before) = SumFunctionOnSet(w, {x \in before : w[x] # 0})
  BY <1>9, SumWithoutZeros
<1>11. \A y \in upTo : w[y] \in Int
  BY <1>1, <1>3, <1>4
<1>12. SumFunctionOnSet(w, upTo) = SumFunctionOnSet(w, {x \in upTo : w[x] # 0})
  BY <1>9, <1>11, SumWithoutZeros
<1>13. QuantityOver(ledger, upTo, s) >= 0
  BY <1>6, <1>7, <1>8, <1>10, <1>12
<1> QED BY <1>13 DEF upTo

LEMMA SolventInTheEnd == LedgerTypeOK /\ SoundInv => NothingNegative
<1> SUFFICES ASSUME LedgerTypeOK, SoundInv, RowsStartedInOrder
             PROVE  /\ (\A i \in DOMAIN ledger : ledger[i].cash >= 0) => CurrentCash(ledger) >= 0
                    /\ \A s : CurrentQuantity(ledger, s) >= 0
  BY DEF NothingNegative
<1>1. ledger \in Seq(RowType)
  BY DEF LedgerTypeOK
<1>2. Solvent(ledger)
  BY DEF SoundInv, SoundRows, RowsStartedInOrder
<1>3. Through(ledger, Len(ledger)) = ActiveIn(ledger) /\ Len(ledger) \in 0..Len(ledger)
  <2>1. Len(ledger) \in Nat /\ \A k \in ActiveIn(ledger) : k <= Len(ledger)
    BY <1>1, RowFacts
  <2> QED BY <2>1 DEF Through
<1>4. /\ CurrentCash(ledger) = SumFunctionOnSet(Cashes(ledger), Through(ledger, Len(ledger)))
      /\ \A s : CurrentQuantity(ledger, s) =
                   SumFunctionOnSet(Quantities(ledger, s), Through(ledger, Len(ledger)))
  BY <1>3 DEF CurrentCash, CashOver, Cashes, CurrentQuantity, QuantityOver, Quantities
<1> QED BY <1>2, <1>3, <1>4 DEF Solvent

LEMMA NothingSumsToZero == \A w : SumFunctionOnSet(w, {}) = 0
<1> SUFFICES ASSUME NEW w PROVE SumFunctionOnSet(w, {}) = 0
  OBVIOUS
<1>1. IsFiniteSet({}) /\ \A x \in {} : w[x] \in Int
  BY FS_EmptySet
<1>2. SumFunctionOnSet(w, {}) = 0
  BY ONLY <1>1, SumOfOneMore
<1> QED BY <1>2

\* Whatever calls overlap: replaying the rows never sells what was not bought, a summary
\* that is still current saw all of them, and no position or balance is below zero.
THEOREM LedgerIsSoundAlways == Spec => []LedgerIsSound
<1>1. Init => RowsInv
  BY DEF Init, RowsInv, RowsOK, AnswersAreRows
<1>2. Init => SoundInv
  <2> SUFFICES ASSUME ledger = <<>> PROVE SoundInv
    BY DEF Init
  <2>1. /\ DOMAIN ledger = {} /\ Len(ledger) = 0 /\ ActiveIn(ledger) = {}
        /\ \A i : Through(ledger, i) = {}
    BY DEF ActiveIn, Through
  <2>2. \A w : SumFunctionOnSet(w, {}) = 0
    BY NothingSumsToZero
  <2>3. OneOfASymbol(ledger)
    BY <2>1 DEF OneOfASymbol
  <2>4. Sold(ledger)
    BY <2>1 DEF Sold
  <2>5. Solvent(ledger)
    <3>1. \A i, w : SumFunctionOnSet(w, Through(ledger, i)) = 0
      BY <2>1, <2>2
    <3> QED BY <3>1 DEF Solvent
  <2> QED BY <2>3, <2>4, <2>5 DEF SoundInv, SoundRows
<1>3. Init => Moments /\ ReadsInv
  BY MomentsStart
<1> QED BY <1>1, <1>2, <1>3, RowsInvStep, MomentsStep, ReadsStep, SoundStep, SoldInReplay,
           SolventInTheEnd, FreshReadIsExactAlways, CommitOrderIsTradeOrder, TypeCorrect, PTL
        DEF Spec, LedgerIsSound

-----------------------------------------------------------------------------
(* The goal of the portfolio: a date of it gets at most one scheduled plan, *)
(* for any calendar and any number of edits.                                *)

\* The plans are a sequence of something, and no two of them are of one cycle.
CycleInv == (\E S : plans \in Seq(S)) /\ OnePlanPerCycle

\* A sequence and what is appended to it.
LEMMA Appended ==
    ASSUME NEW S, NEW s \in Seq(S), NEW x
    PROVE  /\ Append(s, x) \in Seq(S \cup {x})
           /\ DOMAIN Append(s, x) = (DOMAIN s) \cup {Len(s) + 1}
           /\ \A n \in DOMAIN s : Append(s, x)[n] = s[n]
           /\ Append(s, x)[Len(s) + 1] = x
<1>1. s \in Seq(S \cup {x}) /\ x \in S \cup {x}
  OBVIOUS
<1>. QED  BY <1>1

\* The one step that adds a plan has looked for a plan of its cycle, whatever it read of the
\* goal before.
LEMMA CreatedOnce ==
    ASSUME CycleInv, NEW i \in Invocations, CreatePlan(i)
    PROVE  CycleInv'
<1>. DEFINE p == Turn(i).portfolio
            new == [portfolio |-> p, era |-> goals[p].era, date |-> jobs[i].seen.next,
                    key |-> Turn(i).date]
<1>1. PICK S : plans \in Seq(S)
  BY DEF CycleInv
<1>2. plans' = Append(plans, new) /\ ~ Planned(p, jobs[i].seen.era, jobs[i].seen.next)
  BY DEF CreatePlan
<1>3. goals[p].era = jobs[i].seen.era
  BY DEF CreatePlan, Current
<1>4. \A n \in DOMAIN plans :
        ~ (plans[n].portfolio = new.portfolio /\ plans[n].era = new.era /\ plans[n].date = new.date)
  BY <1>2, <1>3 DEF Planned, PlansOf
<1>. HIDE DEF new, p
<1>5. plans' \in Seq(S \cup {new}) /\ DOMAIN plans' = (DOMAIN plans) \cup {Len(plans) + 1}
      /\ (\A n \in DOMAIN plans : plans'[n] = plans[n]) /\ plans'[Len(plans) + 1] = new
  BY <1>1, <1>2, Appended
<1>6. OnePlanPerCycle'
  BY <1>4, <1>5 DEF CycleInv, OnePlanPerCycle
<1>. QED  BY <1>5, <1>6 DEF CycleInv

\* Every other step leaves the plans alone.
LEMMA CycleStep == CycleInv /\ [ScheduleNext]_scheduleVars => CycleInv'
<1>. SUFFICES ASSUME CycleInv, [ScheduleNext]_scheduleVars PROVE CycleInv'
  OBVIOUS
<1>1. CASE plans' = plans
  BY <1>1 DEF CycleInv, OnePlanPerCycle
<1>2. CASE \E i \in Invocations : CreatePlan(i)
  BY <1>2, CreatedOnce
<1>3. plans' = plans \/ \E i \in Invocations : CreatePlan(i)
  BY DEF ScheduleNext, scheduleVars, Tick, Own, SaveGoal, TransitionGoal, SettlePlan, Kill, Maintain,
         AfterContributions, AfterRebalances, ReadGoal, Generate, SkipGoal, CompleteGoal, FindPlan,
         RefusePlan, StartMaintenance, SnapshotPortfolio, AfterSnapshots, MarkGoal, RebalancePortfolio
<1>. QED  BY <1>1, <1>2, <1>3

\* OnePlanPerCycle: however many maintenances visit a goal and however its owner edits it, two
\* scheduled plans never stand for the same date of it (contribution-service.ts, the check of the
\* cycle in create_portfolio_contribution_plan).
THEOREM OnePlanPerCycleAlways == ScheduleSpec => []OnePlanPerCycle
<1>1. ScheduleInit => CycleInv
  <2>. SUFFICES ASSUME ScheduleInit PROVE CycleInv
    OBVIOUS
  <2>1. plans \in Seq({}) /\ DOMAIN plans = {}
    BY DEF ScheduleInit
  <2>. QED  BY <2>1 DEF CycleInv, OnePlanPerCycle
<1>2. CycleInv => OnePlanPerCycle
  BY DEF CycleInv
<1>. QED  BY <1>1, <1>2, CycleStep, PTL DEF ScheduleSpec

-----------------------------------------------------------------------------
(* The alerts only browsers know.                                            *)

\* A tab has no baseline for an alert it does not hold, and the baseline of one it holds is a price
\* it had since.
Baselines ==
    /\ DOMAIN alerts = Tabs
    /\ DOMAIN last = Tabs /\ \A t \in Tabs : DOMAIN last[t] = Alerts
    /\ DOMAIN witnessed = Tabs /\ \A t \in Tabs : DOMAIN witnessed[t] = Alerts
    /\ \A t \in Tabs, a \in Alerts :
          IF a \in AlertsOf(alerts[t]) THEN last[t][a] \in witnessed[t][a] ELSE last[t][a] = NoPrice

\* However a list reaches the tab.
LEMMA TakenOver ==
  ASSUME Baselines, NEW t \in Tabs, NEW list, refreshBaselines(t, list)
  PROVE  Baselines'
BY DEF Baselines, refreshBaselines, AlertsOf

\* The prices of a batch become the baselines of the armed alerts it holds.
LEMMA Published ==
  ASSUME Baselines, NEW t \in Tabs, NEW p, Batch(t, p)
  PROVE  Baselines'
<1> DEFINE own == alerts[t]
<1>1. PICK list : DOMAIN list = DOMAIN own /\ alerts' = [alerts EXCEPT ![t] = list]
  BY DEF Batch, AlertsOf
<1>2. /\ last' = [last EXCEPT ![t] = [a \in Alerts |->
                     IF a \in DOMAIN own /\ own[a] = "armed" THEN p ELSE last[t][a]]]
      /\ witnessed' = [witnessed EXCEPT ![t] = [a \in Alerts |->
                          IF a \in DOMAIN own THEN witnessed[t][a] \cup {p} ELSE {}]]
  BY DEF Batch, AlertsOf, Baselines
<1> QED BY <1>1, <1>2 DEF Baselines, AlertsOf

\* A tab that starts over takes the first price of its engine.
LEMMA Reloaded ==
  ASSUME Baselines, NEW t \in Tabs, Reload(t)
  PROVE  Baselines'
BY DEF Baselines, Reload, AlertsOf

\* The user, the engine, another tab's list or a reload: nothing leaves a baseline from elsewhere.
LEMMA BaselinesStep == Baselines /\ [TabsNext]_localVars => Baselines'
<1> SUFFICES ASSUME Baselines, [TabsNext]_localVars PROVE Baselines'
  OBVIOUS
<1>1. CASE UNCHANGED localVars
  BY <1>1 DEF localVars, Baselines, AlertsOf
<1>2. CASE \E t \in Tabs : \E list : refreshBaselines(t, list)
  BY <1>2, TakenOver
<1>3. CASE \E t \in Tabs, p \in Ticks : Batch(t, p)
  BY <1>3, Published
<1>4. CASE \E t \in Tabs : Reload(t)
  BY <1>4, Reloaded
<1>5. ASSUME NEW t \in Tabs, NEW a \in Alerts, addAlert(t, a) \/ removeAlert(t, a)
      PROVE  \E list : refreshBaselines(t, list)
  BY <1>5 DEF addAlert, removeAlert
<1>6. ASSUME NEW t \in Tabs, StorageEvent(t)
      PROVE  \E list : refreshBaselines(t, list)
  BY <1>6 DEF StorageEvent
<1> QED BY <1>1, <1>2, <1>3, <1>4, <1>5, <1>6 DEF TabsNext

\* FiresOnlyWhileHeld: an alert that only browsers know fires in a tab by a price from before and one
\* of now that this tab had while it held it, whatever lists the tabs send each other
\* (alertsStore.ts, lastPrices).
THEOREM FiresOnlyWhileHeldAlways == TabsSpec => FiresOnlyWhileHeld
<1>1. TabsInit => Baselines
  BY DEF TabsInit, Baselines, AlertsOf, NoAlerts, NoPrice
<1>2. Baselines => FiredWhileHeld
  <2> SUFFICES ASSUME Baselines, NEW t \in Tabs, NEW p \in Ticks, NEW a \in Alerts, Batch(t, p),
                      a \in AlertsOf(alerts[t]), alerts[t][a] # alerts'[t][a]
               PROVE  \E before \in witnessed[t][a] : didCrossThreshold(a, before, p)
    BY DEF FiredWhileHeld
  <2>1. last[t][a] \in witnessed[t][a]
    BY DEF Baselines
  <2>2. didCrossThreshold(a, last[t][a], p)
    BY DEF Batch, Baselines, AlertsOf
  <2> QED BY <2>1, <2>2
<1> QED BY <1>1, <1>2, BaselinesStep, PTL DEF TabsSpec, FiresOnlyWhileHeld

-----------------------------------------------------------------------------
(* Replies of market-data providers, and what is made of them.                *)

\* What a provider may say of a symbol.
ReplyType == {q \in RemoteQuotePatch :
                 \/ q.mode \in {"live", "delayed"} /\ q.quality = "provider" /\ q.decision = "none"
                 \/ q.mode = "stale" /\ q.quality = "verified" /\ q.decision = "none"}

\* The order of the preferred providers has a first among any of them.
LEMMA LeastRank ==
  ASSUME NEW S, S \subseteq Providers, S # {}, NEW f \in [Providers -> Nat]
  PROVE  \E p \in S : \A r \in S : f[p] <= f[r]
<1> SUFFICES ASSUME \A p \in S : \E r \in S : f[r] < f[p] PROVE FALSE
  BY DEF Providers
<1>1. PICK a \in S : TRUE
  OBVIOUS
<1>2. PICK b \in S : f[b] < f[a]
  OBVIOUS
<1>3. PICK c \in S : f[c] < f[b]
  OBVIOUS
<1>4. PICK d \in S : f[d] < f[c]
  OBVIOUS
<1>5. f[a] \in Nat /\ f[b] \in Nat /\ f[c] \in Nat /\ f[d] \in Nat
  OBVIOUS
<1>6. a # b /\ a # c /\ a # d /\ b # c /\ b # d /\ c # d
  BY <1>2, <1>3, <1>4, <1>5
<1> QED BY <1>6 DEF Providers

\* What the cache gives for a quote that a provider made.
LEMMA CachedQuote ==
  ASSUME NEW q \in RemoteQuotePatch, q.decision = "none",
         NEW r, r = [q EXCEPT !.mode = "stale", !.quality = "verified"]
  PROVE  r \in ReplyType
<1>1. r \in RemoteQuotePatch
  BY DEF RemoteQuotePatch, Modes
<1>2. r.mode = "stale" /\ r.quality = "verified" /\ r.decision = "none"
  BY DEF RemoteQuotePatch
<1> QED BY <1>1, <1>2 DEF ReplyType

\* Whatever prices a provider sends, the quote made of them is a whole one.
LEMMA OneProvider ==
  ASSUME QuotesAssumption, config \in Configs, NEW p \in Providers, NEW raw \in Raw(p)
  PROVE  QuoteOf(p, raw) \in Maybe(ReplyType) /\ MarkStale(QuoteOf(p, raw)) \in Maybe(ReplyType)
<1> DEFINE Made(worth, age, open, mode) ==
             [price |-> worth, age |-> age, open |-> open, mode |-> mode,
              delayed |-> mode = "delayed", quality |-> "provider", decision |-> "none"]
<1>0. config.feed \in {"live", "delayed"} /\ config.finnhub \in {"live", "delayed"}
  BY DEF QuotesAssumption
<1>1. CASE QuoteOf(p, raw) = NoQuote
  BY <1>1 DEF Maybe, MarkStale
<1>2. ASSUME NEW worth \in Nat, NEW age \in Nat, NEW open \in BOOLEAN, NEW mode \in {"live", "delayed"},
             QuoteOf(p, raw) = Made(worth, age, open, mode)
      PROVE  QuoteOf(p, raw) \in Maybe(ReplyType) /\ MarkStale(QuoteOf(p, raw)) \in Maybe(ReplyType)
  <2>1. Made(worth, age, open, mode) \in RemoteQuotePatch
    BY DEF RemoteQuotePatch, Modes
  <2>2. PICK q \in RemoteQuotePatch : q = Made(worth, age, open, mode)
    BY <2>1
  <2>3. q.mode = mode /\ q.quality = "provider" /\ q.decision = "none"
    BY <2>2
  <2> HIDE DEF Made
  <2>4. q \in ReplyType
    BY <2>3 DEF ReplyType
  <2>5. ASSUME NEW r, r = [q EXCEPT !.mode = "stale", !.quality = "verified"] PROVE r \in ReplyType
    BY <2>3, <2>5, CachedQuote, Zenon
  <2> QED BY <1>2, <2>2, <2>4, <2>5 DEF Maybe, MarkStale
<1>3. ASSUME p = "alpaca", QuoteOf(p, raw) # NoQuote
      PROVE  \E worth, age \in Nat, open \in BOOLEAN, mode \in {"live", "delayed"} :
                QuoteOf(p, raw) = Made(worth, age, open, mode)
  <2>1. raw \in [trade : Maybe(RawPrice), minute : Maybe(RawPrice), daily : Maybe(RawPrice),
                 previous : Maybe(RawPrice), open : BOOLEAN]
    BY <1>3 DEF Raw
  <2> DEFINE latest == IF raw.trade # NoQuote THEN raw.trade
                       ELSE IF raw.minute # NoQuote THEN raw.minute ELSE raw.daily
  <2>2. QuoteOf(p, raw) = SnapshotPatch(raw)
    BY <1>3 DEF QuoteOf
  <2>3. raw.daily # NoQuote /\ SnapshotPatch(raw) = Made(latest.price, latest.age, raw.open, config.feed)
    BY <1>3, <2>2 DEF SnapshotPatch
  <2>4. latest \in RawPrice
    BY <2>1, <2>3 DEF Maybe
  <2>5. latest.price \in Nat /\ latest.age \in Nat /\ raw.open \in BOOLEAN
    BY <2>1, <2>4 DEF RawPrice
  <2> HIDE DEF latest, Made
  <2> QED BY <1>0, <2>2, <2>3, <2>5
<1>4. ASSUME p = "coinbase", QuoteOf(p, raw) # NoQuote
      PROVE  \E worth, age \in Nat, open \in BOOLEAN, mode \in {"live", "delayed"} :
                QuoteOf(p, raw) = Made(worth, age, open, mode)
  <2>1. raw \in [price : Maybe(Nat), age : Maybe(Nat), last : Maybe(Nat)]
    BY <1>4 DEF Raw
  <2> DEFINE shown == IF raw.price # NoQuote THEN raw.price ELSE raw.last
             since == IF raw.age = NoQuote THEN 0 ELSE raw.age
  <2>2. QuoteOf(p, raw) = CoinbaseQuote(raw)
    BY <1>4 DEF QuoteOf
  <2>3. shown # NoQuote /\ CoinbaseQuote(raw) = Made(shown, since, TRUE, "live")
    BY <1>4, <2>2 DEF CoinbaseQuote
  <2>4. shown \in Nat /\ since \in Nat
    BY <2>1, <2>3 DEF Maybe
  <2> HIDE DEF shown, since, Made
  <2> QED BY <2>2, <2>3, <2>4
<1>5. ASSUME p = "finnhub", QuoteOf(p, raw) # NoQuote
      PROVE  \E worth, age \in Nat, open \in BOOLEAN, mode \in {"live", "delayed"} :
                QuoteOf(p, raw) = Made(worth, age, open, mode)
  <2>1. raw \in [price : Maybe(Nat), age : Maybe(Nat), open : BOOLEAN]
    BY <1>5 DEF Raw
  <2>2. QuoteOf(p, raw) = FinnhubQuote(raw)
    BY <1>5 DEF QuoteOf
  <2>3. /\ raw.price # NoQuote /\ raw.age # NoQuote
        /\ FinnhubQuote(raw) = Made(raw.price, raw.age, raw.open, config.finnhub)
    BY <1>5, <2>2 DEF FinnhubQuote
  <2>4. raw.price \in Nat /\ raw.age \in Nat /\ raw.open \in BOOLEAN
    BY <2>1, <2>3 DEF Maybe
  <2> HIDE DEF Made
  <2> QED BY <1>0, <2>2, <2>3, <2>4
<1>6. p \in {"alpaca", "coinbase", "finnhub"}
  BY DEF Providers
<1> HIDE DEF Made
<1> QED BY <1>1, <1>2, <1>3, <1>4, <1>5, <1>6

\* So are the replies to a request, from a provider or its cache.
LEMMA WhatTheySay ==
  ASSUME QuotesAssumption, config \in Configs, NEW p \in Providers, NEW wanted,
         NEW f \in OneReplies(p, wanted)
  PROVE  f \in [InRegion -> Maybe(ReplyType)]
<1>1. ASSUME NEW s \in InRegion PROVE MayReply(p, s, wanted) \subseteq Maybe(ReplyType)
  <2>1. \A r \in Replies[p][s] : r \in [raw : Raw(p), cached : BOOLEAN]
    BY DEF QuotesAssumption
  <2>2. \A r \in Replies[p][s] : r.raw \in Raw(p)
    BY <2>1
  <2> QED BY <2>2, OneProvider DEF MayReply, Maybe
<1>2. DOMAIN f = InRegion /\ f = [s \in InRegion |-> f[s]]
  BY DEF OneReplies
<1>3. \A s \in InRegion : f[s] \in MayReply(p, s, wanted)
  BY DEF OneReplies
<1> QED BY <1>1, <1>2, <1>3

RepliesTyped == replies \in [Providers -> [InRegion -> Maybe(ReplyType)]]

\* The reply that is chosen is from a cache only if all that are valid are.
LEMMA BestReply ==
  ASSUME RepliesTyped, NEW s \in InRegion, Candidates(s) # {}
  PROVE  /\ Chosen(s) \in Candidates(s)
         /\ replies[Chosen(s)][s] \in ReplyType
         /\ \A p \in Candidates(s) : replies[p][s].mode # "stale" => replies[Chosen(s)][s].mode # "stale"
<1> DEFINE rank == [p \in Providers |-> Rank(replies[p][s], p)]
<1>1. Candidates(s) \subseteq Providers
  BY DEF Candidates
<1>2. \A p \in Providers : Priority(p) \in 0..2
  BY DEF Providers, Priority
<1>3. /\ rank \in [Providers -> Nat]
      /\ \A p \in Providers : rank[p] = Rank(replies[p][s], p)
      /\ \A p \in Providers : IF replies[p][s].mode = "stale" THEN rank[p] >= 3 ELSE rank[p] <= 2
  BY <1>2 DEF Rank
<1> HIDE DEF rank
<1>4. PICK p \in Candidates(s) : \A r \in Candidates(s) : rank[p] <= rank[r]
  BY <1>1, <1>3, LeastRank
<1>5. \A r \in Candidates(s) : Rank(replies[p][s], p) <= Rank(replies[r][s], r)
  BY <1>1, <1>3, <1>4
<1>6. /\ Chosen(s) \in Candidates(s)
      /\ \A r \in Candidates(s) : Rank(replies[Chosen(s)][s], Chosen(s)) <= Rank(replies[r][s], r)
  BY <1>5 DEF Chosen
<1>7. replies[Chosen(s)][s] \in ReplyType
  BY <1>1, <1>6 DEF RepliesTyped, Candidates, Valid, Maybe
<1>8. \A r \in Candidates(s) : rank[Chosen(s)] <= rank[r]
  BY <1>1, <1>3, <1>6
<1> QED BY <1>1, <1>3, <1>6, <1>7, <1>8

\* The verdict on the replies: it is good exactly when there is one and none contradicts another, and
\* then it is the preferred of them, marked as stale when that one is.
LEMMA Reconciled ==
  ASSUME QuotesAssumption, RepliesTyped, NEW s \in InRegion
  PROVE  /\ Good(s) <=> Candidates(s) # {} /\ ~ Contradicted(s)
         /\ Good(s) => /\ Reconcile(s) \in RemoteQuotePatch
                       /\ Reconcile(s).price = replies[Chosen(s)][s].price
                       /\ Reconcile(s).mode = replies[Chosen(s)][s].mode
                       /\ Reconcile(s).quality \in {"provider", "verified"}
                       /\ Reconcile(s).decision = Decision(replies[Chosen(s)][s])
<1>1. ASSUME Candidates(s) = {} PROVE ~ Good(s)
  BY <1>1 DEF Good, Reconcile
<1>2. ASSUME Contradicted(s) PROVE ~ Good(s)
  BY <1>2 DEF Good, Reconcile, Quarantined
<1>3. ASSUME Candidates(s) # {}, ~ Contradicted(s)
      PROVE  /\ Reconcile(s) \in RemoteQuotePatch
             /\ Reconcile(s).price = replies[Chosen(s)][s].price
             /\ Reconcile(s).mode = replies[Chosen(s)][s].mode
             /\ Reconcile(s).quality \in {"provider", "verified"}
             /\ Reconcile(s).decision = Decision(replies[Chosen(s)][s])
  <2>1. PICK q \in ReplyType : q = replies[Chosen(s)][s]
    BY <1>3, BestReply
  <2>2. PICK d \in {"stale", "accepted"} : d = Decision(q)
    BY DEF Decision
  <2>3. Alone(s) = [q EXCEPT !.decision = d]
    BY <2>1, <2>2 DEF Alone
  <2>4. Confirmed(s) = [q EXCEPT !.quality = "verified", !.decision = d]
    BY <2>1, <2>2 DEF Confirmed
  <2>5. q \in RemoteQuotePatch /\ q.quality \in {"provider", "verified"}
    BY DEF ReplyType
  <2>6. Reconcile(s) = Alone(s) \/ Reconcile(s) = Confirmed(s)
    BY <1>3 DEF Reconcile
  <2>7. ASSUME NEW x \in RemoteQuotePatch, x = q
        PROVE  /\ Alone(s) \in RemoteQuotePatch
               /\ Alone(s).price = q.price /\ Alone(s).mode = q.mode /\ Alone(s).quality = q.quality
               /\ Alone(s).decision = d
    <3>1. Alone(s) = [x EXCEPT !.decision = d]
      BY <2>3, <2>7
    <3>2. Alone(s) \in RemoteQuotePatch
      BY <3>1 DEF RemoteQuotePatch
    <3>3. Alone(s).price = x.price /\ Alone(s).mode = x.mode /\ Alone(s).quality = x.quality
          /\ Alone(s).decision = d
      BY <3>1 DEF RemoteQuotePatch
    <3> QED BY <2>7, <3>2, <3>3
  <2>8. ASSUME NEW x \in RemoteQuotePatch, x = q
        PROVE  /\ Confirmed(s) \in RemoteQuotePatch
               /\ Confirmed(s).price = q.price /\ Confirmed(s).mode = q.mode
               /\ Confirmed(s).quality = "verified" /\ Confirmed(s).decision = d
    <3>1. Confirmed(s) = [x EXCEPT !.quality = "verified", !.decision = d]
      BY <2>4, <2>8
    <3>2. Confirmed(s) \in RemoteQuotePatch
      BY <3>1 DEF RemoteQuotePatch
    <3>3. Confirmed(s).price = x.price /\ Confirmed(s).mode = x.mode /\ Confirmed(s).quality = "verified"
          /\ Confirmed(s).decision = d
      BY <3>1 DEF RemoteQuotePatch
    <3> QED BY <2>8, <3>2, <3>3
  <2> QED BY <2>1, <2>2, <2>5, <2>6, <2>7, <2>8
<1>4. ASSUME Candidates(s) # {}, ~ Contradicted(s) PROVE Good(s)
  BY <1>3, <1>4 DEF Good, QuotesAssumption
<1> QED BY <1>1, <1>2, <1>3, <1>4

\* What a judged rule, an observation or an alert asks of a quote, at the least.
Vouched(q) ==
    /\ q # NoQuote /\ q.quality \in {"provider", "verified"}
    /\ q.mode \in {"live", "delayed", "snapshot"}

\* Valuation and price alerts ask for that and more.
LEMMA VouchedFor ==
  ASSUME NEW s
  PROVE  /\ QuoteQuality(s) = "verified" => Vouched(quotes[s])
         /\ quotes[s] # NoQuote /\ AlertEligible(quotes[s]) => Vouched(quotes[s])
BY DEF QuoteQuality, AlertEligible, Vouched

\* What is kept are whole quotes.
KeptTyped ==
    /\ DOMAIN lkg = InRegion
    /\ \A s \in InRegion :
          /\ lkg[s] = [quote |-> lkg[s].quote, life |-> lkg[s].life] /\ lkg[s].life \in Nat
          /\ lkg[s].life > 0 => lkg[s].quote \in RemoteQuotePatch

\* A simulated, a last known good or a quarantined quote is never vouched for.
LEMMA AnswersVouched ==
  ASSUME QuotesAssumption, RepliesTyped, KeptTyped, NEW s \in Catalog, NEW unread,
         Vouched(Answer(s, unread))
  PROVE  s \in InRegion /\ Good(s) /\ Answer(s, unread) = Reconcile(s)
<1>1. ~ Vouched(FallbackQuote(s))
  BY DEF Vouched, FallbackQuote
<1>2. ~ Vouched(NoQuote)
  BY DEF Vouched
<1>3. ASSUME s \in InRegion, lkg[s].life > 0 PROVE ~ Vouched(LastKnownGood(s))
  <2>1. PICK q \in RemoteQuotePatch : q = lkg[s].quote
    BY <1>3 DEF KeptTyped
  <2>2. LastKnownGood(s) = [q EXCEPT !.mode = "stale", !.quality = "verified", !.decision = "stale"]
    BY <2>1 DEF LastKnownGood
  <2>3. LastKnownGood(s).mode = "stale"
    BY <2>2 DEF RemoteQuotePatch
  <2> QED BY <2>3 DEF Vouched
<1>4. ASSUME ~ Good(s) PROVE ~ Vouched(Reconcile(s))
  BY <1>4 DEF Good, Vouched
<1>5. s \notin Foreign => s \in InRegion
  BY DEF InRegion
<1> QED BY <1>1, <1>2, <1>3, <1>4, <1>5 DEF Answer

\* From the replies to the verdicts: what is vouched for is a live price as long as the request lasts,
\* and nothing is judged before there are quotes.
MarketInv ==
    /\ config \in Configs
    /\ asked \in {"idle", "primary", "all", "settled", "judged"}
    /\ RepliesTyped /\ KeptTyped
    /\ DOMAIN quotes = Catalog
    /\ asked = "idle" => replies = NoReplies
    /\ asked \in {"idle", "primary", "all"} => \A s \in Catalog : quotes[s] = NoQuote
    /\ \A s \in Catalog : Vouched(quotes[s]) => s \in InRegion /\ LivePrice(s)
    /\ asked # "judged" => captured = {} /\ \A r \in Rules : verdicts[r] = "none"
    /\ RepliesAreUsedRight

LEMMA NoRepliesTyped == NoReplies \in [Providers -> [InRegion -> Maybe(ReplyType)]]
BY DEF NoReplies, Maybe

\* The providers are asked.
LEMMA AskingKeeps ==
  ASSUME QuotesAssumption, MarketInv, AskPrimary \/ AskRest \/ AskAll
  PROVE  MarketInv'
<1>1. RepliesTyped'
  <2>1. ASSUME AskPrimary PROVE RepliesTyped'
    <3>1. PICK f \in OneReplies("alpaca", InRegion) : replies' = [NoReplies EXCEPT !["alpaca"] = f]
      BY <2>1 DEF AskPrimary
    <3>2. f \in [InRegion -> Maybe(ReplyType)]
      BY WhatTheySay DEF MarketInv, Providers
    <3> QED BY <3>1, <3>2, NoRepliesTyped DEF RepliesTyped
  <2>2. ASSUME AskRest PROVE RepliesTyped'
    <3> DEFINE missing == {s \in InRegion : ~ Usable(replies["alpaca"][s])}
    <3>1. PICK f \in OneReplies("coinbase", missing), g \in OneReplies("finnhub", missing) :
             replies' = [replies EXCEPT !["coinbase"] = f, !["finnhub"] = g]
      BY <2>2 DEF AskRest
    <3> HIDE DEF missing
    <3>2. f \in [InRegion -> Maybe(ReplyType)] /\ g \in [InRegion -> Maybe(ReplyType)]
      BY WhatTheySay DEF MarketInv, Providers
    <3> QED BY <3>1, <3>2 DEF RepliesTyped, MarketInv
  <2>3. ASSUME AskAll PROVE RepliesTyped'
    <3>1. PICK f \in OneReplies("alpaca", InRegion), g \in OneReplies("coinbase", InRegion),
               h \in OneReplies("finnhub", InRegion) :
             replies' = [p \in Providers |->
                           CASE p = "alpaca" -> f [] p = "coinbase" -> g [] p = "finnhub" -> h]
      BY <2>3 DEF AskAll
    <3>2. /\ f \in [InRegion -> Maybe(ReplyType)] /\ g \in [InRegion -> Maybe(ReplyType)]
          /\ h \in [InRegion -> Maybe(ReplyType)]
      BY WhatTheySay DEF MarketInv, Providers
    <3> QED BY <3>1, <3>2 DEF RepliesTyped, Providers
  <2> QED BY <2>1, <2>2, <2>3
<1>2. /\ asked \in {"idle", "primary"} /\ asked' \in {"primary", "all"}
      /\ UNCHANGED <<config, quotes, lkg, kept, captured, verdicts>>
  BY DEF AskPrimary, AskRest, AskAll
<1>3. \A s \in Catalog : ~ Vouched(quotes'[s])
  BY <1>2 DEF MarketInv, Vouched
<1>4. captured' = {} /\ \A r \in Rules : verdicts'[r] = "none"
  BY <1>2 DEF MarketInv
<1>5. RepliesAreUsedRight'
  BY <1>2, <1>4 DEF RepliesAreUsedRight, JudgedPricesAreLive, GoodReplyIsUsed, PriceRules, Judged
<1>6. KeptTyped'
  BY <1>2 DEF MarketInv, KeptTyped
<1> QED BY <1>1, <1>2, <1>3, <1>4, <1>5, <1>6 DEF MarketInv

\* The replies are reconciled and answered.
LEMMA SettlingKeeps ==
  ASSUME QuotesAssumption, MarketInv, Settle
  PROVE  MarketInv'
<1>1. PICK broken \in SUBSET InRegion :
        /\ quotes' = [s \in Catalog |-> Answer(s, broken)]
        /\ lkg' = [s \in InRegion |->
                      IF Good(s) /\ WorthKeeping(Reconcile(s)) /\ s \notin broken
                      THEN [quote |-> Reconcile(s), life |-> LkgLife] ELSE lkg[s]]
  BY DEF Settle
<1>2. asked = "all" /\ asked' = "settled" /\ UNCHANGED <<config, replies, kept, captured, verdicts>>
  BY DEF Settle
<1>3. RepliesTyped /\ RepliesTyped'
  BY <1>2 DEF RepliesTyped, MarketInv
<1>4. KeptTyped'
  <2>1. ASSUME NEW s \in InRegion
        PROVE  /\ lkg'[s] = [quote |-> lkg'[s].quote, life |-> lkg'[s].life] /\ lkg'[s].life \in Nat
               /\ lkg'[s].life > 0 => lkg'[s].quote \in RemoteQuotePatch
    <3>1. CASE lkg'[s] = lkg[s]
      BY <3>1 DEF MarketInv, KeptTyped
    <3>2. CASE Good(s) /\ lkg'[s] = [quote |-> Reconcile(s), life |-> LkgLife]
      BY <1>3, <3>2, Reconciled DEF QuotesAssumption
    <3> QED BY <1>1, <3>1, <3>2
  <2> QED BY <1>1, <2>1 DEF KeptTyped
<1>5. \A s : Candidates(s)' = Candidates(s) /\ Contradicted(s)' = Contradicted(s)
  BY <1>2 DEF Candidates, Contradicted
<1>6. ASSUME NEW s \in Catalog, Vouched(quotes'[s])
      PROVE  s \in InRegion /\ LivePrice(s)'
  <2>1. s \in InRegion /\ Good(s) /\ quotes'[s] = Reconcile(s)
    BY <1>1, <1>3, <1>6, AnswersVouched DEF MarketInv
  <2>2. /\ Chosen(s) \in Candidates(s) /\ ~ Contradicted(s)
        /\ quotes'[s].price = replies[Chosen(s)][s].price
        /\ replies[Chosen(s)][s].mode # "stale"
    BY <1>3, <1>6, <2>1, Reconciled, BestReply DEF Vouched
  <2> QED BY <1>2, <1>5, <2>1, <2>2 DEF LivePrice
<1>7. ASSUME NEW s \in InRegion, NEW p \in Candidates(s), replies[p][s].mode # "stale", ~ Contradicted(s)
      PROVE  QuoteQuality(s)' = "verified"
  <2>1. Good(s) /\ s \in Catalog /\ s \notin Foreign
    BY <1>3, <1>7, Reconciled DEF InRegion
  <2>2. quotes'[s] = Reconcile(s)
    BY <1>1, <2>1 DEF Answer
  <2>3. replies[Chosen(s)][s] \in ReplyType /\ replies[Chosen(s)][s].mode # "stale"
    BY <1>3, <1>7, BestReply
  <2>4. replies[Chosen(s)][s].mode \in {"live", "delayed"}
    BY <2>3 DEF ReplyType
  <2>5. /\ Reconcile(s) # NoQuote /\ Reconcile(s).quality \in {"provider", "verified"}
        /\ Reconcile(s).mode \in {"live", "delayed"} /\ Reconcile(s).decision = "accepted"
    BY <1>3, <2>1, <2>3, <2>4, Reconciled DEF QuotesAssumption, Decision
  <2> QED BY <2>2, <2>5 DEF QuoteQuality
<1>8. captured' = {} /\ \A r \in Rules : verdicts'[r] = "none"
  BY <1>2 DEF MarketInv
<1>9. RepliesAreUsedRight'
  <2>1. JudgedPricesAreLive'
    BY <1>8 DEF JudgedPricesAreLive, PriceRules, Judged
  <2>2. GoodReplyIsUsed'
    BY <1>2, <1>5, <1>7 DEF GoodReplyIsUsed
  <2> QED BY <2>1, <2>2 DEF RepliesAreUsedRight
<1> QED BY <1>1, <1>2, <1>3, <1>4, <1>6, <1>8, <1>9 DEF MarketInv

\* No provider is configured.
LEMMA SimulationKeeps ==
  ASSUME QuotesAssumption, MarketInv, Unconfigured
  PROVE  MarketInv'
<1>1. /\ asked = "idle" /\ asked' = "settled" /\ UNCHANGED <<config, replies, lkg, kept, captured, verdicts>>
      /\ quotes' = [s \in Catalog |-> IF config.mock THEN FallbackQuote(s) ELSE NoQuote]
  BY DEF Unconfigured
<1>2. \A s \in Catalog : ~ Vouched(quotes'[s])
  BY <1>1 DEF Vouched, FallbackQuote
<1>3. captured' = {} /\ \A r \in Rules : verdicts'[r] = "none"
  BY <1>1 DEF MarketInv
<1>4. \A s \in InRegion, p \in Providers : replies'[p][s] = NoQuote
  BY <1>1 DEF MarketInv, NoReplies
<1>5. \A s \in InRegion : Candidates(s)' = {}
  BY <1>4 DEF Candidates, Valid
<1>6. RepliesAreUsedRight'
  BY <1>3, <1>5 DEF RepliesAreUsedRight, JudgedPricesAreLive, GoodReplyIsUsed, PriceRules, Judged
<1>7. RepliesTyped' /\ KeptTyped'
  BY <1>1 DEF MarketInv, RepliesTyped, KeptTyped
<1> QED BY <1>1, <1>2, <1>3, <1>6, <1>7 DEF MarketInv

\* What follows from an answer that nothing has changed since.
LEMMA JudgingKeeps ==
  ASSUME QuotesAssumption, MarketInv, BuildObservation \/ CaptureMarket
  PROVE  MarketInv'
<1>1. asked = "settled" /\ asked' = "judged" /\ UNCHANGED <<config, replies, quotes, lkg>>
  BY DEF BuildObservation, CaptureMarket
<1>2. \A s : LivePrice(s)' <=> LivePrice(s)
  BY <1>1 DEF LivePrice, Candidates, Contradicted
<1>3. \A s \in Catalog : Vouched(quotes[s]) => s \in InRegion /\ LivePrice(s)
  BY DEF MarketInv
<1>4. ASSUME NEW r \in PriceRules, Judged(r)'
      PROVE  r.symbol \in InRegion /\ LivePrice(r.symbol)
  <2>1. r \in Rules /\ r.kind = "thesis_invalidation" /\ r.condition # "no_verified_price_days"
    BY DEF PriceRules
  <2>2. verdicts[r] = "none"
    BY <1>1, <2>1 DEF MarketInv
  <2>3. CASE BuildObservation
    <3>1. PICK histories : verdicts' = [x \in Rules |-> EvaluateRule(x, ComputePortfolioRisk(histories))]
      BY <2>3 DEF BuildObservation
    <3>2. verdicts'[r] = EvaluateThesis(r)
      BY <2>1, <3>1 DEF EvaluateRule
    <3>3. r.symbol \in DOMAIN Held /\ QuoteQuality(r.symbol) = "verified"
      BY <1>4, <2>1, <3>2 DEF Judged, EvaluateThesis
    <3> QED BY <1>3, <3>3, VouchedFor DEF QuotesAssumption
  <2>4. CASE CaptureMarket
    BY <1>4, <2>2, <2>4 DEF CaptureMarket, Judged
  <2> QED BY <2>3, <2>4
<1>5. ASSUME NEW s \in captured' PROVE s \in InRegion /\ LivePrice(s)
  <2>1. CASE BuildObservation
    BY <1>1, <1>5, <2>1 DEF BuildObservation, MarketInv
  <2>2. CASE CaptureMarket
    BY <1>3, <1>5, <2>2, VouchedFor DEF CaptureMarket
  <2> QED BY <2>1, <2>2
<1>6. RepliesAreUsedRight'
  BY <1>1, <1>2, <1>4, <1>5 DEF RepliesAreUsedRight, JudgedPricesAreLive, GoodReplyIsUsed, PriceRules
<1>7. RepliesTyped' /\ KeptTyped'
  BY <1>1 DEF MarketInv, RepliesTyped, KeptTyped
<1> QED BY <1>1, <1>2, <1>3, <1>6, <1>7 DEF MarketInv

\* What is kept for the next request grows older.
LEMMA NextRequestKeeps ==
  ASSUME QuotesAssumption, MarketInv, Later
  PROVE  MarketInv'
<1>1. PICK days \in {0, 1} : lkg' = [s \in InRegion |-> Aged(lkg[s], days)]
  BY DEF Later
<1>2. /\ asked' = "idle" /\ replies' = NoReplies /\ config' = config /\ captured' = {}
      /\ quotes' = [s \in Catalog |-> NoQuote] /\ verdicts' = [r \in Rules |-> "none"]
  BY DEF Later
<1>3. ASSUME NEW s \in InRegion
      PROVE  /\ lkg'[s] = [quote |-> lkg'[s].quote, life |-> lkg'[s].life] /\ lkg'[s].life \in Nat
             /\ lkg'[s].life > 0 => lkg'[s].quote \in RemoteQuotePatch
  <2>1. lkg'[s] = Aged(lkg[s], days) /\ lkg[s].life \in Nat
    BY <1>1 DEF MarketInv, KeptTyped
  <2>2. CASE lkg[s].life <= days
    BY <2>1, <2>2 DEF Aged, NothingKept
  <2>3. CASE lkg[s].life > days
    <3>1. PICK q \in RemoteQuotePatch : q = lkg[s].quote
      BY <2>1, <2>3 DEF MarketInv, KeptTyped
    <3>2. [q EXCEPT !.age = q.age + days] \in RemoteQuotePatch
      BY DEF RemoteQuotePatch
    <3>3. lkg'[s] = [quote |-> [q EXCEPT !.age = q.age + days], life |-> lkg[s].life - days]
      BY <2>1, <2>3, <3>1 DEF Aged
    <3>4. PICK aged \in RemoteQuotePatch : aged = [q EXCEPT !.age = q.age + days]
      BY <3>2
    <3>5. lkg'[s] = [quote |-> aged, life |-> lkg[s].life - days]
      BY <3>3, <3>4
    <3> QED BY <2>1, <2>3, <3>5
  <2> QED BY <2>1, <2>2, <2>3
<1>4. KeptTyped'
  BY <1>1, <1>3 DEF KeptTyped
<1>5. RepliesTyped'
  BY <1>2, NoRepliesTyped DEF RepliesTyped
<1>6. \A s \in Catalog : ~ Vouched(quotes'[s])
  BY <1>2 DEF Vouched
<1>7. RepliesAreUsedRight'
  BY <1>2 DEF RepliesAreUsedRight, JudgedPricesAreLive, GoodReplyIsUsed, PriceRules, Judged
<1> QED BY <1>2, <1>4, <1>5, <1>6, <1>7 DEF MarketInv

LEMMA MarketStarts == QuotesAssumption /\ QuotesInit => MarketInv
<1> SUFFICES ASSUME QuotesInit PROVE MarketInv
  OBVIOUS
<1>1. KeptTyped
  BY DEF QuotesInit, KeptTyped, NothingKept
<1>2. RepliesTyped
  BY NoRepliesTyped DEF QuotesInit, RepliesTyped
<1>3. \A s \in Catalog : ~ Vouched(quotes[s])
  BY DEF QuotesInit, Vouched
<1>4. RepliesAreUsedRight
  BY DEF QuotesInit, RepliesAreUsedRight, JudgedPricesAreLive, GoodReplyIsUsed, PriceRules, Judged
<1> QED BY <1>1, <1>2, <1>3, <1>4 DEF QuotesInit, MarketInv

LEMMA MarketStep == QuotesAssumption /\ MarketInv /\ [QuotesNext]_quoteVars => MarketInv'
<1> SUFFICES ASSUME QuotesAssumption, MarketInv, [QuotesNext]_quoteVars PROVE MarketInv'
  OBVIOUS
<1>1. CASE UNCHANGED quoteVars
  <2>1. RepliesTyped' /\ KeptTyped' /\ \A s : LivePrice(s)' <=> LivePrice(s)
    BY <1>1 DEF quoteVars, MarketInv, RepliesTyped, KeptTyped, LivePrice, Candidates, Contradicted
  <2>2. RepliesAreUsedRight'
    BY <1>1 DEF quoteVars, MarketInv, RepliesAreUsedRight, JudgedPricesAreLive, GoodReplyIsUsed,
                PriceRules, Judged, LivePrice, Candidates, Contradicted, QuoteQuality
  <2> QED BY <1>1, <2>1, <2>2 DEF quoteVars, MarketInv
<1> QED BY <1>1, AskingKeeps, SettlingKeeps, SimulationKeeps, JudgingKeeps, NextRequestKeeps DEF QuotesNext

\* RepliesAreUsedRight: a rule on a price is judged, and a price observed or shown to alerts, only when
\* a provider replied with it in this request and no other contradicts it, and such a reply is never
\* passed over for an older one (service.ts:106, evaluate.ts:86, quality.ts:214).
THEOREM RepliesAreUsedRightAlways == QuotesSpec => []RepliesAreUsedRight
<1>1. MarketInv => RepliesAreUsedRight
  BY DEF MarketInv
<1> QED BY <1>1, MarketStarts, MarketStep, QuotesAssumption, PTL DEF QuotesSpec
=============================================================================
