--------------------------- MODULE AlertEvaluation ---------------------------
(***************************************************************************)
(* Price alerts and the evaluators that watch them: the cron job and any   *)
(* number of overlapping runs of it.  An evaluator claims a batch of       *)
(* alerts under a lease, loads their quotes and then settles one alert     *)
(* after the other.  The functions it settles them with look at the state  *)
(* of the alert and not at who holds its lease.                            *)
(*                                                                         *)
(* Time is counted in ticks.  A function that reaches its maximal duration *)
(* is killed by the platform, whatever it was doing.                       *)
(***************************************************************************)
EXTENDS Integers, Sequences, FiniteSets, SequencesExt

CONSTANTS
  Alerts,       \* alerts that may ever be created
  Condition,    \* Alerts -> {"above", "below"}
  Prices,       \* prices of verified quotes
  Target,       \* the target of every alert
  Evaluators,   \* overlapping evaluations
  BatchSize,    \* ALERT_BATCH_SIZE
  Lease,        \* ALERT_EVALUATION_LEASE_SECONDS, in ticks
  MaxRun,       \* maxDuration of the function, in ticks
  LostAnswers   \* may the answer of a committed call be lost?

ASSUME AlertAssumption ==
  /\ Condition \in [Alerts -> {"above", "below"}]
  /\ Prices \subseteq Int /\ Target \in Int
  /\ BatchSize \in Nat \ {0} /\ Lease \in Nat \ {0} /\ MaxRun \in Nat \ {0}
  /\ LostAnswers \in BOOLEAN

VARIABLES
  alerts,   \* price_alerts: Alerts -> [state, last, lease]
  order,    \* the armed alerts by last_evaluated_at, else created_at
  evals     \* Evaluators -> [age, batch], batch: [alert, previous, settled]

vars == <<alerts, order, evals>>

Idle == [age |-> 0, batch |-> {}]

Due(a) == alerts[a].state = "armed" /\ alerts[a].lease = 0

CrossesAtTarget(condition, previous, current) ==  \* mutant: >= on both sides
  IF condition = "above" THEN previous <= Target /\ current >= Target
  ELSE previous >= Target /\ current <= Target

didCross(condition, previous, current) ==
  IF condition = "above" THEN previous < Target /\ current >= Target
  ELSE previous > Target /\ current <= Target

Crossing(item, price) == didCross(Condition[item.alert], item.previous, price)

-----------------------------------------------------------------------------
(* The owner.                                                               *)

\* The baseline is a verified quote; being beyond the target is no crossing.
Create(a) ==
  /\ alerts[a].state = "none"
  /\ \E baseline \in Prices :
       alerts' = [alerts EXCEPT ![a] = [state |-> "armed", last |-> baseline, lease |-> 0]]
  /\ order' = Append(order, a)
  /\ UNCHANGED evals

Delete(a) ==
  /\ alerts[a].state \in {"armed", "triggered"}
  /\ alerts' = [alerts EXCEPT ![a].state = "deleted", ![a].lease = 0]
  /\ order' = Remove(order, a)
  /\ UNCHANGED evals

-----------------------------------------------------------------------------
(* An evaluation.                                                           *)

OldestByCreation(n) ==  \* mutant: ranked by creation only, as listArmedAlerts does
  {a \in Alerts : Due(a) /\ Cardinality({b \in Alerts : Due(b) /\ b < a}) < n}

\* Due alerts that were not evaluated for longer than a.
Ahead(a) == {b \in Alerts : Due(b) /\ \E i, j \in DOMAIN order :
                                        i < j /\ order[i] = b /\ order[j] = a}

\* The n due alerts that were not evaluated for the longest time.
Oldest(n) == {a \in Alerts : Due(a) /\ Cardinality(Ahead(a)) < n}

ClaimedWithoutLease(a) == alerts[a]  \* mutant of LeaseTaken

LeaseTaken(a) == [alerts[a] EXCEPT !.lease = Lease]

\* claim_due_price_alerts
Claim(p) ==
  LET batch == Oldest(BatchSize) IN
  /\ evals[p] = Idle
  /\ batch # {}
  /\ alerts' = [a \in Alerts |-> IF a \in batch THEN LeaseTaken(a) ELSE alerts[a]]
  /\ evals' = [evals EXCEPT ![p].batch =
       {[alert |-> a, previous |-> alerts[a].last, settled |-> FALSE] : a \in batch}]
  /\ UNCHANGED order

Drop(p, item) ==
  LET rest == evals[p].batch \ {item} IN
  evals' = [evals EXCEPT ![p] = IF rest = {} THEN Idle ELSE [@ EXCEPT !.batch = rest]]

\* The answer of a committed call arrives, or is lost: then the alert is released
\* once more.
Settled(p, item) ==
  \/ Drop(p, item)
  \/ /\ LostAnswers /\ ~item.settled
     /\ evals' = [evals EXCEPT ![p].batch =
                    (@ \ {item}) \cup {[item EXCEPT !.settled = TRUE]}]

StateIgnored(a) == TRUE  \* mutant of Armed

Armed(a) == alerts[a].state = "armed"

Forgotten(a) == Remove(order, a)  \* mutant of Evaluated

Evaluated(a) == Append(Remove(order, a), a)

\* No crossing: complete_price_alert_observation.
Observe(p, item, price) ==
  LET a == item.alert IN
  /\ ~item.settled /\ ~Crossing(item, price)
  /\ IF Armed(a)
     THEN /\ alerts' = [alerts EXCEPT ![a].last = price, ![a].lease = 0]
          /\ order' = Evaluated(a)
     ELSE UNCHANGED <<alerts, order>>
  /\ Settled(p, item)

\* A crossing: claim_price_alert_and_enqueue.
Trigger(p, item, price) ==
  LET a == item.alert IN
  /\ ~item.settled /\ Crossing(item, price)
  /\ IF Armed(a)
     THEN /\ alerts' = [alerts EXCEPT ![a] = [state |-> "triggered", last |-> price,
                                              lease |-> 0]]
          /\ order' = Remove(order, a)
     ELSE UNCHANGED <<alerts, order>>
  /\ Settled(p, item)

\* No verified quote, or a call failed: release_price_alert_evaluation.
Release(p, item) ==
  LET a == item.alert IN
  /\ IF Armed(a)
     THEN /\ alerts' = [alerts EXCEPT ![a].lease = 0]
          /\ order' = Evaluated(a)
     ELSE UNCHANGED <<alerts, order>>
  /\ Drop(p, item)

\* A call failed and the release failed, too: the lease has to run out.
ReleaseFails(p, item) ==
  /\ Drop(p, item)
  /\ UNCHANGED <<alerts, order>>

\* The function crashes or is killed; its leases stay.
Kill(p) ==
  /\ evals[p] # Idle
  /\ evals' = [evals EXCEPT ![p] = Idle]
  /\ UNCHANGED <<alerts, order>>

\* Time passes.  No function lives longer than MaxRun.
Tick ==
  /\ \E a \in Alerts : alerts[a].lease > 0
  /\ \A p \in Evaluators : evals[p] # Idle => evals[p].age < MaxRun
  /\ alerts' = [a \in Alerts |->
       [alerts[a] EXCEPT !.lease = IF @ > 0 THEN @ - 1 ELSE 0]]
  /\ evals' = [p \in Evaluators |->
       IF evals[p] = Idle THEN Idle ELSE [evals[p] EXCEPT !.age = @ + 1]]
  /\ UNCHANGED order

-----------------------------------------------------------------------------

Init ==
  /\ alerts = [a \in Alerts |-> [state |-> "none", last |-> 0, lease |-> 0]]
  /\ order = <<>>
  /\ evals = [p \in Evaluators |-> Idle]

Owner == \E a \in Alerts : Create(a) \/ Delete(a)

Settle(p) ==
  \E item \in evals[p].batch :
    Release(p, item) \/ \E price \in Prices : Observe(p, item, price) \/ Trigger(p, item, price)

Next ==
  \/ Owner \/ Tick
  \/ \E p \in Evaluators :
       \/ Claim(p) \/ Settle(p) \/ Kill(p)
       \/ \E item \in evals[p].batch : ReleaseFails(p, item)

Spec == Init /\ [][Next]_vars

\* The cron job comes back, time passes, and a running function goes on.  It is not
\* killed, nor cut off from the database, every time.
Fairness ==
  /\ WF_vars(Tick)
  /\ \A p \in Evaluators : WF_vars(Claim(p)) /\ SF_vars(Settle(p))

FairSpec == Spec /\ Fairness

-----------------------------------------------------------------------------

AlertStates == {"none", "armed", "triggered", "deleted"}

Items == [alert : Alerts, previous : Prices, settled : BOOLEAN]

\* Rows, ranking and batches have their shape; exactly the armed alerts are ranked.
TypeOK ==
  /\ alerts \in [Alerts -> [state : AlertStates, last : Prices \cup {0}, lease : 0..Lease]]
  /\ order \in Seq(Alerts)
  /\ \A a \in Alerts : Armed(a) <=> \E i \in DOMAIN order : order[i] = a
  /\ evals \in [Evaluators -> [age : 0..MaxRun, batch : SUBSET Items]]

\* An alert is in the hands of one evaluator at a time.
OneEvaluatorPerAlert ==
  \A p, q \in Evaluators : \A i \in evals[p].batch, j \in evals[q].batch :
    i.alert = j.alert => p = q /\ i = j

Promise == INSTANCE PriceAlert WITH
  state <- [a \in Alerts |-> alerts[a].state],
  last  <- [a \in Alerts |-> alerts[a].last]

\* No crossing between two observations is missed, none is invented, and an alert
\* fires once, although observations are computed from prices read long before.
FiresOnCrossing == Promise!Spec

\* Even when leases run out under a running evaluator, or answers are lost, what
\* has fired stays as it fired: late results change nothing.
LateResultsChangeNothing ==
  [][\A a \in Alerts :
       alerts[a].state \in {"triggered", "deleted"} =>
         \/ alerts'[a] = alerts[a]
         \/ alerts'[a].state = "deleted"]_vars

\* Every armed alert is claimed again and again, whatever is ahead of it.
EveryAlertIsWatched ==
  \A a \in Alerts :
    []<>(~Armed(a) \/ \E p \in Evaluators : \E i \in evals[p].batch : i.alert = a)
=============================================================================
