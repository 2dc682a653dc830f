---------------------------- MODULE BrowserProofs ----------------------------
(***************************************************************************)
(* Why a user is shown what is hers, in its order, for any number of alerts, *)
(* evaluators, users, symbols and portfolios.                              *)
(*                                                                         *)
(* Alerts fire exactly on crossings: as long as a lease outlives the       *)
(* function that took it and no answer is lost, an armed alert in          *)
(* somebody's batch is still leased, so that nobody else can claim it, and *)
(* the price it was claimed with is still the one observed last.           *)
(*                                                                         *)
(* The prices, the lists and the page of a browser: every load and request *)
(* under way carries something true of the moment it began, of the account *)
(* or portfolio it was made for, until it is overtaken or answered.         *)
(***************************************************************************)
EXTENDS AlertEvaluation, WatchlistSync, AlertSync, BrowserMarket, PortfolioDesk, Assistant, TLAPS

\* The setting of the theorems: config.ts:180 allows leases that do not satisfy it.
LeaseOutlivesRun == Lease > MaxRun /\ LostAnswers = FALSE

Row  == [state : AlertStates, last : Int, lease : Nat]
Item == [alert : Alerts, previous : Int, settled : {FALSE}]

Shapes ==
  /\ alerts \in [Alerts -> Row]
  /\ evals \in [Evaluators -> [age : Nat, batch : SUBSET Item]]

\* What an evaluator knows of an armed alert in its batch.
Held ==
  \A p \in Evaluators : \A i \in evals[p].batch :
    /\ evals[p].age <= MaxRun /\ alerts[i.alert].state # "none"
    /\ Armed(i.alert) => /\ alerts[i.alert].lease + evals[p].age >= Lease
                         /\ i.previous = alerts[i.alert].last

HeldAlone == Shapes /\ Held /\ OneEvaluatorPerAlert

-----------------------------------------------------------------------------
(* One lemma for each kind of step.                                         *)

LEMMA Facts ==
  ASSUME Shapes
  PROVE  /\ \A a \in Alerts : alerts[a] \in Row /\ alerts[a].lease \in Nat
                              /\ alerts[a].last \in Int
         /\ \A p \in Evaluators : /\ evals[p].age \in Nat
                                  /\ evals[p].batch \subseteq Item
         /\ \A i \in Item : i.alert \in Alerts /\ i.settled = FALSE
         /\ Idle.age = 0 /\ Idle.batch = {}
         /\ Idle \in [age : Nat, batch : SUBSET Item]
<1>1. \A a \in Alerts : alerts[a] \in Row
  BY DEF Shapes
<1>2. \A a \in Alerts : alerts[a].lease \in Nat /\ alerts[a].last \in Int
  BY <1>1 DEF Row
<1>3. \A p \in Evaluators : evals[p].age \in Nat /\ evals[p].batch \subseteq Item
  BY DEF Shapes
<1>4. \A i \in Item : i.alert \in Alerts /\ i.settled = FALSE
  BY DEF Item
<1>5. Idle.age = 0 /\ Idle.batch = {} /\ Idle \in [age : Nat, batch : SUBSET Item]
  BY DEF Idle
<1> QED BY <1>1, <1>2, <1>3, <1>4, <1>5

\* An item leaves its batch, and the row of its alert changes or does not.
LEMMA DropStep ==
  ASSUME HeldAlone, LeaseOutlivesRun, NEW p \in Evaluators, NEW item \in evals[p].batch,
         Drop(p, item),
         \/ alerts' = alerts
         \/ \E x \in Row : Armed(item.alert) /\ x.state # "none"
                         /\ alerts' = [alerts EXCEPT ![item.alert] = x]
  PROVE  HeldAlone'
<1> DEFINE a == item.alert
           rest == evals[p].batch \ {item}
<1>1. Shapes /\ Held /\ OneEvaluatorPerAlert
  BY DEF HeldAlone
<1>2. a \in Alerts
  BY <1>1, Facts
<1>3. /\ evals' \in [Evaluators -> [age : Nat, batch : SUBSET Item]]
      /\ evals'[p].batch = rest
      /\ rest # {} => evals'[p].age = evals[p].age
      /\ \A q \in Evaluators : q # p => evals'[q] = evals[q]
  BY <1>1, Facts DEF Drop, Shapes
<1>4. /\ alerts' \in [Alerts -> Row]
      /\ \A b \in Alerts : b # a => alerts'[b] = alerts[b]
      /\ ~Armed(a) => alerts' = alerts
      /\ alerts'[a] = alerts[a] \/ alerts'[a].state # "none"
  BY <1>1, <1>2 DEF Shapes
<1>5. ASSUME NEW q \in Evaluators, NEW i \in evals'[q].batch
      PROVE  i \in evals[q].batch /\ evals'[q].age = evals[q].age /\ ~(q = p /\ i = item)
  BY <1>3, <1>5
<1>6. ASSUME NEW q \in Evaluators, NEW i \in evals'[q].batch, alerts'[i.alert].state = "armed"
      PROVE  alerts'[i.alert] = alerts[i.alert] /\ Armed(i.alert)
  <2>1. i \in evals[q].batch /\ i.alert \in Alerts
    BY <1>1, <1>5, Facts
  <2>2. CASE i.alert = a /\ Armed(a)
    <3>1. q = p /\ i = item
      BY <1>1, <2>1, <2>2 DEF OneEvaluatorPerAlert
    <3> QED BY <1>5, <3>1
  <2>3. CASE ~(i.alert = a /\ Armed(a))
    BY <1>4, <1>6, <2>1, <2>3 DEF Armed
  <2> QED BY <2>2, <2>3
<1>7. Held'
  <2> SUFFICES ASSUME NEW q \in Evaluators, NEW i \in evals'[q].batch
               PROVE  /\ evals'[q].age <= MaxRun /\ alerts'[i.alert].state # "none"
                      /\ alerts'[i.alert].state = "armed" =>
                           /\ alerts'[i.alert].lease + evals'[q].age >= Lease
                           /\ i.previous = alerts'[i.alert].last
    BY DEF Held, Armed
  <2>1. i \in evals[q].batch /\ evals'[q].age = evals[q].age
    BY <1>5
  <2>2. evals[q].age <= MaxRun /\ alerts'[i.alert].state # "none"
    <3>1. i.alert \in Alerts
      BY <1>1, <2>1, Facts
    <3> QED BY <1>1, <1>4, <2>1, <3>1 DEF Held
  <2>3. ASSUME alerts'[i.alert].state = "armed"
        PROVE  alerts'[i.alert] = alerts[i.alert] /\ Armed(i.alert)
    BY <1>6, <2>3
  <2> QED BY <1>1, <2>1, <2>2, <2>3 DEF Held
<1>8. OneEvaluatorPerAlert'
  BY <1>1, <1>5 DEF OneEvaluatorPerAlert
<1> QED BY <1>3, <1>4, <1>7, <1>8 DEF HeldAlone, Shapes

LEMMA OwnerStep ==
  ASSUME HeldAlone, NEW a \in Alerts, Create(a) \/ Delete(a),
         AlertAssumption
  PROVE  HeldAlone'
<1>1. Shapes /\ Held /\ OneEvaluatorPerAlert /\ evals' = evals
  BY DEF HeldAlone, Create, Delete
<1>2. PICK x \in Row :
        /\ alerts' = [alerts EXCEPT ![a] = x] /\ x.state # "none"
        /\ x.state = "armed" => alerts[a].state = "none"
  <2>1. alerts[a] \in Row
    BY <1>1, Facts
  <2>2. CASE Create(a)
    <3>1. PICK baseline \in Prices :
            alerts' = [alerts EXCEPT ![a] = [state |-> "armed", last |-> baseline,
                                             lease |-> 0]]
      BY <2>2 DEF Create
    <3>2. [state |-> "armed", last |-> baseline, lease |-> 0] \in Row
      BY DEF Row, AlertStates, AlertAssumption
    <3>3. alerts[a].state = "none"
      BY <2>2 DEF Create
    <3> QED BY <3>1, <3>2, <3>3
  <2>3. CASE Delete(a)
    <3> DEFINE x == [alerts[a] EXCEPT !.state = "deleted", !.lease = 0]
    <3>1. alerts' = [alerts EXCEPT ![a] = x]
      BY <2>3 DEF Delete
    <3>2. x \in Row /\ x.state = "deleted"
      BY <2>1 DEF Row, AlertStates
    <3> QED BY <3>1, <3>2
  <2> QED BY <2>2, <2>3
<1>3. /\ alerts' \in [Alerts -> Row] /\ alerts'[a] = x
      /\ \A b \in Alerts : b # a => alerts'[b] = alerts[b]
  BY <1>1, <1>2 DEF Shapes
<1>4. ASSUME NEW p \in Evaluators, NEW i \in evals[p].batch
      PROVE  /\ alerts'[i.alert].state # "none"
             /\ alerts'[i.alert].state = "armed" =>
                  alerts'[i.alert] = alerts[i.alert] /\ Armed(i.alert)
  <2>1. i.alert \in Alerts /\ alerts[i.alert].state # "none"
    BY <1>1, Facts DEF Held
  <2> QED BY <1>2, <1>3, <2>1 DEF Armed
<1>5. Held'
  BY <1>1, <1>4 DEF Held, Armed
<1>6. OneEvaluatorPerAlert'
  BY <1>1, <1>4 DEF OneEvaluatorPerAlert
<1> QED BY <1>1, <1>3, <1>5, <1>6 DEF HeldAlone, Shapes

\* Only due alerts are claimed, and an armed alert in a batch is not due.
LEMMA ClaimStep ==
  ASSUME HeldAlone, LeaseOutlivesRun, AlertAssumption, NEW p \in Evaluators, Claim(p)
  PROVE  HeldAlone'
<1> DEFINE claimed == Oldest(BatchSize)
           item(a) == [alert |-> a, previous |-> alerts[a].last, settled |-> FALSE]
<1>1. /\ Shapes /\ Held /\ OneEvaluatorPerAlert
      /\ Lease \in Nat /\ MaxRun \in Nat /\ Lease > MaxRun
  BY DEF HeldAlone, LeaseOutlivesRun, AlertAssumption
<1>2. /\ claimed \subseteq Alerts
      /\ \A a \in claimed : Armed(a) /\ alerts[a].lease = 0
  BY DEF Oldest, Due, Armed
<1>3. /\ evals[p] = Idle
      /\ alerts' = [a \in Alerts |-> IF a \in claimed THEN [alerts[a] EXCEPT !.lease = Lease]
                                    ELSE alerts[a]]
      /\ evals' = [evals EXCEPT ![p].batch = {item(a) : a \in claimed}]
  BY DEF Claim, LeaseTaken
<1>4. ASSUME NEW a \in claimed
      PROVE  /\ alerts'[a] \in Row /\ alerts'[a].lease = Lease
             /\ alerts'[a].state = "armed" /\ alerts'[a].last = alerts[a].last
             /\ item(a) \in Item
  <2>1. a \in Alerts /\ alerts[a] \in Row /\ alerts[a].last \in Int
    BY <1>1, <1>2, Facts
  <2>2. alerts'[a] = [alerts[a] EXCEPT !.lease = Lease]
    BY <1>3, <2>1
  <2> QED BY <1>1, <1>2, <2>1, <2>2 DEF Row, Armed, Item
<1>5. \A a \in Alerts : a \notin claimed => alerts'[a] = alerts[a]
  BY <1>3
<1>6. alerts' \in [Alerts -> Row]
  BY <1>1, <1>3, <1>4, <1>5, Facts
<1>7. /\ evals' \in [Evaluators -> [age : Nat, batch : SUBSET Item]]
      /\ evals'[p].batch = {item(a) : a \in claimed} /\ evals'[p].age = 0
      /\ \A q \in Evaluators : q # p => evals'[q] = evals[q]
  <2> DEFINE batch == {item(a) : a \in claimed}
  <2>1. batch \in SUBSET Item
    BY <1>4
  <2>2. evals' = [evals EXCEPT ![p] = [evals[p] EXCEPT !.batch = batch]]
    BY <1>3
  <2> HIDE DEF batch
  <2>3. evals[p] \in [age : Nat, batch : SUBSET Item] /\ evals[p].age = 0
    BY <1>1, <1>3, Facts
  <2>4. /\ [evals[p] EXCEPT !.batch = batch] \in [age : Nat, batch : SUBSET Item]
        /\ [evals[p] EXCEPT !.batch = batch].batch = batch
        /\ [evals[p] EXCEPT !.batch = batch].age = 0
    BY <2>1, <2>3
  <2> QED BY <1>1, <2>2, <2>4 DEF Shapes, batch
<1>8. ASSUME NEW q \in Evaluators, q # p, NEW i \in evals[q].batch
      PROVE  i.alert \in Alerts /\ i.alert \notin claimed
  <2>1. i.alert \in Alerts /\ evals[q].age \in Nat
    BY <1>1, <1>8, Facts
  <2>2. evals[q].age <= MaxRun
    BY <1>1, <1>8 DEF Held
  <2>3. Armed(i.alert) => alerts[i.alert].lease + evals[q].age >= Lease
    BY <1>1, <1>8 DEF Held
  <2>4. Armed(i.alert) => alerts[i.alert].lease # 0
    BY <1>1, <2>1, <2>2, <2>3
  <2> QED BY <1>2, <2>1, <2>4
<1>9. ASSUME NEW i \in evals'[p].batch
      PROVE  /\ i.alert \in claimed /\ i = item(i.alert)
             /\ i.previous = alerts[i.alert].last
  BY <1>7, <1>9
<1> HIDE DEF claimed, item
<1>10. Held'
  <2> SUFFICES ASSUME NEW q \in Evaluators, NEW i \in evals'[q].batch
               PROVE  /\ evals'[q].age <= MaxRun /\ alerts'[i.alert].state # "none"
                      /\ alerts'[i.alert].state = "armed" =>
                           /\ alerts'[i.alert].lease + evals'[q].age >= Lease
                           /\ i.previous = alerts'[i.alert].last
    BY DEF Held, Armed
  <2>1. CASE q = p
    BY <1>1, <1>4, <1>7, <1>9, <2>1
  <2>2. CASE q # p
    <3>1. i \in evals[q].batch /\ evals'[q].age = evals[q].age
      BY <1>7, <2>2
    <3>2. alerts'[i.alert] = alerts[i.alert]
      BY <1>5, <1>8, <2>2, <3>1
    <3> QED BY <1>1, <3>1, <3>2 DEF Held, Armed
  <2> QED BY <2>1, <2>2
<1>11. OneEvaluatorPerAlert'
  <2> SUFFICES ASSUME NEW q \in Evaluators, NEW r \in Evaluators,
                      NEW i \in evals'[q].batch, NEW j \in evals'[r].batch,
                      i.alert = j.alert
               PROVE  q = r /\ i = j
    BY DEF OneEvaluatorPerAlert
  <2>1. CASE q = p /\ r = p
    BY <1>9, <2>1
  <2>2. CASE q = p /\ r # p
    BY <1>7, <1>8, <1>9, <2>2
  <2>3. CASE q # p /\ r = p
    BY <1>7, <1>8, <1>9, <2>3
  <2>4. CASE q # p /\ r # p
    <3>1. i \in evals[q].batch /\ j \in evals[r].batch
      BY <1>7, <2>4
    <3>2. alerts'[i.alert] = alerts[i.alert]
      BY <1>5, <1>8, <2>4, <3>1
    <3> QED BY <1>1, <3>1, <3>2 DEF OneEvaluatorPerAlert
  <2> QED BY <2>1, <2>2, <2>3, <2>4
<1> QED BY <1>6, <1>7, <1>10, <1>11 DEF HeldAlone, Shapes

LEMMA KillStep ==
  ASSUME HeldAlone, NEW p \in Evaluators, Kill(p)
  PROVE  HeldAlone'
<1>1. Shapes /\ Held /\ OneEvaluatorPerAlert /\ alerts' = alerts /\ evals' = [evals EXCEPT ![p] = Idle]
  BY DEF HeldAlone, Kill
<1>2. /\ evals' \in [Evaluators -> [age : Nat, batch : SUBSET Item]]
      /\ \A q \in Evaluators : \A i \in evals'[q].batch : evals'[q] = evals[q]
  BY <1>1, Facts DEF Shapes
<1>3. Held' /\ OneEvaluatorPerAlert'
  BY <1>1, <1>2 DEF Held, OneEvaluatorPerAlert, Armed
<1> QED BY <1>1, <1>2, <1>3 DEF HeldAlone, Shapes

\* What a tick takes from the lease it adds to the age.
LEMMA TickStep ==
  ASSUME HeldAlone, LeaseOutlivesRun, AlertAssumption, Tick
  PROVE  HeldAlone'
<1>1. /\ Shapes /\ Held /\ OneEvaluatorPerAlert /\ Lease \in Nat /\ MaxRun \in Nat /\ Lease > MaxRun
      /\ \A p \in Evaluators : evals[p] # Idle => evals[p].age < MaxRun
      /\ alerts' = [a \in Alerts |->
           [alerts[a] EXCEPT !.lease = IF alerts[a].lease > 0 THEN alerts[a].lease - 1 ELSE 0]]
      /\ evals' = [p \in Evaluators |->
           IF evals[p] = Idle THEN Idle ELSE [evals[p] EXCEPT !.age = evals[p].age + 1]]
  BY DEF HeldAlone, LeaseOutlivesRun, AlertAssumption, Tick
<1>2. ASSUME NEW a \in Alerts
      PROVE  /\ alerts'[a] \in Row /\ alerts'[a].state = alerts[a].state
             /\ alerts'[a].last = alerts[a].last
             /\ alerts'[a].lease + 1 >= alerts[a].lease /\ alerts'[a].lease \in Nat
  <2> DEFINE n == IF alerts[a].lease > 0 THEN alerts[a].lease - 1 ELSE 0
  <2>1. alerts[a] \in Row /\ alerts[a].lease \in Nat
    BY <1>1, Facts
  <2>2. n \in Nat /\ n + 1 >= alerts[a].lease
    BY <2>1
  <2>3. alerts'[a] = [alerts[a] EXCEPT !.lease = n]
    BY <1>1
  <2> HIDE DEF n
  <2> QED BY <2>1, <2>2, <2>3 DEF Row
<1>3. ASSUME NEW p \in Evaluators
      PROVE  /\ evals'[p] \in [age : Nat, batch : SUBSET Item]
             /\ evals'[p].batch = evals[p].batch
             /\ evals'[p].batch # {} => evals[p].age < MaxRun
                                        /\ evals'[p].age = evals[p].age + 1
  <2>1. evals[p] \in [age : Nat, batch : SUBSET Item]
    BY <1>1 DEF Shapes
  <2>2. CASE evals[p] = Idle
    BY <1>1, <2>2, Facts
  <2>3. CASE evals[p] # Idle
    BY <1>1, <2>1, <2>3
  <2> QED BY <2>2, <2>3
<1>4. alerts' \in [Alerts -> Row] /\ evals' \in [Evaluators -> [age : Nat, batch : SUBSET Item]]
  BY <1>1, <1>2, <1>3
<1>5. Held'
  <2> SUFFICES ASSUME NEW q \in Evaluators, NEW i \in evals'[q].batch
               PROVE  /\ evals'[q].age <= MaxRun /\ alerts'[i.alert].state # "none"
                      /\ alerts'[i.alert].state = "armed" =>
                           /\ alerts'[i.alert].lease + evals'[q].age >= Lease
                           /\ i.previous = alerts'[i.alert].last
    BY DEF Held, Armed
  <2>1. /\ i \in evals[q].batch /\ evals[q].age \in Nat /\ i.alert \in Alerts
        /\ evals'[q].age = evals[q].age + 1 /\ evals[q].age < MaxRun
        /\ alerts[i.alert].lease \in Nat
    BY <1>1, <1>3, Facts
  <2>2. /\ alerts[i.alert].state # "none"
        /\ alerts[i.alert].state = "armed" =>
             /\ alerts[i.alert].lease + evals[q].age >= Lease
             /\ i.previous = alerts[i.alert].last
    BY <1>1, <2>1 DEF Held, Armed
  <2> QED BY <1>1, <1>2, <2>1, <2>2
<1>6. OneEvaluatorPerAlert'
  <2> SUFFICES ASSUME NEW q \in Evaluators, NEW r \in Evaluators,
                      NEW i \in evals'[q].batch, NEW j \in evals'[r].batch,
                      i.alert = j.alert
               PROVE  q = r /\ i = j
    BY DEF OneEvaluatorPerAlert
  <2>1. i \in evals[q].batch /\ j \in evals[r].batch /\ i.alert \in Alerts
    BY <1>1, <1>3, Facts
  <2> QED BY <1>1, <1>2, <2>1 DEF OneEvaluatorPerAlert
<1> QED BY <1>4, <1>5, <1>6 DEF HeldAlone, Shapes

\* Whatever is answered, without lost answers the item leaves its batch.
LEMMA SettleStep ==
  ASSUME HeldAlone, LeaseOutlivesRun, AlertAssumption,
         NEW p \in Evaluators, NEW item \in evals[p].batch, NEW price \in Int,
         \/ Observe(p, item, price) \/ Trigger(p, item, price)
         \/ Release(p, item) \/ ReleaseFails(p, item)
  PROVE  HeldAlone'
<1> DEFINE a == item.alert
<1>1. a \in Alerts /\ alerts[a] \in Row /\ LostAnswers = FALSE
  BY Facts DEF HeldAlone, LeaseOutlivesRun
<1>2. Drop(p, item)
  BY <1>1 DEF Observe, Trigger, Release, ReleaseFails, Settled
<1>3. \/ alerts' = alerts
      \/ \E x \in Row : Armed(a) /\ x.state # "none" /\ alerts' = [alerts EXCEPT ![a] = x]
  <2>1. CASE Observe(p, item, price) /\ Armed(a)
    <3> DEFINE x == [alerts[a] EXCEPT !.last = price, !.lease = 0]
    <3>1. alerts' = [alerts EXCEPT ![a] = x]
      BY <2>1 DEF Observe
    <3>2. x \in Row /\ x.state # "none"
      BY <1>1, <2>1 DEF Row, Armed
    <3> QED BY <2>1, <3>1, <3>2
  <2>2. CASE Trigger(p, item, price) /\ Armed(a)
    <3> DEFINE x == [state |-> "triggered", last |-> price, lease |-> 0]
    <3>1. alerts' = [alerts EXCEPT ![a] = x]
      BY <2>2 DEF Trigger
    <3>2. x \in Row /\ x.state # "none"
      BY <1>1 DEF Row, AlertStates
    <3> QED BY <2>2, <3>1, <3>2
  <2>3. CASE Release(p, item) /\ Armed(a)
    <3> DEFINE x == [alerts[a] EXCEPT !.lease = 0]
    <3>1. alerts' = [alerts EXCEPT ![a] = x]
      BY <2>3 DEF Release
    <3>2. x \in Row /\ x.state # "none"
      BY <1>1, <2>3 DEF Row, Armed
    <3> QED BY <2>3, <3>1, <3>2
  <2>4. CASE ~Armed(a) \/ ReleaseFails(p, item)
    BY <2>4 DEF Observe, Trigger, Release, ReleaseFails
  <2> QED BY <2>1, <2>2, <2>3, <2>4
<1> HIDE DEF a
<1> QED BY <1>2, <1>3, DropStep DEF a

LEMMA Initially ==
  ASSUME Init, AlertAssumption
  PROVE  HeldAlone
<1>1. Shapes
  BY DEF Init, Shapes, Row, AlertStates, Idle
<1>2. \A p \in Evaluators : evals[p].batch = {}
  BY DEF Init, Idle
<1> QED BY <1>1, <1>2 DEF HeldAlone, Held, OneEvaluatorPerAlert

LEMMA Preserved ==
  ASSUME HeldAlone, LeaseOutlivesRun, AlertAssumption, [Next]_vars
  PROVE  HeldAlone'
<1>1. CASE UNCHANGED vars
  BY <1>1 DEF vars, HeldAlone, Shapes, Held, Armed, OneEvaluatorPerAlert
<1>2. CASE Owner
  BY <1>2, OwnerStep DEF Owner
<1>3. CASE Tick
  BY <1>3, TickStep
<1>4. ASSUME NEW p \in Evaluators, Claim(p) \/ Kill(p)
      PROVE  HeldAlone'
  BY <1>4, ClaimStep, KillStep
<1>5. ASSUME NEW p \in Evaluators, NEW item \in evals[p].batch,
             Release(p, item) \/ ReleaseFails(p, item)
      PROVE  HeldAlone'
  <2>1. 0 \in Int
    OBVIOUS
  <2> QED BY <1>5, <2>1, SettleStep
<1>6. ASSUME NEW p \in Evaluators, NEW item \in evals[p].batch, NEW price \in Prices,
             Observe(p, item, price) \/ Trigger(p, item, price)
      PROVE  HeldAlone'
  BY <1>6, SettleStep DEF AlertAssumption
<1> QED BY <1>1, <1>2, <1>3, <1>4, <1>5, <1>6 DEF Next, Settle

-----------------------------------------------------------------------------
(* Every step is a step of the promise.                                     *)

State == [a \in Alerts |-> alerts[a].state]
Price == [a \in Alerts |-> alerts[a].last]

\* Changing the row of an alert changes its state and its price, and no other.
LEMMA RowChange ==
  ASSUME Shapes, NEW a \in Alerts
  PROVE  \A x : alerts' = [alerts EXCEPT ![a] = x] =>
           State' = [State EXCEPT ![a] = x.state] /\ Price' = [Price EXCEPT ![a] = x.last]
BY DEF Shapes, State, Price

LEMMA OwnerKeepsPromise ==
  ASSUME Shapes, NEW a \in Alerts, Create(a) \/ Delete(a)
  PROVE  Promise!Next
<1>1. CASE Create(a)
  <2>1. PICK baseline \in Prices :
          alerts' = [alerts EXCEPT ![a] = [state |-> "armed", last |-> baseline, lease |-> 0]]
    BY <1>1 DEF Create
  <2> DEFINE x == [state |-> "armed", last |-> baseline, lease |-> 0]
  <2>2. State' = [State EXCEPT ![a] = "armed"] /\ Price' = [Price EXCEPT ![a] = baseline]
    <3>1. alerts' = [alerts EXCEPT ![a] = x] /\ x.state = "armed" /\ x.last = baseline
      BY <2>1
    <3> HIDE DEF x
    <3>2. State' = [State EXCEPT ![a] = x.state] /\ Price' = [Price EXCEPT ![a] = x.last]
      BY <3>1, RowChange
    <3> QED BY <3>1, <3>2
  <2>3. State[a] = "none"
    BY <1>1 DEF Create, State
  <2>4. Promise!Observe(a, baseline)
    BY <2>2, <2>3 DEF Promise!Observe, State, Price
  <2> QED BY <2>4 DEF Promise!Next
<1>2. CASE Delete(a)
  <2> DEFINE x == [alerts[a] EXCEPT !.state = "deleted", !.lease = 0]
  <2>1. alerts' = [alerts EXCEPT ![a] = x] /\ alerts[a] \in Row
    BY <1>2 DEF Delete, Shapes
  <2>2. x.state = "deleted" /\ x.last = alerts[a].last
    BY <2>1 DEF Row
  <2> HIDE DEF x
  <2>3. State' = [State EXCEPT ![a] = x.state] /\ Price' = [Price EXCEPT ![a] = x.last]
    BY <2>1, RowChange
  <2>4. State' = [State EXCEPT ![a] = "deleted"] /\ Price' = Price
    BY <2>2, <2>3 DEF Price
  <2>5. State[a] \in {"armed", "triggered"}
    BY <1>2 DEF Delete, State
  <2>6. Promise!Delete(a)
    BY <2>4, <2>5 DEF Promise!Delete, State, Price
  <2> QED BY <2>6 DEF Promise!Next
<1> QED BY <1>1, <1>2

\* The price an armed alert was claimed with is the one observed last, so that the
\* evaluator and the promise agree on what is a crossing.
LEMMA SettleKeepsPromise ==
  ASSUME HeldAlone, NEW p \in Evaluators, NEW item \in evals[p].batch, NEW price \in Prices,
         Armed(item.alert), Observe(p, item, price) \/ Trigger(p, item, price)
  PROVE  Promise!Next
<1> DEFINE a == item.alert
<1>1. /\ Shapes /\ a \in Alerts /\ alerts[a] \in Row
      /\ State[a] = "armed" /\ Price[a] = item.previous
  BY Facts DEF HeldAlone, Held, Armed, State, Price
<1>2. Crossing(item, price) <=> Promise!Crosses(Condition[a], Price[a], price)
  BY <1>1 DEF Crossing, didCross, Promise!Crosses
<1>3. CASE Observe(p, item, price)
  <2> DEFINE x == [alerts[a] EXCEPT !.last = price, !.lease = 0]
  <2>1. alerts' = [alerts EXCEPT ![a] = x]
    BY <1>3 DEF Observe
  <2>2. x.state = State[a] /\ x.last = price
    BY <1>1 DEF Row, State
  <2> HIDE DEF x
  <2>3. State' = [State EXCEPT ![a] = x.state] /\ Price' = [Price EXCEPT ![a] = x.last]
    BY <1>1, <2>1, RowChange
  <2>4. State' = State /\ Price' = [Price EXCEPT ![a] = price]
    BY <2>2, <2>3 DEF State
  <2>5. ~Promise!Crosses(Condition[a], Price[a], price)
    BY <1>2, <1>3 DEF Observe
  <2> HIDE DEF a
  <2>6. Promise!Observe(a, price)
    BY <1>1, <2>3, <2>4, <2>5 DEF Promise!Observe, State, Price
  <2> QED BY <1>1, <2>6 DEF Promise!Next
<1>4. CASE Trigger(p, item, price)
  <2> DEFINE x == [state |-> "triggered", last |-> price, lease |-> 0]
  <2>1. alerts' = [alerts EXCEPT ![a] = x]
    BY <1>4 DEF Trigger
  <2>2. State' = [State EXCEPT ![a] = "triggered"] /\ Price' = [Price EXCEPT ![a] = price]
    <3>1. x.state = "triggered" /\ x.last = price
      OBVIOUS
    <3> HIDE DEF x
    <3>2. State' = [State EXCEPT ![a] = x.state] /\ Price' = [Price EXCEPT ![a] = x.last]
      BY <1>1, <2>1, RowChange
    <3> QED BY <3>1, <3>2
  <2>3. Promise!Crosses(Condition[a], Price[a], price)
    BY <1>2, <1>4 DEF Trigger
  <2> HIDE DEF a
  <2>4. Promise!Observe(a, price)
    BY <1>1, <2>2, <2>3 DEF Promise!Observe, State, Price
  <2> QED BY <1>1, <2>4 DEF Promise!Next
<1> QED BY <1>3, <1>4

\* Claims, releases, crashes, time and late answers do not show.
LEMMA LeasesDoNotShow ==
  ASSUME HeldAlone,
         \/ UNCHANGED vars \/ Tick
         \/ \E p \in Evaluators :
              \/ Claim(p) \/ Kill(p)
              \/ \E item \in evals[p].batch :
                   \/ Release(p, item) \/ ReleaseFails(p, item)
                   \/ /\ ~Armed(item.alert)
                      /\ \E price \in Prices : Observe(p, item, price) \/ Trigger(p, item, price)
  PROVE  UNCHANGED Promise!vars
<1>1. Shapes /\ \A a \in Alerts : alerts[a] \in Row
  BY Facts DEF HeldAlone
<1>2. ASSUME \A a \in Alerts : alerts'[a].state = alerts[a].state
                             /\ alerts'[a].last = alerts[a].last
      PROVE  UNCHANGED Promise!vars
  BY <1>2 DEF Promise!vars
<1>3. CASE Tick
  <2>1. ASSUME NEW a \in Alerts
        PROVE  alerts'[a].state = alerts[a].state /\ alerts'[a].last = alerts[a].last
    <3> DEFINE n == IF alerts[a].lease > 0 THEN alerts[a].lease - 1 ELSE 0
    <3>1. alerts'[a] = [alerts[a] EXCEPT !.lease = n]
      BY <1>3 DEF Tick
    <3> HIDE DEF n
    <3> QED BY <1>1, <3>1 DEF Row
  <2> QED BY <1>2, <2>1
<1>4. ASSUME NEW p \in Evaluators, Claim(p)
      PROVE  UNCHANGED Promise!vars
  <2>1. \A a \in Alerts : alerts'[a] = alerts[a] \/ alerts'[a] = [alerts[a] EXCEPT !.lease = Lease]
    BY <1>4 DEF Claim, LeaseTaken
  <2>2. \A a \in Alerts : alerts'[a].state = alerts[a].state /\ alerts'[a].last = alerts[a].last
    BY <1>1, <2>1 DEF Row
  <2> QED BY <1>2, <2>2
<1>5. ASSUME NEW p \in Evaluators, NEW item \in evals[p].batch, Release(p, item)
      PROVE  UNCHANGED Promise!vars
  <2> DEFINE b == item.alert
             x == [alerts[b] EXCEPT !.lease = 0]
  <2>1. b \in Alerts
    BY <1>1, Facts
  <2>2. alerts' = alerts \/ alerts' = [alerts EXCEPT ![b] = x]
    BY <1>5 DEF Release
  <2>3. x.state = alerts[b].state /\ x.last = alerts[b].last
    BY <1>1, <2>1 DEF Row
  <2> HIDE DEF b, x
  <2>4. \A a \in Alerts : alerts'[a].state = alerts[a].state /\ alerts'[a].last = alerts[a].last
    BY <1>1, <2>1, <2>2, <2>3 DEF Shapes
  <2> QED BY <1>2, <2>4
<1>6. ASSUME UNCHANGED alerts
      PROVE  UNCHANGED Promise!vars
  BY <1>2, <1>6
<1> QED BY <1>3, <1>4, <1>5, <1>6 DEF vars, Kill, ReleaseFails, Observe, Trigger

LEMMA StepKeepsPromise ==
  ASSUME HeldAlone, [Next]_vars
  PROVE  [Promise!Next]_(Promise!vars)
<1>1. CASE Owner
  <2>1. PICK a \in Alerts : Create(a) \/ Delete(a)
    BY <1>1 DEF Owner
  <2> QED BY <2>1, OwnerKeepsPromise DEF HeldAlone
<1>2. ASSUME NEW p \in Evaluators, NEW item \in evals[p].batch, NEW price \in Prices,
             Observe(p, item, price) \/ Trigger(p, item, price)
      PROVE  Promise!Next \/ UNCHANGED Promise!vars
  <2>1. CASE Armed(item.alert)
    BY <1>2, <2>1, SettleKeepsPromise
  <2>2. CASE ~Armed(item.alert)
    BY <1>2, <2>2, LeasesDoNotShow
  <2> QED BY <2>1, <2>2
<1>3. CASE Tick \/ UNCHANGED vars
  BY <1>3, LeasesDoNotShow
<1>4. ASSUME NEW p \in Evaluators,
             \/ Claim(p) \/ Kill(p)
             \/ \E item \in evals[p].batch : Release(p, item) \/ ReleaseFails(p, item)
      PROVE  UNCHANGED Promise!vars
  BY <1>4, LeasesDoNotShow
<1> QED BY <1>1, <1>2, <1>3, <1>4 DEF Next, Settle

-----------------------------------------------------------------------------
(* The theorems.                                                            *)

\* While leases outlive runs and no answer is lost, what an evaluator holds is its
\* own and its baseline is current: claims skip leased rows.
THEOREM HeldAloneAlways == LeaseOutlivesRun => (Spec => []HeldAlone)
<1> SUFFICES ASSUME LeaseOutlivesRun PROVE Spec => []HeldAlone
  OBVIOUS
<1> USE AlertAssumption
<1>1. Init => HeldAlone
  BY Initially
<1>2. HeldAlone /\ [Next]_vars => HeldAlone'
  BY Preserved
<1> QED BY <1>1, <1>2, PTL DEF Spec

\* No two evaluators work on one alert, nor one on it twice: claim_due_price_alerts
\* passes over the leased.
THEOREM OneEvaluatorPerAlertAlways == LeaseOutlivesRun => (Spec => []OneEvaluatorPerAlert)
<1> SUFFICES ASSUME LeaseOutlivesRun PROVE Spec => []OneEvaluatorPerAlert
  OBVIOUS
<1>1. Spec => []HeldAlone
  BY HeldAloneAlways
<1>2. HeldAlone => OneEvaluatorPerAlert
  BY DEF HeldAlone
<1> QED BY <1>1, <1>2, PTL

\* Claims, observations and triggers of any number of evaluators together implement
\* the promise: an alert fires once, on a crossing, and on every crossing observed.
THEOREM FiresOnCrossingAlways == LeaseOutlivesRun => (Spec => FiresOnCrossing)
<1> SUFFICES ASSUME LeaseOutlivesRun PROVE Spec => FiresOnCrossing
  OBVIOUS
<1>1. Spec => []HeldAlone
  BY HeldAloneAlways
<1>2. Init => Promise!Init
  BY DEF Init, Promise!Init
<1>3. HeldAlone /\ [Next]_vars => [Promise!Next]_(Promise!vars)
  BY StepKeepsPromise
<1> QED BY <1>1, <1>2, <1>3, PTL DEF Spec, FiresOnCrossing, Promise!Spec

-----------------------------------------------------------------------------
(* Late results, with leases of any length and with lost answers.           *)

Final(a) == alerts[a].state \in {"triggered", "deleted"}

Rows == alerts \in [Alerts -> Row] /\ \A a \in Alerts : Final(a) => alerts[a].lease = 0

\* An alert that is not final gets a row, or a final one is deleted.
LEMMA FinalRows ==
  ASSUME Rows, NEW a \in Alerts, NEW S \in SUBSET Row,
         \A x \in S : x.state \in {"triggered", "deleted"} => x.lease = 0,
         ~Final(a) \/ \A x \in S : x.state = "deleted",
         \E x \in S : alerts' = [alerts EXCEPT ![a] = x]
  PROVE  /\ Rows'
         /\ \A b \in Alerts : Final(b) => alerts'[b] = alerts[b] \/ alerts'[b].state = "deleted"
<1>1. PICK x \in S : alerts' = [alerts EXCEPT ![a] = x]
  OBVIOUS
<1>2. /\ alerts' \in [Alerts -> Row] /\ alerts'[a] = x
      /\ \A b \in Alerts : b # a => alerts'[b] = alerts[b]
  BY <1>1 DEF Rows
<1> QED BY <1>2 DEF Rows, Final

LEMMA FinalStays ==
  ASSUME Rows, AlertAssumption, [Next]_vars
  PROVE  /\ Rows'
         /\ \A b \in Alerts : Final(b) => alerts'[b] = alerts[b] \/ alerts'[b].state = "deleted"
<1> DEFINE Goal == /\ Rows'
                   /\ \A b \in Alerts : Final(b) =>
                        alerts'[b] = alerts[b] \/ alerts'[b].state = "deleted"
<1>1. /\ \A a \in Alerts : alerts[a] \in Row
      /\ \A a : Final(a) \/ Armed(a) => alerts[a].state # "none"
      /\ \A a : Armed(a) => ~Final(a)
      /\ Prices \subseteq Int /\ Lease \in Nat
  BY DEF Rows, Final, Armed, AlertAssumption
<1>2. CASE UNCHANGED alerts
  BY <1>2 DEF Rows, Final
<1>3. ASSUME NEW a \in Alerts, Create(a) PROVE Goal
  <2> DEFINE S == {[state |-> "armed", last |-> n, lease |-> 0] : n \in Prices}
  <2>1. ASSUME NEW n \in Prices
        PROVE  [state |-> "armed", last |-> n, lease |-> 0] \in Row
    BY <1>1 DEF Row, AlertStates
  <2>2. ~Final(a) /\ \E x \in S : alerts' = [alerts EXCEPT ![a] = x]
    BY <1>3 DEF Create, Final
  <2>3. S \in SUBSET Row /\ \A x \in S : x.state = "armed"
    <3>1. \A x \in S : x \in Row
      BY <2>1
    <3>2. \A x \in S : x.state = "armed"
      OBVIOUS
    <3> QED BY <3>1, <3>2
  <2> HIDE DEF S
  <2> QED BY <2>2, <2>3, FinalRows
<1>4. ASSUME NEW a \in Alerts, Delete(a) PROVE Goal
  <2> DEFINE S == {[alerts[a] EXCEPT !.state = "deleted", !.lease = 0]}
  <2>1. S \in SUBSET Row /\ \A x \in S : x.state = "deleted" /\ x.lease = 0
    <3> DEFINE x == [alerts[a] EXCEPT !.state = "deleted", !.lease = 0]
    <3>1. alerts[a] \in Row
      BY <1>1
    <3>2. x \in Row /\ x.state = "deleted" /\ x.lease = 0
      BY <3>1 DEF Row, AlertStates
    <3> QED BY <3>2
  <2>2. \E x \in S : alerts' = [alerts EXCEPT ![a] = x]
    BY <1>4 DEF Delete
  <2> HIDE DEF S
  <2> QED BY <2>1, <2>2, FinalRows
<1>5. ASSUME NEW p \in Evaluators, NEW item \in evals[p].batch, item.alert \in Alerts,
             Armed(item.alert),
             \/ Release(p, item)
             \/ \E price \in Prices : Observe(p, item, price) \/ Trigger(p, item, price)
      PROVE  Goal
  <2> DEFINE a == item.alert
             released == [alerts[a] EXCEPT !.lease = 0]
             observed(n) == [alerts[a] EXCEPT !.last = n, !.lease = 0]
             fired(n) == [state |-> "triggered", last |-> n, lease |-> 0]
             S == {released} \cup {observed(n) : n \in Prices} \cup {fired(n) : n \in Prices}
  <2>1. S \in SUBSET Row /\ \A x \in S : x.lease = 0
    <3>1. alerts[a] \in Row
      BY <1>1, <1>5
    <3>2. released \in Row /\ released.lease = 0
      BY <3>1 DEF Row
    <3>3. ASSUME NEW n \in Prices
          PROVE  /\ observed(n) \in Row /\ observed(n).lease = 0
                 /\ fired(n) \in Row /\ fired(n).lease = 0
      BY <1>1, <3>1 DEF Row, AlertStates
    <3> HIDE DEF released, observed, fired
    <3>4. ASSUME NEW x \in S PROVE x \in Row /\ x.lease = 0
      <4>1. CASE x = released
        BY <3>2, <4>1
      <4>2. CASE \E n \in Prices : x = observed(n) \/ x = fired(n)
        BY <3>3, <4>2
      <4> QED BY <4>1, <4>2
    <3> QED BY <3>4
  <2>2. \E x \in S : alerts' = [alerts EXCEPT ![a] = x]
    <3>1. CASE Release(p, item)
      <4>1. alerts' = [alerts EXCEPT ![a] = released]
        BY <1>5, <3>1 DEF Release
      <4> HIDE DEF released
      <4> QED BY <4>1
    <3>2. ASSUME NEW n \in Prices, Observe(p, item, n)
          PROVE  alerts' = [alerts EXCEPT ![a] = observed(n)]
      BY <1>5, <3>2 DEF Observe
    <3>3. ASSUME NEW n \in Prices, Trigger(p, item, n)
          PROVE  alerts' = [alerts EXCEPT ![a] = fired(n)]
      BY <1>5, <3>3 DEF Trigger
    <3> HIDE DEF released, observed, fired
    <3> QED BY <1>5, <3>1, <3>2, <3>3
  <2>3. ~Final(a) /\ a \in Alerts
    BY <1>1, <1>5
  <2> HIDE DEF S, a
  <2> QED BY <2>1, <2>2, <2>3, FinalRows
<1>6. ASSUME NEW p \in Evaluators, NEW item \in evals[p].batch,
             item.alert \notin Alerts \/ ~Armed(item.alert),
             \/ Release(p, item)
             \/ \E price \in Prices : Observe(p, item, price) \/ Trigger(p, item, price)
      PROVE  UNCHANGED alerts
  <2> DEFINE a == item.alert
  <2>1. CASE ~Armed(a)
    BY <1>6, <2>1 DEF Release, Observe, Trigger
  <2>2. CASE a \notin Alerts /\ Armed(a)
    <3>1. a \notin DOMAIN alerts
      BY <2>2 DEF Rows
    <3>2. CASE Release(p, item)
      BY <2>2, <3>1, <3>2 DEF Release, Rows
    <3>3. ASSUME NEW price \in Prices, Observe(p, item, price)
          PROVE  UNCHANGED alerts
      BY <2>2, <3>1, <3>3 DEF Observe, Rows
    <3>4. ASSUME NEW price \in Prices, Trigger(p, item, price)
          PROVE  UNCHANGED alerts
      BY <2>2, <3>1, <3>4 DEF Trigger, Rows
    <3> QED BY <1>6, <3>2, <3>3, <3>4
  <2> QED BY <1>6, <2>1, <2>2
<1>7. ASSUME NEW p \in Evaluators, Claim(p) PROVE Goal
  <2>1. alerts' = [a \in Alerts |-> IF a \in Oldest(BatchSize) THEN [alerts[a] EXCEPT !.lease = Lease]
                                    ELSE alerts[a]]
    BY <1>7 DEF Claim, LeaseTaken
  <2>2. \A a \in Oldest(BatchSize) : a \in Alerts /\ Armed(a)
    BY DEF Oldest, Due, Armed
  <2>3. \A a \in Alerts : alerts'[a] \in Row /\ (alerts'[a] = alerts[a] \/ alerts'[a].state = "armed")
    BY <1>1, <2>1, <2>2 DEF Row, Armed
  <2> HIDE DEF Oldest
  <2>4. alerts' \in [Alerts -> Row]
    BY <2>1, <2>3
  <2>5. \A a \in Alerts : Final(a) => alerts'[a] = alerts[a]
    BY <1>1, <2>1, <2>2
  <2> QED BY <2>3, <2>4, <2>5 DEF Rows, Final
<1>8. CASE Tick
  <2>1. alerts' = [a \in Alerts |-> [alerts[a] EXCEPT !.lease =
                     IF alerts[a].lease > 0 THEN alerts[a].lease - 1 ELSE 0]]
    BY <1>8 DEF Tick
  <2>2. ASSUME NEW a \in Alerts
        PROVE  /\ alerts'[a] \in Row /\ alerts'[a].state = alerts[a].state
               /\ alerts[a].lease = 0 => alerts'[a] = alerts[a]
    <3> DEFINE n == IF alerts[a].lease > 0 THEN alerts[a].lease - 1 ELSE 0
    <3>1. alerts'[a] = [alerts[a] EXCEPT !.lease = n]
      BY <2>1
    <3>2. n \in Nat /\ (alerts[a].lease = 0 => n = 0)
      BY <1>1 DEF Row
    <3> HIDE DEF n
    <3> QED BY <1>1, <3>1, <3>2 DEF Row
  <2> QED BY <2>1, <2>2 DEF Rows, Final
<1> QED BY <1>2, <1>3, <1>4, <1>5, <1>6, <1>7, <1>8
        DEF Next, Owner, Settle, Kill, ReleaseFails, vars

\* What has fired or was deleted stays as it is, whatever late results arrive: every
\* settling function looks at the state again.  No lease is needed for this.
THEOREM LateResultsChangeNothingAlways == Spec => LateResultsChangeNothing
<1> USE AlertAssumption
<1>1. Init => Rows
  BY DEF Init, Rows, Final, Row, AlertStates
<1>2. Rows /\ [Next]_vars => Rows'
  BY FinalStays
<1>3. Rows /\ [Next]_vars =>
        [\A a \in Alerts :
           alerts[a].state \in {"triggered", "deleted"} =>
             \/ alerts'[a] = alerts[a]
             \/ alerts'[a].state = "deleted"]_vars
  BY FinalStays DEF Final
<1> QED BY <1>1, <1>2, <1>3, PTL DEF Spec, LateResultsChangeNothing

-----------------------------------------------------------------------------
(* The prices of the browser.                                               *)

\* Quotes and candles have their shape, and once a quote of a provider was verified the engine leaves the
\* prices to the server.
Fed ==
  /\ sources \in [Universe -> {"simulated", "provider"}]
  /\ history \in [Universe -> {"none", "simulated", "provider", "overdrawn"}]
  /\ verified => external

\* A provider's price, once verified, stays: the engine's ticks wait for the server's prices to end, and
\* simulated quotes of the server's are no longer taken over.
LEMMA MarketStep ==
  ASSUME Fed, [MarketNext]_marketVars
  PROVE  Fed' /\ VerifiedIsKept
<1> DEFINE Goal == Fed' /\ VerifiedIsKept
<1> SUFFICES Goal
  OBVIOUS
<1> USE DEF Fed
<1>1. CASE UNCHANGED <<sources, history, external, verified>>
  BY <1>1 DEF VerifiedIsKept
<1>2. ASSUME NEW p \in Pages, Mount(p) \/ Unmount(p)
      PROVE  UNCHANGED <<sources, history, external, verified>>
  BY <1>2 DEF Mount, Unmount
<1>3. CASE VisibilityChanges \/ Refresh \/ PollQuotes
  BY <1>1, <1>3 DEF VisibilityChanges, Refresh, PollQuotes
<1>4. ASSUME NEW remote \in SUBSET asked, NEW live \in BOOLEAN, Answered(remote, live)
      PROVE  Goal
  <2> DEFINE proven == verified \/ live
             taken == IF proven THEN {} ELSE asked \ remote
             drawn == remote \cup {s \in taken : sources[s] = "simulated"}
  <2>1. /\ verified' = proven
        /\ sources' = [s \in Universe |-> IF s \in remote THEN "provider" ELSE sources[s]]
        /\ history' = [s \in Universe |-> IF s \in drawn \ remote /\ history[s] = "provider"
                                            THEN "overdrawn" ELSE history[s]]
    BY <1>4 DEF Answered, applyExternalQuotes
  <2>2. verified' => external'
    BY <1>4 DEF Answered, setExternalFeedActive
  <2>3. sources' \in [Universe -> {"simulated", "provider"}]
    BY <2>1
  <2>4. history' \in [Universe -> {"none", "simulated", "provider", "overdrawn"}]
    BY <2>1
  <2>5. VerifiedIsKept
    BY <2>1 DEF VerifiedIsKept
  <2> QED BY <2>2, <2>3, <2>4, <2>5
<1>5. ASSUME NEW unconfigured \in BOOLEAN, PollFails(unconfigured)
      PROVE  Goal
  BY <1>1, <1>5 DEF PollFails
<1>6. ASSUME NEW ticked \in SUBSET Coins, runMockTick(ticked)
      PROVE  Goal
  BY <1>6 DEF runMockTick, VerifiedIsKept
<1>7. ASSUME NEW s \in Universe, Expire(s)
      PROVE  Goal
  BY <1>1, <1>7 DEF Expire
<1>8. ASSUME NEW s \in Universe, getHistory(s)
      PROVE  Goal
  BY <1>8 DEF getHistory, VerifiedIsKept
<1>9. ASSUME NEW s \in Universe, NEW kind \in {"simulated", "provider"}, replaceExternalHistory(s, kind)
      PROVE  Goal
  BY <1>9 DEF replaceExternalHistory, VerifiedIsKept
<1>10. CASE UNCHANGED marketVars
  BY <1>1, <1>10 DEF marketVars
<1> QED BY <1>1, <1>2, <1>3, <1>4, <1>5, <1>6, <1>7, <1>8, <1>9, <1>10 DEF MarketNext

\* For any universe, pages, coins and order of answers, ticks and polls, nothing that a provider verified is
\* made up again.
THEOREM NothingVerifiedIsMadeUpAlways == MarketSpec => NothingVerifiedIsMadeUp
<1>1. MarketInit => Fed
  BY DEF MarketInit, Fed
<1>2. Fed /\ [MarketNext]_marketVars => Fed' /\ [VerifiedIsKept]_marketVars
  BY MarketStep
<1> QED BY <1>1, <1>2, PTL DEF MarketSpec, NothingVerifiedIsMadeUp

-----------------------------------------------------------------------------
(* The alerts of the browser.                                               *)

Alertly == [Ids -> States]

\* Whatever is listed is listed for the account.
Accounted ==
  /\ table \in [Users -> Alertly] /\ shown \in [Users -> Alertly]
  /\ account \in Users \cup {Nobody} /\ calls \subseteq Calls
  /\ listing.stage \in {"none", "asked", "read"} /\ listing.alerts \in Alertly
  /\ listing.stage # "none" => listing.user = account /\ account # Nobody
  /\ following => account # Nobody
  /\ ShownIsOfTheSession

LEMMA AccountStep ==
  ASSUME Accounted, [RemoteNext]_alertVars
  PROVE  Accounted'
<1> USE DEF Accounted
<1>1. /\ NoListing.stage = "none" /\ NoListing.alerts \in Alertly
      /\ \A u : ListingOf(u).stage = "asked" /\ ListingOf(u).user = u /\ ListingOf(u).alerts \in Alertly
  BY DEF NoListing, ListingOf, Alertly, States
<1>2. Nothing \in [Users -> Alertly] /\ Listed(Nothing) = {}
  BY DEF Nothing, Alertly, States, Listed
<1>3. CASE UNCHANGED alertVars
  BY <1>3 DEF alertVars, ShownIsOfTheSession, Listed
<1>4. ASSUME NEW u \in Users \cup {Nobody}, AccountChanges(u)
      PROVE  Accounted'
  BY <1>1, <1>2, <1>4 DEF AccountChanges, ShownIsOfTheSession
<1>5. CASE StartFollowing
  BY <1>5 DEF StartFollowing, ShownIsOfTheSession, Listed
<1>6. CASE PollAlerts
  BY <1>1, <1>6 DEF PollAlerts, ShownIsOfTheSession, Listed
<1>7. CASE ServerLists
  <2>1. listing.user \in Users /\ table[listing.user] \in Alertly
    BY <1>7 DEF ServerLists
  <2> QED BY <1>7, <2>1 DEF ServerLists, ShownIsOfTheSession, Listed
<1>8. CASE ShowListing
  <2>1. listing.user = account /\ account \in Users
    BY <1>8 DEF ShowListing
  <2>2. shown' = [Nothing EXCEPT ![account] = listing.alerts]
    BY <1>8, <2>1 DEF ShowListing
  <2>3. shown' \in [Users -> Alertly]
    BY <1>2, <2>2
  <2>4. ASSUME NEW a \in Listed(shown')
        PROVE  a[1] = account
    <3>1. a \in Users \X Ids /\ shown'[a[1]][a[2]] \in {"armed", "triggered", "seen"}
      BY <2>4 DEF Listed
    <3>2. a[1] # account => shown'[a[1]] = [i \in Ids |-> "none"]
      BY <2>2, <3>1 DEF Nothing
    <3> QED BY <3>1, <3>2
  <2> QED BY <1>1, <1>8, <2>3, <2>4 DEF ShowListing, ShownIsOfTheSession
<1>9. CASE ListingFails
  BY <1>1, <1>9 DEF ListingFails, ShownIsOfTheSession, Listed
<1>10. ASSUME NEW i \in Ids, CreateAlert(i)
       PROVE  Accounted'
  BY <1>1, <1>10 DEF CreateAlert, Send, Call, Calls, ShownIsOfTheSession, Listed
<1>11. CASE MarkAllSeen
  <2>1. shown' = [u \in Users |-> [i \in Ids |-> IF shown[u][i] = "triggered" THEN "seen" ELSE shown[u][i]]]
    BY <1>11 DEF MarkAllSeen
  <2>2. shown' \in [Users -> Alertly]
    BY <2>1 DEF Alertly, States
  <2>3. Listed(shown') \subseteq Listed(shown)
    BY <2>1 DEF Listed
  <2>4. account # Nobody => Call("seen", CHOOSE i \in Ids : TRUE) \in Calls
    BY <1>11 DEF MarkAllSeen, Call, Calls
  <2> QED BY <1>1, <1>11, <2>2, <2>3, <2>4 DEF MarkAllSeen, Send, ShownIsOfTheSession
<1>12. ASSUME NEW u \in Users, NEW i \in Ids, RemoveAlert(u, i)
       PROVE  Accounted'
  <2>1. shown' = [shown EXCEPT ![u][i] = "none"] /\ strays' = strays \ {<<u, i>>}
    BY <1>12 DEF RemoveAlert
  <2>2. shown' \in [Users -> Alertly]
    BY <2>1 DEF Alertly, States
  <2>3. ASSUME NEW a \in Listed(shown')
        PROVE  a \in Listed(shown) /\ a # <<u, i>>
    <3>1. a \in Users \X Ids /\ shown'[a[1]][a[2]] \in {"armed", "triggered", "seen"}
      BY <2>3 DEF Listed
    <3>2. a # <<u, i>>
      BY <2>1, <3>1 DEF Alertly
    <3>3. a[1] # u \/ a[2] # i
      BY <3>1, <3>2
    <3>4. shown'[a[1]][a[2]] = shown[a[1]][a[2]]
      BY <2>1, <3>1, <3>3 DEF Alertly
    <3> QED BY <3>1, <3>2, <3>4 DEF Listed
  <2>4. ShownIsOfTheSession'
    BY <1>12, <2>1, <2>3 DEF RemoveAlert, ShownIsOfTheSession
  <2>5. account # Nobody => Call("remove", i) \in Calls
    BY DEF Call, Calls
  <2>6. calls' \subseteq Calls
    BY <1>12, <2>5 DEF RemoveAlert, Send
  <2>7. listing' = listing \/ listing' = NoListing
    BY <1>12 DEF RemoveAlert, Send
  <2>8. UNCHANGED <<account, table, loaded, following>>
    BY <1>12 DEF RemoveAlert
  <2> QED BY <1>1, <2>2, <2>4, <2>6, <2>7, <2>8
<1>13. ASSUME NEW u \in Users, NEW i \in Ids, Upsert(u, i)
       PROVE  Accounted'
  <2>1. shown' = [shown EXCEPT ![u][i] = "armed"]
    BY <1>13 DEF Upsert
  <2>2. shown' \in [Users -> Alertly]
    BY <2>1 DEF Alertly, States
  <2>3. ASSUME NEW a \in Listed(shown'), a # <<u, i>>
        PROVE  a \in Listed(shown)
    <3>1. a \in Users \X Ids /\ shown'[a[1]][a[2]] \in {"armed", "triggered", "seen"}
      BY <2>3 DEF Listed
    <3>2. a[1] # u \/ a[2] # i
      BY <2>3, <3>1
    <3>3. shown'[a[1]][a[2]] = shown[a[1]][a[2]]
      BY <2>1, <3>1, <3>2 DEF Alertly
    <3> QED BY <3>1, <3>3 DEF Listed
  <2>4. \A a \in Listed(shown') : a # <<u, i>> => a \in Listed(shown)
    BY <2>3
  <2>5. strays' = (IF u = account THEN strays ELSE strays \cup {<<u, i>>})
        /\ UNCHANGED <<account, table, listing, loaded, following, calls>>
    BY <1>13 DEF Upsert
  <2>6. ShownIsOfTheSession'
    BY <2>4, <2>5 DEF ShownIsOfTheSession
  <2> QED BY <2>2, <2>5, <2>6
<1>14. ASSUME NEW u \in Users, NEW i \in Ids, Triggered(u, i)
       PROVE  Accounted'
  BY <1>14 DEF Triggered, Alertly, States, ShownIsOfTheSession
<1>15. ASSUME NEW c \in calls, CallApplied(c)
       PROVE  Accounted'
  <2> DEFINE own == table[c.user]
             after == CASE c.kind = "create" -> [own EXCEPT ![c.id] = "armed"]
                        [] c.kind = "remove" -> [own EXCEPT ![c.id] = IF @ = "none" THEN @ ELSE "deleted"]
                        [] c.kind = "seen" -> [i \in Ids |-> IF own[i] = "triggered" THEN "seen" ELSE own[i]]
  <2>1. c \in Calls /\ own \in Alertly
    BY DEF Calls
  <2>2. after \in Alertly
    BY <2>1 DEF Calls, Alertly, States
  <2>3. table' = [table EXCEPT ![c.user] = after] /\ calls' \subseteq calls
        /\ UNCHANGED <<account, shown, listing, loaded, following, strays>>
    BY <1>15 DEF CallApplied
  <2> HIDE DEF after
  <2> QED BY <2>2, <2>3 DEF ShownIsOfTheSession
<1>16. ASSUME NEW c \in calls, CallFails(c)
       PROVE  Accounted'
  BY <1>16 DEF CallFails, ShownIsOfTheSession
<1> QED BY <1>3, <1>4, <1>5, <1>6, <1>7, <1>8, <1>9, <1>10, <1>11, <1>12, <1>13, <1>14, <1>15, <1>16 DEF RemoteNext

\* Whatever loads and creations are under way when sessions end and begin, a browser shows only the alerts of
\* its account, and those whose creation was answered late.
THEOREM ShownIsOfTheSessionAlways == RemoteSpec => []ShownIsOfTheSession
<1>1. RemoteInit => Accounted
  BY DEF RemoteInit, Accounted, Nothing, NoListing, Alertly, States, ShownIsOfTheSession, Listed
<1>2. Accounted /\ [RemoteNext]_alertVars => Accounted'
  BY AccountStep
<1>3. Accounted => ShownIsOfTheSession
  BY DEF Accounted
<1> QED BY <1>1, <1>2, <1>3, PTL DEF RemoteSpec
-----------------------------------------------------------------------------
(* The watchlist of the browser.                                            *)

Loads == [stage : {"none", "asked", "read", "merging"}, merge : BOOLEAN, symbols : SUBSET Symbols]
Writes == [user : Owners, symbols : SUBSET Symbols]

ListShapes ==
  /\ session \in Owners \cup {NoUser} /\ (session = NoUser => held = {})
  /\ watch \subseteq Symbols
  /\ lists \in [Owners -> SUBSET Symbols]
  /\ load \in Loads
  /\ load.stage # "none" \/ polling => session # NoUser
  /\ writes \subseteq Writes
  /\ edits \in Nat /\ losses \in Nat

Whole(u) == watch \cup lists[u]

\* What a write, a load and a poll know of the list while nothing fails and nobody edits.
Steady(u) ==
  /\ held \subseteq watch
  /\ \A w \in writes : w.symbols = Whole(u)
  /\ opened \/ polling \/ (load.stage \in {"asked", "read"} /\ ~load.merge) => watch = lists[u]
  /\ load.stage = "read" => /\ load.symbols \cup watch = Whole(u)
                            /\ load.symbols = lists[u] \/ lists[u] = Whole(u)
                            /\ ~load.merge => load.symbols = watch
  /\ load.stage = "merging" => /\ load.symbols = watch /\ lists[u] \subseteq watch
                               /\ [user |-> u, symbols |-> watch] \in writes \/ lists[u] = watch

Quiet == losses = 0 /\ edits = 0 /\ \A u, v \in Owners : u = v

ListIsWhole == ListShapes /\ (Quiet => \A u \in Owners : Steady(u))

LEMMA ListShapesKept ==
  ASSUME ListShapes, [ListNext]_listVars
  PROVE  ListShapes'
<1> USE DEF ListShapes
<1>0. NoLoad \in Loads /\ NoLoad.stage = "none" /\ Asked(TRUE) \in Loads /\ Asked(FALSE) \in Loads
  BY DEF NoLoad, Asked, Loads
<1>1. CASE UNCHANGED listVars
  BY <1>1 DEF listVars
<1>2. ASSUME NEW u \in Owners \cup {NoUser}, SessionChanges(u)
      PROVE  ListShapes'
  BY <1>0, <1>2 DEF SessionChanges
<1>3. CASE StartPolling \/ PollList
  BY <1>0, <1>3 DEF StartPolling, PollList
<1>3a. CASE AlertsLoadFails
  BY <1>3a DEF AlertsLoadFails
<1>4. CASE ServerReads
  BY <1>4 DEF ServerReads, Loads
<1>5. CASE Replace
  BY <1>0, <1>5 DEF Replace, Loads
<1>6. CASE Merge
  <2> DEFINE merged == watch \cup load.symbols
  <2>1. merged \subseteq Symbols /\ session \in Owners /\ session # NoUser
    BY <1>6 DEF Merge, Loads
  <2>2. [load EXCEPT !.stage = "merging", !.symbols = merged] \in Loads
    BY <2>1 DEF Loads
  <2>3. [user |-> session, symbols |-> merged] \in Writes
    BY <2>1 DEF Writes
  <2>4. load' \in Loads /\ writes' \subseteq Writes
    BY <1>0, <1>6, <2>2, <2>3 DEF Merge
  <2>5. UNCHANGED <<session, lists, polling, held, edits, losses>> /\ watch' = merged
    BY <1>6 DEF Merge
  <2> HIDE DEF merged
  <2> QED BY <2>1, <2>4, <2>5
<1>7. CASE MergeAnswered \/ LoadFails
  BY <1>0, <1>7 DEF MergeAnswered, LoadFails
<1>8. ASSUME NEW s \in Symbols, Toggle(s) \/ OtherTabToggles(s)
      PROVE  ListShapes'
  <2> DEFINE next == IF s \in watch THEN watch \ {s} ELSE watch \cup {s}
  <2>1. next \subseteq Symbols
    OBVIOUS
  <2>2. session # NoUser => [user |-> session, symbols |-> next] \in Writes
    BY <2>1 DEF Writes
  <2>3. (load' = load \/ load' = NoLoad) /\ writes' \subseteq Writes
    BY <1>8, <2>2 DEF Toggle, OtherTabToggles
  <2>4. UNCHANGED <<session, lists, polling, losses>> /\ watch' = next /\ edits' = edits + 1 /\ held' = held \ {s}
    BY <1>8 DEF Toggle, OtherTabToggles
  <2> HIDE DEF next
  <2> QED BY <1>0, <2>1, <2>3, <2>4
<1>9. ASSUME NEW s \in Symbols, NEW u \in Owners, OtherDeviceToggles(u, s)
       PROVE  ListShapes'
  BY <1>9 DEF OtherDeviceToggles
<1>10. ASSUME NEW w \in writes, WriteApplied(w) \/ WriteFails(w)
       PROVE  ListShapes'
  BY <1>10 DEF WriteApplied, WriteFails, Writes
<1> QED BY <1>1, <1>2, <1>3, <1>3a, <1>4, <1>5, <1>6, <1>7, <1>8, <1>9, <1>10 DEF ListNext

\* While nothing fails and the one user edits nothing, the browser's list and the server's together stay what
\* they were, every write carries all of it, and what is polled is all of it.
LEMMA ListStep ==
  ASSUME ListIsWhole, [ListNext]_listVars
  PROVE  ListIsWhole'
<1>1. ListShapes /\ ListShapes'
  BY ListShapesKept DEF ListIsWhole
<1>2. SUFFICES ASSUME Quiet', NEW u \in Owners
               PROVE  Steady(u)'
  BY <1>1 DEF ListIsWhole
<1>3. Quiet /\ Steady(u) /\ \A v \in Owners : v = u
  <2>1. edits' = edits \/ edits' = edits + 1
    BY <1>1 DEF ListNext, listVars, SessionChanges, StartPolling, AlertsLoadFails, PollList, ServerReads, Replace, Merge, MergeAnswered,
                LoadFails, Toggle, OtherTabToggles, OtherDeviceToggles, WriteApplied, WriteFails
  <2>2. losses' = losses \/ losses' = losses + 1
    BY <1>1 DEF ListNext, listVars, SessionChanges, StartPolling, AlertsLoadFails, PollList, ServerReads, Replace, Merge, MergeAnswered,
                LoadFails, Toggle, OtherTabToggles, OtherDeviceToggles, WriteApplied, WriteFails
  <2>3. Quiet
    BY <1>1, <1>2, <2>1, <2>2 DEF Quiet, ListShapes, Loads, Writes
  <2> QED BY <1>2, <2>3 DEF ListIsWhole, Quiet
<1>4. edits' = edits /\ losses' = losses
  BY <1>2, <1>3 DEF Quiet
<1> USE DEF Steady, Whole
<1>5. CASE UNCHANGED listVars
  BY <1>3, <1>5 DEF listVars
<1>6. ASSUME NEW v \in Owners \cup {NoUser}, SessionChanges(v)
      PROVE  Steady(u)'
  BY <1>3, <1>6 DEF SessionChanges, NoLoad, Asked
<1>7. CASE StartPolling \/ PollList
  BY <1>3, <1>7 DEF StartPolling, PollList, Asked
<1>8. CASE ServerReads
  <2>1. session = u
    BY <1>1, <1>3, <1>8 DEF ServerReads, ListShapes, Loads, Writes
  <2> QED BY <1>1, <1>3, <1>8, <2>1 DEF ServerReads, ListShapes, Loads, Writes
<1>9. CASE Replace
  BY <1>3, <1>9 DEF Replace, NoLoad
<1>10. CASE Merge
  <2> DEFINE merged == watch \cup load.symbols
  <2>1. /\ load.stage = "read" /\ load.merge /\ watch' = merged
        /\ UNCHANGED <<session, lists, polling, held>>
    BY <1>10 DEF Merge
  <2>2. session = u
    BY <1>1, <1>3, <2>1 DEF ListShapes
  <2>3. merged = Whole(u) /\ Whole(u)' = merged
    BY <1>3, <2>1
  <2>4. CASE merged = load.symbols
    <3>1. load' = NoLoad /\ opened' = TRUE /\ writes' = writes
      BY <1>10, <2>4 DEF Merge
    <3>2. lists[u] = merged
      BY <1>3, <2>1, <2>3, <2>4
    <3> QED BY <1>3, <2>1, <2>3, <3>1, <3>2 DEF NoLoad
  <2>5. CASE merged # load.symbols
    <3>1. /\ load' = [load EXCEPT !.stage = "merging", !.symbols = merged]
          /\ writes' = writes \cup {[user |-> u, symbols |-> merged]} /\ opened' = opened
      BY <1>10, <2>2, <2>5 DEF Merge
    <3>2. load'.stage = "merging" /\ load'.symbols = merged
      BY <1>1, <3>1 DEF ListShapes, Loads
    <3>3. opened \/ polling => merged = lists[u]
      BY <1>3, <2>3
    <3> QED BY <1>3, <2>1, <2>3, <3>1, <3>2, <3>3
  <2> QED BY <2>4, <2>5
<1>11. CASE MergeAnswered
  BY <1>1, <1>3, <1>11 DEF MergeAnswered, NoLoad, ListShapes, Loads, Writes
<1>12. CASE AlertsLoadFails \/ LoadFails
  BY <1>1, <1>4, <1>12 DEF AlertsLoadFails, LoadFails, ListShapes, Loads, Writes
<1>13. ASSUME NEW s \in Symbols, NEW v \in Owners,
              Toggle(s) \/ OtherTabToggles(s) \/ OtherDeviceToggles(v, s)
       PROVE  FALSE
  BY <1>1, <1>4, <1>13 DEF Toggle, OtherTabToggles, OtherDeviceToggles, ListShapes, Loads, Writes
<1>14. ASSUME NEW w \in writes, WriteApplied(w)
       PROVE  Steady(u)'
  BY <1>1, <1>3, <1>14 DEF WriteApplied, ListShapes, Loads, Writes
<1>15. ASSUME NEW w \in writes, WriteFails(w)
       PROVE  FALSE
  BY <1>1, <1>4, <1>15 DEF WriteFails, ListShapes, Loads, Writes
<1> QED BY <1>5, <1>6, <1>7, <1>8, <1>9, <1>10, <1>11, <1>12, <1>13, <1>14, <1>15 DEF ListNext

\* What the browser held when a session began stays in its list, whatever calls are under way.
THEOREM SignInKeepsTheLocalListAlways == ListSpec => []SignInKeepsTheLocalList
<1>1. ListInit => ListIsWhole
  BY DEF ListInit, ListIsWhole, ListShapes, Loads, Steady, NoLoad
<1>2. ListIsWhole /\ [ListNext]_listVars => ListIsWhole'
  BY ListStep
<1>3. ListIsWhole => SignInKeepsTheLocalList
  BY DEF ListIsWhole, ListShapes, Quiet, Steady, SignInKeepsTheLocalList
<1> QED BY <1>1, <1>2, <1>3, PTL DEF ListSpec

-----------------------------------------------------------------------------
(* The page of the portfolios.                                              *)

Versions == [Kept -> Nat]
Views == [of : Portfolios, at : Nat]
Shown == [Panes -> Views \cup {None}]

PartOf(act) == IF act = "goal" THEN "goal" ELSE "plans"

IsRequest(r) == r = [act |-> r.act, of |-> r.of, at |-> r.at, state |-> r.state]

\* The list, the selection and the requests name portfolios, and the answer to a request of the panels is no
\* newer than what the server has.
Requested ==
  /\ active \subseteq Portfolios /\ listed \subseteq Portfolios
  /\ selected \in Portfolios \cup {None}
  /\ kept \in [Portfolios -> Versions]
  /\ fetching.after \in Portfolios \cup {None}
  /\ IsRequest(job) /\ IsRequest(entry)
  /\ job = NoRequest \/ (job.of \in Portfolios /\ job.state # "idle")
  /\ job.state = "done" => job.at \in Nat /\ job.at <= kept[job.of][PartOf(job.act)]
  /\ entry = NoRequest \/ entry.act \in {"books", "policy", "archive", "create"}
  /\ entry.state # "idle" => entry.at = 0 /\ (entry.act # "create" \/ entry.state = "done" => entry.of \in Portfolios)

\* No view is newer than the server's.
NotInvented(views) == \A pane \in Kept : views[pane] # None => views[pane].at <= kept[views[pane].of][pane]

\* Everything but the policy is shown of the portfolio that is loaded, and nothing newer than the server had when
\* that load began.
Truthful ==
  /\ panels \in Shown /\ NotInvented(panels)
  /\ \A pane \in Panes \ {"policy"} : panels[pane] # None => panels[pane].of = dataId
  /\ loading = NotLoading \/
       /\ loading.of = dataId /\ loading.of \in Portfolios
       /\ loading.since \in Versions
       /\ \A pane \in Kept : /\ loading.since[pane] <= kept[loading.of][pane]
                             /\ panels[pane] # None => panels[pane].at <= loading.since[pane]

DeskIsTrue == Requested /\ Truthful

LEMMA NoPanelsAreTruthful ==
  /\ NoPanels \in Shown
  /\ \A pane \in Panes : NoPanels[pane] = None
  /\ Kept \subseteq Panes \ {"policy"}
BY DEF NoPanels, Shown, Panes, Kept

\* A load starts for p, with what is shown of p by then.
LEMMA RefreshIsTruthful ==
  ASSUME kept \in [Portfolios -> Versions], kept' = kept,
         NEW p \in Portfolios \cup {None}, NEW before \in Shown, NotInvented(before),
         p # None /\ dataId = p => \A pane \in Panes \ {"policy"} : before[pane] # None => before[pane].of = p,
         refreshSelected(p, before)
  PROVE  Truthful'
<1> USE DeskAssumption
<1>1. CASE p = None
  <2>1. panels' = NoPanels /\ loading' = NotLoading
    BY <1>1 DEF refreshSelected, resetSelectedState
  <2> QED BY <2>1, NoPanelsAreTruthful DEF Truthful, NotInvented
<1>2. CASE p # None
  <2>1. /\ dataId' = p /\ loading' = [of |-> p, since |-> kept[p]]
        /\ panels' = IF dataId # p THEN NoPanels ELSE before
    BY <1>2 DEF refreshSelected
  <2>2. panels' \in Shown /\ NotInvented(panels)'
    BY <2>1, NoPanelsAreTruthful DEF NotInvented
  <2>3. \A pane \in Panes \ {"policy"} : panels'[pane] # None => panels'[pane].of = p
    BY <1>2, <2>1, NoPanelsAreTruthful
  <2>4. /\ loading'.of = p /\ p \in Portfolios /\ loading'.since = kept[p] /\ kept[p] \in Versions
        /\ \A pane \in Kept : kept[p][pane] \in Nat
    BY <1>2, <2>1 DEF Versions
  <2>5. \A pane \in Kept : panels'[pane] # None => panels'[pane].at <= kept[p][pane]
    BY <2>1, <2>2, <2>3, NoPanelsAreTruthful DEF NotInvented
  <2> QED BY <2>1, <2>2, <2>3, <2>4, <2>5 DEF Truthful
<1> QED BY <1>1, <1>2

\* The server may change a part meanwhile.
LEMMA ServerGoesOn ==
  ASSUME Requested, Truthful, kept' \in [Portfolios -> Versions],
         \A p \in Portfolios, pane \in Kept : kept[p][pane] <= kept'[p][pane],
         UNCHANGED <<panels, dataId, loading>>
  PROVE  Truthful'
<1>1. \A p \in Portfolios, pane \in Kept : kept[p][pane] \in Nat /\ kept'[p][pane] \in Nat
  BY DEF Requested, Versions
<1>2. ASSUME NEW pane \in Kept, panels[pane] # None
      PROVE  panels[pane].of \in Portfolios /\ panels[pane].at \in Nat
  BY <1>2 DEF Truthful, Shown, Views, Panes, Kept
<1>3. NotInvented(panels)'
  BY <1>1, <1>2 DEF Truthful, NotInvented
<1>4. ASSUME loading # NotLoading, NEW pane \in Kept
      PROVE  loading.since[pane] <= kept'[loading.of][pane]
  BY <1>1, <1>4 DEF Truthful, Versions
<1> QED BY <1>3, <1>4 DEF Truthful

\* What the page shows stays true.
LEMMA TruthStep ==
  ASSUME DeskIsTrue, kept' \in [Portfolios -> Versions],
         \A p \in Portfolios, pane \in Kept : kept[p][pane] <= kept'[p][pane],
         [DeskNext]_deskVars
  PROVE  Truthful'
<1> USE DeskAssumption DEF DeskIsTrue
<1>1. CASE UNCHANGED <<panels, dataId, loading>>
  BY <1>1, ServerGoesOn
<1>2. /\ panels \in Shown /\ NotInvented(panels)
      /\ \A pane \in Panes \ {"policy"} : panels[pane] # None => panels[pane].of = dataId
  BY DEF Truthful
<1>3. NoPanels \in Shown /\ NotInvented(NoPanels)
  BY NoPanelsAreTruthful DEF NotInvented
<1>4. ASSUME NEW p \in Portfolios \cup {None}, kept' = kept, selectPortfolio(p)
      PROVE  Truthful'
  <2>1. refreshSelected(p, NoPanels)
    BY <1>4 DEF selectPortfolio, refreshSelected, resetSelectedState
  <2> QED BY <1>3, <1>4, <2>1, NoPanelsAreTruthful, RefreshIsTruthful DEF Requested
<1>5. ASSUME NEW p \in Portfolios \cup {None}, kept' = kept, refreshSelected(p, panels)
      PROVE  Truthful'
  BY <1>2, <1>5, RefreshIsTruthful DEF Requested
<1>6. CASE SignIn \/ SignOut
  BY <1>5, <1>6 DEF SignIn, SignOut, serverVars
<1>7. CASE ListAnswered
  <2>1. kept' = kept
    BY <1>7 DEF ListAnswered, serverVars
  <2>2. PICK next \in Portfolios \cup {None} :
          \/ UNCHANGED <<panels, dataId, loading>>
          \/ refreshSelected(next, IF fetching.after = None THEN panels ELSE NoPanels)
    <3>1. active # {} => (CHOOSE p \in active : TRUE) \in Portfolios
      BY DEF Requested
    <3> QED BY <1>7, <3>1 DEF ListAnswered, Requested
  <2>3. CASE refreshSelected(next, NoPanels)
    BY <1>3, <2>1, <2>3, NoPanelsAreTruthful, RefreshIsTruthful DEF Requested
  <2> QED BY <1>1, <1>5, <2>1, <2>2, <2>3
<1>8. ASSUME NEW p \in Portfolios, UserSelects(p)
      PROVE  Truthful'
  BY <1>4, <1>8 DEF UserSelects, serverVars
<1>9. CASE FollowLink
  BY <1>1, <1>4, <1>9 DEF FollowLink, serverVars
<1>10. CASE PollDesk
  BY <1>5, <1>10 DEF PollDesk, serverVars, Requested
<1>11. CASE LoadAnswered
  <2>1. /\ loading # NotLoading /\ loading.of = dataId /\ dataId \in Portfolios /\ loading.since \in Versions
        /\ kept' = kept /\ dataId' = dataId /\ loading' = NotLoading
    BY <1>11 DEF LoadAnswered, serverVars, Truthful
  <2>2. PICK plans \in loading.since["plans"]..kept[dataId]["plans"],
             goal \in loading.since["goal"]..kept[dataId]["goal"] :
          panels' = Answers([pane \in Kept |-> IF pane = "plans" THEN plans ELSE goal])
    BY <1>11, <2>1 DEF LoadAnswered
  <2>3. /\ loading.since["plans"] \in Nat /\ loading.since["goal"] \in Nat
        /\ kept[dataId]["plans"] \in Nat /\ kept[dataId]["goal"] \in Nat
    BY <2>1 DEF Versions, Kept, Requested
  <2>4. plans \in Nat /\ plans <= kept[dataId]["plans"] /\ goal \in Nat /\ goal <= kept[dataId]["goal"]
    BY <2>3
  <2>5. panels' = [pane \in Panes |-> [of |-> dataId, at |-> IF pane = "plans" THEN plans
                                                             ELSE IF pane = "goal" THEN goal ELSE 0]]
    BY <2>1, <2>2 DEF Answers, Kept, Panes
  <2>6. panels' \in Shown /\ NotInvented(panels)'
    BY <2>1, <2>4, <2>5 DEF Shown, Views, NotInvented, Panes, Kept
  <2> QED BY <2>1, <2>5, <2>6 DEF Truthful
<1>12. CASE LoadFailed
  <2>1. /\ loading # NotLoading /\ loading.of = dataId /\ dataId \in Portfolios
        /\ kept' = kept /\ dataId' = dataId /\ loading' = NotLoading
    BY <1>12 DEF LoadFailed, serverVars, Truthful
  <2>2. CASE UNCHANGED panels
    BY <1>2, <2>1, <2>2 DEF Truthful, NotInvented
  <2>3. ASSUME NEW missing \in SUBSET Optional,
               panels' = [part \in Panes |-> IF part \in missing THEN None ELSE Answers(kept[loading.of])[part]]
        PROVE  Truthful'
    <3>1. \A pane \in Kept : kept[dataId][pane] \in Nat
      BY <2>1 DEF Versions, Requested
    <3>2. \A pane \in Panes : Answers(kept[dataId])[pane] =
                                [of |-> dataId, at |-> IF pane \in Kept THEN kept[dataId][pane] ELSE 0]
      BY <2>1 DEF Answers
    <3>3. panels' \in Shown /\ NotInvented(panels)'
      BY <2>1, <2>3, <3>1, <3>2 DEF Shown, Views, NotInvented, Panes, Kept
    <3>4. \A pane \in Panes : panels'[pane] = None \/ panels'[pane] = Answers(kept[dataId])[pane]
      BY <2>1, <2>3
    <3>5. \A pane \in Panes : Answers(kept[dataId])[pane].of = dataId
      BY <2>1 DEF Answers
    <3>6. \A pane \in Panes : panels'[pane] # None => panels'[pane].of = dataId
      BY <3>4, <3>5
    <3> QED BY <2>1, <3>3, <3>6 DEF Truthful
  <2> QED BY <1>12, <2>2, <2>3 DEF LoadFailed
<1>13. CASE onGenerate \/ onApprove \/ onReject \/ onComplete \/ saveGoal \/ mutateGoalStatus
  BY <1>1, <1>13 DEF onGenerate, onApprove, onReject, onComplete, saveGoal, mutateGoalStatus, Ask
<1>14. CASE JobServed
  BY <1>1, <1>14 DEF JobServed
<1>15. CASE JobAnswered
  <2> DEFINE pane == PartOf(job.act)
             answered == [panels EXCEPT ![pane] = [of |-> job.of, at |-> job.at]]
  <2>1. job.of \in Portfolios /\ job.at \in Nat /\ job.at <= kept[job.of][pane]
    BY <1>15 DEF JobAnswered, Requested, NoRequest
  <2>2. kept' = kept /\ refreshSelected(job.of, answered)
    BY <1>15 DEF JobAnswered, serverVars, PartOf
  <2>3. pane \in Kept /\ pane \in Panes
    BY DEF PartOf, Kept, Panes
  <2>4. answered \in Shown
    BY <1>2, <2>1, <2>3 DEF Shown, Views
  <2>5. NotInvented(answered)
    BY <1>2, <2>1, <2>3 DEF NotInvented, Shown, Kept, Panes
  <2>6. dataId = job.of => \A other \in Panes \ {"policy"} : answered[other] # None => answered[other].of = job.of
    BY <1>2, <2>3 DEF Shown
  <2> HIDE DEF answered
  <2> QED BY <2>1, <2>2, <2>4, <2>5, <2>6, RefreshIsTruthful DEF Requested
<1>16. CASE JobFailed
  <2>1. job.of \in Portfolios
    BY <1>16 DEF JobFailed, Requested, NoRequest
  <2> QED BY <1>5, <1>16, <2>1 DEF JobFailed, serverVars
<1>17. ASSUME NEW act \in {"books", "policy", "archive", "create"}, Enter(act)
       PROVE  Truthful'
  BY <1>1, <1>17 DEF Enter
<1>18. CASE EntryServed \/ EntryFailed
  BY <1>1, <1>18 DEF EntryServed, EntryFailed
<1>19. CASE EntryAnswered
  <2>1. kept' = kept /\ entry.of \in Portfolios /\ entry.at = 0
    BY <1>19 DEF EntryAnswered, serverVars, Requested
  <2>2. CASE entry.act = "books"
    BY <1>5, <1>19, <2>1, <2>2 DEF EntryAnswered
  <2>3. CASE entry.act = "policy"
    <3>1. /\ panels' = [panels EXCEPT !["policy"] = [of |-> entry.of, at |-> 0]]
          /\ UNCHANGED <<dataId, loading>>
      BY <1>19, <2>1, <2>3 DEF EntryAnswered
    <3>2. /\ panels' \in Shown
          /\ \A pane \in Panes \ {"policy"} : panels'[pane] = panels[pane]
          /\ Kept \subseteq Panes \ {"policy"}
      BY <1>2, <2>1, <3>1 DEF Shown, Views, Panes, Kept
    <3>3. NotInvented(panels)'
      BY <1>2, <2>1, <3>2 DEF NotInvented
    <3> QED BY <2>1, <3>1, <3>2, <3>3 DEF Truthful
  <2>4. CASE entry.act \in {"archive", "create"}
    BY <1>1, <1>19, <2>4 DEF EntryAnswered
  <2>5. entry.act \in {"books", "policy", "archive", "create"}
    BY <1>19 DEF EntryAnswered, Requested, NoRequest
  <2> QED BY <2>2, <2>3, <2>4, <2>5
<1>20. ASSUME NEW p \in Portfolios, Elsewhere(p)
       PROVE  Truthful'
  BY <1>1, <1>20 DEF Elsewhere
<1>21. CASE UNCHANGED deskVars
  BY <1>1, <1>21 DEF deskVars
<1>22. CASE ListFailed
  BY <1>1, <1>22 DEF ListFailed
<1> QED BY <1>6, <1>7, <1>8, <1>9, <1>10, <1>11, <1>12, <1>13, <1>14, <1>15, <1>16, <1>17, <1>18, <1>19, <1>20,
           <1>21, <1>22 DEF DeskNext

\* A change of the server's makes a part newer.
LEMMA ChangeStep ==
  ASSUME kept \in [Portfolios -> Versions], NEW p \in Portfolios, NEW pane \in Kept, Change(p, pane)
  PROVE  /\ kept' \in [Portfolios -> Versions]
         /\ \A q \in Portfolios, other \in Kept : kept[q][other] <= kept'[q][other]
         /\ kept'[p][pane] = kept[p][pane] + 1
BY DEF Change, Versions

LEMMA RequestGoesOn ==
  ASSUME NEW r, IsRequest(r), NEW s
  PROVE  [r EXCEPT !.state = s] = [act |-> r.act, of |-> r.of, at |-> r.at, state |-> s]
<1> SUFFICES ASSUME NEW a, NEW o, NEW n, NEW u, r = [act |-> a, of |-> o, at |-> n, state |-> u]
             PROVE  [r EXCEPT !.state = s] = [act |-> a, of |-> o, at |-> n, state |-> s]
  BY DEF IsRequest
<1> QED OBVIOUS

LEMMA RequestStep ==
  ASSUME DeskIsTrue, [DeskNext]_deskVars
  PROVE  /\ Requested'
         /\ \A p \in Portfolios, pane \in Kept : kept[p][pane] <= kept'[p][pane]
<1> DEFINE Goal == Requested' /\ \A p \in Portfolios, pane \in Kept : kept[p][pane] <= kept'[p][pane]
<1> USE DeskAssumption
<1>1. Requested /\ \A p \in Portfolios, pane \in Kept : kept[p][pane] \in Nat
  BY DEF DeskIsTrue, Requested, Versions
<1>0. IsRequest(NoRequest)
  BY DEF IsRequest, NoRequest
<1> USE DEF Requested
<1>2. CASE UNCHANGED <<kept, active, listed, selected, fetching, job, entry>>
  BY <1>1, <1>2
<1>3. CASE SignIn \/ SignOut
  BY <1>1, <1>3 DEF SignIn, SignOut, serverVars, refreshPortfolios, NoList
<1>4. CASE ListAnswered
  <2>1. active # {} => (CHOOSE p \in active : TRUE) \in Portfolios
    BY <1>1
  <2>2. selected' \in Portfolios \cup {None}
    BY <1>1, <1>4, <2>1 DEF ListAnswered
  <2>3. listed' = active /\ fetching' = NoList /\ UNCHANGED <<kept, active, job, entry>>
    BY <1>4 DEF ListAnswered, serverVars
  <2> QED BY <1>1, <2>2, <2>3 DEF NoList
<1>5. CASE ListFailed
  BY <1>1, <1>5 DEF ListFailed, serverVars, NoList
<1>6. ASSUME NEW p \in Portfolios, UserSelects(p)
      PROVE  Goal
  BY <1>1, <1>6 DEF UserSelects, serverVars, selectPortfolio
<1>7. CASE FollowLink
  <2>1. selected' \in Portfolios \cup {None}
    BY <1>1, <1>7 DEF FollowLink, selectPortfolio
  <2> QED BY <1>1, <1>7, <2>1 DEF FollowLink, serverVars
<1>8. CASE PollDesk \/ LoadAnswered \/ LoadFailed
  BY <1>2, <1>8 DEF PollDesk, LoadAnswered, LoadFailed, serverVars
<1>9. CASE onGenerate \/ onApprove \/ onReject \/ onComplete \/ saveGoal \/ mutateGoalStatus
  <2>1. PICK act, at : Ask(act, at)
    BY <1>9 DEF onGenerate, onApprove, onReject, onComplete, saveGoal, mutateGoalStatus
  <2>2. job'.of \in Portfolios /\ job'.state = "sent" /\ IsRequest(job)'
    BY <1>1, <2>1 DEF Ask, activeSummary, IsRequest
  <2> QED BY <1>1, <2>1, <2>2 DEF Ask, serverVars
<1>10. CASE JobServed
  <2> DEFINE p == job.of
             pane == PartOf(job.act)
  <2>1. p \in Portfolios /\ pane \in Kept /\ UNCHANGED <<active, listed, selected, fetching, entry>>
    BY <1>1, <1>10 DEF JobServed, NoRequest, PartOf, Kept
  <2>2. \/ Change(p, pane) /\ job' = Done(kept[p][pane] + 1)
        \/ (kept' = kept \/ Change(p, pane)) /\ job' = [job EXCEPT !.state = "refused"]
    BY <1>10 DEF JobServed, ChangePlan, PartOf
  <2>3. IsRequest(job') /\ job' # NoRequest /\ job'.of = p /\ job'.act = job.act /\ job'.state \in {"done", "refused"}
        /\ (job'.state = "done" => Change(p, pane) /\ job'.at = kept[p][pane] + 1)
    <3>1. \/ /\ Change(p, pane)
             /\ job' = [act |-> job.act, of |-> p, at |-> kept[p][pane] + 1, state |-> "done"]
          \/ job' = [act |-> job.act, of |-> p, at |-> job.at, state |-> "refused"]
      BY <1>1, <2>2, RequestGoesOn DEF Done
    <3> QED BY <3>1 DEF IsRequest, NoRequest
  <2>4. CASE Change(p, pane)
    <3>1. /\ kept' \in [Portfolios -> Versions]
          /\ \A q \in Portfolios, other \in Kept : kept[q][other] <= kept'[q][other]
          /\ kept'[p][pane] = kept[p][pane] + 1
      BY <1>1, <2>1, <2>4, ChangeStep
    <3>2. job'.state = "done" => job'.at = kept'[p][pane] /\ kept'[p][pane] \in Nat
      BY <1>1, <2>1, <2>3, <3>1 DEF Versions
    <3>3. Requested'
      BY <1>1, <2>1, <2>3, <3>1, <3>2
    <3> QED BY <3>1, <3>3
  <2>5. CASE kept' = kept /\ job'.state = "refused"
    BY <1>1, <2>1, <2>3, <2>5
  <2> QED BY <2>2, <2>3, <2>4, <2>5
<1>11. CASE JobAnswered \/ JobFailed
  <2>1. job' = NoRequest /\ UNCHANGED <<kept, active, listed, selected, fetching, entry>>
    BY <1>11 DEF JobAnswered, JobFailed, serverVars
  <2> QED BY <1>0, <1>1, <2>1 DEF NoRequest
<1>12. ASSUME NEW act \in {"books", "policy", "archive", "create"}, Enter(act)
       PROVE  Goal
  <2>1. entry' = [act |-> act, of |-> selected, at |-> 0, state |-> "sent"] /\ UNCHANGED <<kept, active, listed, selected, fetching, job>>
    BY <1>12 DEF Enter, serverVars
  <2>2. act # "create" => selected # None
    BY <1>12 DEF Enter, activeSummary
  <2>3. IsRequest(entry)'
    BY <2>1 DEF IsRequest
  <2> QED BY <1>1, <2>1, <2>2, <2>3
<1>13. CASE EntryServed
  <2>1. /\ entry.state = "sent" /\ UNCHANGED <<kept, listed, selected, fetching, job>>
        /\ active' \subseteq Portfolios
    BY <1>1, <1>13 DEF EntryServed, serverVars
  <2>2. entry # NoRequest
    BY <2>1 DEF NoRequest
  <2>3. \/ entry.act # "create" /\ entry' = [entry EXCEPT !.state = "done"]
        \/ entry.act = "create" /\ \E p \in Portfolios : entry' = [act |-> "create", of |-> p, at |-> 0, state |-> "done"]
    BY <1>13 DEF EntryServed
  <2>4. /\ IsRequest(entry)' /\ entry'.act = entry.act /\ entry'.state = "done" /\ entry'.at = 0
        /\ entry'.of = entry.of \/ (entry.act = "create" /\ entry'.of \in Portfolios)
        /\ entry.act = "create" => entry'.of \in Portfolios
    <3>1. \/ /\ entry.act # "create"
             /\ entry' = [act |-> entry.act, of |-> entry.of, at |-> entry.at, state |-> "done"]
          \/ /\ entry.act = "create"
             /\ \E p \in Portfolios : entry' = [act |-> entry.act, of |-> p, at |-> 0, state |-> "done"]
      BY <1>1, <2>3, RequestGoesOn
    <3> QED BY <1>1, <2>1, <3>1 DEF IsRequest
  <2> QED BY <1>1, <2>1, <2>2, <2>4
<1>14. CASE EntryAnswered
  <2>1. entry.of \in Portfolios /\ entry' = NoRequest /\ UNCHANGED <<kept, active, listed, selected, job>>
    BY <1>1, <1>14 DEF EntryAnswered, serverVars
  <2>2. fetching' = fetching \/ \E p \in Portfolios \cup {None} : refreshPortfolios(p)
    <3>1. entry.state = "done" /\ entry # NoRequest
      BY <1>14 DEF EntryAnswered, NoRequest
    <3>2. entry.act \in {"books", "policy", "archive", "create"}
      BY <1>1, <3>1
    <3> QED BY <1>14, <2>1, <3>2 DEF EntryAnswered
  <2> QED BY <1>0, <1>1, <2>1, <2>2 DEF NoRequest, refreshPortfolios
<1>15. CASE EntryFailed
  BY <1>0, <1>1, <1>15 DEF EntryFailed, serverVars, NoRequest
<1>16. ASSUME NEW p \in Portfolios, Elsewhere(p)
       PROVE  Goal
  <2>1. PICK pane \in Kept : Change(p, pane)
    BY <1>16 DEF Elsewhere, ChangePlan, Kept
  <2>2. UNCHANGED <<active, listed, selected, fetching, job, entry>>
    BY <1>16 DEF Elsewhere
  <2>3. /\ kept' \in [Portfolios -> Versions]
        /\ \A q \in Portfolios, other \in Kept : kept[q][other] <= kept'[q][other]
    BY <1>1, <2>1, ChangeStep
  <2>4. job.state = "done" => job.of \in Portfolios /\ PartOf(job.act) \in Kept
    BY <1>1 DEF NoRequest, PartOf, Kept
  <2> QED BY <1>1, <2>2, <2>3, <2>4 DEF Versions
<1>17. CASE UNCHANGED deskVars
  BY <1>2, <1>17 DEF deskVars
<1> QED BY <1>3, <1>4, <1>5, <1>6, <1>7, <1>8, <1>9, <1>10, <1>11, <1>12, <1>13, <1>14, <1>15, <1>16, <1>17 DEF DeskNext

\* Whatever requests and loads are under way for portfolios selected before, the page shows plans and goal under
\* their own portfolio only, and no load puts an older state in the place of a newer one.
THEOREM ShownInOrderAlways == DeskSpec => ShownInOrder
<1>1. DeskInit => DeskIsTrue
  <2> SUFFICES ASSUME DeskInit PROVE DeskIsTrue
    OBVIOUS
  <2>1. PICK begun \in Begun : statuses = [p \in Portfolios |-> begun]
    BY DEF DeskInit
  <2>2. Len(begun) \in Nat
    BY DeskAssumption
  <2>3. kept \in [Portfolios -> Versions]
    BY <2>1, <2>2 DEF DeskInit, Versions
  <2> QED BY <2>3, NoPanelsAreTruthful, DeskAssumption DEF DeskInit, DeskIsTrue, Requested, Truthful, NotInvented, NoList, NoRequest,
                                        IsRequest
<1>2. DeskIsTrue /\ [DeskNext]_deskVars => DeskIsTrue'
  BY RequestStep, TruthStep DEF DeskIsTrue, Requested
<1>3. DeskIsTrue => (activeSummary => \A part \in Kept : panels[part] # None => panels[part].of = selected)
  BY DEF DeskIsTrue, Truthful, activeSummary, Kept, Panes
<1>4. DeskIsTrue /\ [DeskNext]_deskVars => [NothingOlder]_deskVars
  <2> SUFFICES ASSUME DeskIsTrue, LoadAnswered, NEW pane \in Kept, panels[pane] # None,
                      panels[pane].of = panels'[pane].of
               PROVE  panels'[pane].at >= panels[pane].at
    BY DEF NothingOlder
  <2>1. /\ loading.of = dataId /\ dataId \in Portfolios /\ loading.since \in Versions
        /\ panels[pane].at <= loading.since[pane]
    BY DEF LoadAnswered, DeskIsTrue, Truthful
  <2>2. PICK plans \in loading.since["plans"]..kept[dataId]["plans"],
             goal \in loading.since["goal"]..kept[dataId]["goal"] :
          panels' = Answers([part \in Kept |-> IF part = "plans" THEN plans ELSE goal])
    BY <2>1 DEF LoadAnswered
  <2>3. /\ loading.since[pane] \in Nat /\ kept[dataId][pane] \in Nat
    BY <2>1 DEF Versions, DeskIsTrue, Requested
  <2>4. panels'[pane].at = IF pane = "plans" THEN plans ELSE goal
    BY <2>2 DEF Answers, Kept, Panes
  <2>5. panels[pane].at \in Nat
    BY DEF DeskIsTrue, Truthful, Shown, Views, Kept, Panes
  <2> QED BY <2>1, <2>2, <2>3, <2>4, <2>5 DEF Kept
<1> QED BY <1>1, <1>2, <1>3, <1>4, PTL DEF DeskSpec, ShownInOrder

-----------------------------------------------------------------------------
(***************************************************************************)
(* The assistant.  Beside what the screen shows, the induction needs that    *)
(* nothing empty is under way (an answer the server has, and one that is     *)
(* being shown, have a text), and that tools run in a round that was left.   *)
(***************************************************************************)
NothingEmptyIsTold ==
  /\ answering.phase = "answered" => answering.text > 0
  /\ \A i \in DOMAIN chat : chat[i].role = "assistant" /\ chat[i].status = "streaming" => chat[i].text > 0

ToolsHaveARound == answering.phase = "tools" => answering.rounds < MaxRounds

Conversation == AssistantTypeOK /\ AnswersFollowTheirQuestions /\ NothingEmptyIsTold /\ ToolsHaveARound

\* Replacing the last message leaves the others and their number.
LEMMA LastReplaced ==
  ASSUME NEW c \in Seq(ChatMsg), c # <<>>, NEW m \in ChatMsg
  PROVE  LET d == [c EXCEPT ![Len(c)] = m]
         IN  /\ Len(c) \in Nat \ {0} /\ DOMAIN c = 1..Len(c)
             /\ d \in Seq(ChatMsg) /\ Len(d) = Len(c) /\ d # <<>> /\ DOMAIN d = DOMAIN c
             /\ d[Len(c)] = m /\ \A i \in DOMAIN c : i # Len(c) => d[i] = c[i]
  OBVIOUS

\* What the server says of its work keeps its shape.
LEMMA AnsweringKeepsItsShape ==
  ASSUME AssistantAssumption, NEW text \in 0..MaxText, NEW mode \in Modes,
         NEW a \in [phase : {"idle", "model", "tools", "answered"}, rounds : 0..MaxRounds,
                    text : 0..MaxText, mode : Modes]
  PROVE  LET told == [a EXCEPT !.phase = "answered", !.text = text, !.mode = mode]
         IN  /\ told \in [phase : {"answered"}, rounds : 0..MaxRounds, text : 0..MaxText, mode : Modes]
             /\ told.text = text
  OBVIOUS

LEMMA ConversationInit == ASSUME AssistantAssumption, AssistantInit PROVE Conversation
<1>1. chat = <<>> /\ chat \in Seq(ChatMsg) /\ DOMAIN chat = {}
  BY DEF AssistantInit
<1>2. answering = [phase |-> "idle", rounds |-> 0, text |-> 0, mode |-> "none"]
  BY DEF AssistantInit, NoAnswering
<1>3. AssistantTypeOK
  <2>1. 0 \in 0..MaxText /\ 0 \in 0..MaxRounds /\ "none" \in Modes
    BY DEF Modes, AssistantAssumption
  <2>2. answering \in [phase : {"idle", "model", "tools", "answered"}, rounds : 0..MaxRounds,
                       text : 0..MaxText, mode : Modes]
    BY <1>2, <2>1
  <2> QED BY <1>1, <2>1, <2>2 DEF AssistantInit, AssistantTypeOK
<1>4. AnswersFollowTheirQuestions /\ NothingEmptyIsTold /\ ToolsHaveARound
  BY <1>1, <1>2 DEF AnswersFollowTheirQuestions, OneAnswerAtATime, NoAnswerIsEmpty, NothingEmptyIsTold, ToolsHaveARound
<1> QED BY <1>3, <1>4 DEF Conversation

\* What the server does alone: the phases change, and an answer it has is not empty.
LEMMA ServerStep ==
  ASSUME AssistantAssumption, Conversation, ToolsAsked \/ ToolsReturn \/ TextGiven \/ ModelFails
  PROVE  Conversation'
<1> USE DEF Conversation, AssistantTypeOK, AssistantAssumption
<1>1. /\ answering.phase \in {"model", "tools"} /\ UNCHANGED <<chat, panelOpen, typed, reduced>>
      /\ answering' \in [phase : {"model", "tools", "answered"}, rounds : 0..MaxRounds, text : 0..MaxText, mode : Modes]
      /\ answering'.phase = "answered" => answering'.text > 0
      /\ ToolsHaveARound'
  <2>0. /\ 1 \in 0..MaxText /\ "openai" \in Modes /\ "local-fallback" \in Modes
        /\ \A text \in 1..MaxText : text \in 0..MaxText /\ text > 0
        /\ \A text \in 0..MaxText : text = 0 \/ text > 0
    BY DEF Modes
  <2>1. CASE ToolsAsked \/ ToolsReturn
    <3>1. PICK next \in {"tools", "model"}, rounds \in 0..MaxRounds :
             /\ answering' = [answering EXCEPT !.phase = next, !.rounds = rounds]
             /\ next = "tools" => rounds < MaxRounds
      <4>1. answering.rounds \in 0..MaxRounds
        OBVIOUS
      <4>2. CASE ToolsAsked
        <5>1. answering' = [answering EXCEPT !.phase = "tools", !.rounds = answering.rounds]
          BY <4>2 DEF ToolsAsked
        <5> QED BY <4>1, <4>2, <5>1 DEF ToolsAsked
      <4>3. CASE ToolsReturn
        <5>1. answering.rounds + 1 \in 0..MaxRounds
          BY <4>1, <4>3 DEF ToolsReturn, ToolsHaveARound
        <5> QED BY <4>3, <5>1 DEF ToolsReturn
      <4> QED BY <2>1, <4>2, <4>3
    <3> QED BY <2>1, <3>1 DEF ToolsAsked, ToolsReturn, ToolsHaveARound
  <2>3. CASE TextGiven
    <3>1. PICK text \in 0..MaxText : answering' = answerWithFinancialTools(text)
      BY <2>3 DEF TextGiven
    <3>2. PICK given \in 0..MaxText, mode \in Modes :
             given > 0 /\ answering' = [answering EXCEPT !.phase = "answered", !.text = given, !.mode = mode]
      BY <2>0, <3>1 DEF answerWithFinancialTools, localFallbackAnswer
    <3>3. answering' \in [phase : {"answered"}, rounds : 0..MaxRounds, text : 0..MaxText, mode : Modes]
          /\ answering'.text = given
      BY <3>2, AnsweringKeepsItsShape
    <3> QED BY <2>3, <3>2, <3>3 DEF TextGiven, ToolsHaveARound
  <2>4. CASE ModelFails
    <3>1. PICK text \in 1..MaxText : answering' = localFallbackAnswer(text)
      BY <2>4 DEF ModelFails
    <3>2. answering' = [answering EXCEPT !.phase = "answered", !.text = text, !.mode = "local-fallback"]
      BY <3>1 DEF localFallbackAnswer
    <3>3. answering' \in [phase : {"answered"}, rounds : 0..MaxRounds, text : 0..MaxText, mode : Modes]
          /\ answering'.text = text
      BY <2>0, <3>2, AnsweringKeepsItsShape
    <3> QED BY <2>0, <2>4, <3>1, <3>3 DEF ModelFails, ToolsHaveARound
  <2> QED BY <2>1, <2>3, <2>4
<1>2. AnswersFollowTheirQuestions'
  BY <1>1 DEF AnswersFollowTheirQuestions, OneAnswerAtATime, NoAnswerIsEmpty, Unfinished
<1>3. NothingEmptyIsTold'
  BY <1>1 DEF NothingEmptyIsTold
<1> QED BY <1>1, <1>2, <1>3

\* A question is added behind a conversation in which nothing is open.
LEMMA QuestionStep == ASSUME AssistantAssumption, Conversation, AskQuestion PROVE Conversation'
<1> USE DEF Conversation, AssistantTypeOK, AssistantAssumption
<1> DEFINE question == [role |-> "user", text |-> 1, status |-> "done", mode |-> "none"]
           answer == [role |-> "assistant", text |-> 0, status |-> "pending", mode |-> "none"]
<1>1. question \in ChatMsg /\ answer \in ChatMsg
  BY DEF ChatMsg, Modes
<1>2. /\ question.role = "user" /\ ~ Unfinished(question)
      /\ answer.role = "assistant" /\ answer.status = "pending"
  BY DEF Unfinished
<1>3. chat' = chat \o <<question, answer>> /\ ~ busy /\ panelOpen' = TRUE /\ typed' = 0 /\ reduced' = reduced
      /\ answering' = [phase |-> "model", rounds |-> 0, text |-> 0, mode |-> "none"]
  BY DEF AskQuestion, NoAnswering
<1> HIDE DEF question, answer
<1>4. /\ chat' \in Seq(ChatMsg) /\ Len(chat') = Len(chat) + 2 /\ Len(chat) \in Nat /\ DOMAIN chat' = 1..(Len(chat) + 2)
      /\ DOMAIN chat = 1..Len(chat) /\ \A i \in DOMAIN chat : chat'[i] = chat[i]
      /\ chat'[Len(chat) + 1] = question /\ chat'[Len(chat) + 2] = answer
  BY <1>1, <1>3
<1>5. Last(chat') = answer /\ chat' # <<>>
  BY <1>4 DEF Last
<1>6. \A i \in DOMAIN chat : ~ Unfinished(chat'[i])
  BY <1>3, <1>4 DEF busy
<1>7. AnswersFollowTheirQuestions'
  <2>1. \A i \in DOMAIN chat' : Unfinished(chat'[i]) => i = Len(chat')
    <3>1. \A i \in DOMAIN chat' : i \in DOMAIN chat \/ i = Len(chat) + 1 \/ i = Len(chat')
      BY <1>4
    <3>2. ~ Unfinished(chat'[Len(chat) + 1])
      BY <1>2, <1>4
    <3> QED BY <1>6, <3>1, <3>2
  <2>2. \A i \in DOMAIN chat' : chat'[i].role = "assistant" /\ chat'[i].status = "done" => chat'[i].text > 0
    <3>1. \A i \in DOMAIN chat' : i \in DOMAIN chat \/ i = Len(chat) + 1 \/ i = Len(chat) + 2
      BY <1>4
    <3> QED BY <1>2, <1>4, <3>1 DEF AnswersFollowTheirQuestions, OneAnswerAtATime, NoAnswerIsEmpty
  <2>3. answering'.phase # "idle"
    BY <1>3
  <2> QED BY <1>2, <1>5, <2>1, <2>2, <2>3 DEF AnswersFollowTheirQuestions, OneAnswerAtATime, NoAnswerIsEmpty, Unfinished
<1>8. NothingEmptyIsTold'
  <2>1. answering'.phase # "answered"
    BY <1>3
  <2>2. \A i \in DOMAIN chat' : i \in DOMAIN chat \/ i = Len(chat) + 1 \/ i = Len(chat) + 2
    BY <1>4
  <2> QED BY <1>2, <1>4, <2>1, <2>2 DEF NothingEmptyIsTold
<1>9. AssistantTypeOK'
  BY <1>3, <1>4 DEF Modes
<1>11. ToolsHaveARound'
  BY <1>3 DEF ToolsHaveARound
<1> QED BY <1>7, <1>8, <1>9, <1>11

\* An answer replaces the message that waits for it, the last one.
LEMMA AnswerStep ==
  ASSUME AssistantAssumption, Conversation, AnswerArrives \/ AnswerFails
  PROVE  Conversation'
<1> USE DEF Conversation, AssistantTypeOK, AssistantAssumption
<1>1. chat # <<>> /\ Last(chat).status = "pending"
  BY DEF AnswerArrives, AnswerFails, AnswersFollowTheirQuestions, OneAnswerAtATime, NoAnswerIsEmpty
<1>2. PICK text \in 1..MaxText, mode \in Modes : chat' = Streamed(text, mode)
  <2>1. CASE AnswerArrives
    BY <2>1 DEF AnswerArrives, NothingEmptyIsTold
  <2>2. CASE AnswerFails
    BY <2>2 DEF AnswerFails, Modes
  <2> QED BY <2>1, <2>2
<1>3. answering' = [phase |-> "idle", rounds |-> 0, text |-> 0, mode |-> "none"]
      /\ UNCHANGED <<panelOpen, typed, reduced>>
  BY DEF AnswerArrives, AnswerFails, NoAnswering
<1>4. PICK old \in ChatMsg : old = chat[Len(chat)]
  BY <1>1
<1> DEFINE new == [old EXCEPT !.text = text, !.mode = mode, !.status = "streaming"]
<1>5. new \in ChatMsg /\ new.role = old.role /\ new.text = text /\ new.status = "streaming"
  <2>1. text \in 0..MaxText
    BY <1>2
  <2> QED BY <2>1 DEF ChatMsg
<1>6. chat' = [chat EXCEPT ![Len(chat)] = new]
  BY <1>2, <1>4 DEF Streamed
<1> HIDE DEF new
<1>7. /\ Len(chat) \in Nat \ {0} /\ DOMAIN chat = 1..Len(chat)
      /\ chat' \in Seq(ChatMsg) /\ Len(chat') = Len(chat) /\ chat' # <<>> /\ DOMAIN chat' = DOMAIN chat
      /\ chat'[Len(chat)] = new /\ \A i \in DOMAIN chat : i # Len(chat) => chat'[i] = chat[i]
  BY <1>1, <1>5, <1>6, LastReplaced
<1>8. AnswersFollowTheirQuestions'
  <2>1. \A i \in DOMAIN chat' : Unfinished(chat'[i]) => i = Len(chat')
    BY <1>7 DEF AnswersFollowTheirQuestions, OneAnswerAtATime, NoAnswerIsEmpty
  <2>2. \A i \in DOMAIN chat' : chat'[i].role = "assistant" /\ chat'[i].status = "done" => chat'[i].text > 0
    BY <1>5, <1>7 DEF AnswersFollowTheirQuestions, OneAnswerAtATime, NoAnswerIsEmpty
  <2>3. Last(chat').status = "streaming" /\ answering'.phase = "idle"
    BY <1>3, <1>5, <1>7 DEF Last
  <2> QED BY <2>1, <2>2, <2>3 DEF AnswersFollowTheirQuestions, OneAnswerAtATime, NoAnswerIsEmpty, Unfinished
<1>9. NothingEmptyIsTold'
  <2>1. answering'.phase # "answered"
    BY <1>3
  <2> QED BY <1>2, <1>5, <1>7, <2>1 DEF NothingEmptyIsTold
<1>10. AssistantTypeOK'
  BY <1>3, <1>7 DEF Modes
<1>11. ToolsHaveARound'
  BY <1>3 DEF ToolsHaveARound
<1> QED BY <1>8, <1>9, <1>10, <1>11

\* The panel shows more of the last message or finishes it, or it is closed.
LEMMA PanelStep ==
  ASSUME AssistantAssumption, Conversation, ShowMore \/ ShowAtOnce \/ ClosePanel
  PROVE  Conversation'
<1> USE DEF Conversation, AssistantTypeOK, AssistantAssumption
<1>1. /\ UNCHANGED <<reduced, answering>> /\ panelOpen' \in BOOLEAN
      /\ chat' = chat \/ (chat' = markDone /\ Streaming)
  BY DEF ShowMore, ShowAtOnce, ClosePanel
<1>2. typed' \in 0..MaxText
  <2>1. Streaming => Last(chat).text \in 0..MaxText
    <3>1. chat # <<>> => chat[Len(chat)] \in ChatMsg
      OBVIOUS
    <3> QED BY <3>1 DEF Streaming, Last, ChatMsg
  <2> QED BY <2>1 DEF ShowMore, ShowAtOnce, ClosePanel
<1>3. CASE chat' = chat
  BY <1>1, <1>2, <1>3 DEF AnswersFollowTheirQuestions, OneAnswerAtATime, NoAnswerIsEmpty,
                              NothingEmptyIsTold, ToolsHaveARound, Unfinished
<1>4. CASE chat' = markDone /\ Streaming
  <2>0. PICK old \in ChatMsg : old = chat[Len(chat)]
    BY <1>4 DEF Streaming
  <2> DEFINE new == [old EXCEPT !.status = "done"]
  <2>1. chat # <<>> /\ old.status = "streaming"
    BY <1>4, <2>0 DEF Streaming, Last
  <2>2. new \in ChatMsg /\ new.role = old.role /\ new.text = old.text /\ new.status = "done"
    BY DEF ChatMsg
  <2>3. chat' = [chat EXCEPT ![Len(chat)] = new]
    BY <1>4, <2>0 DEF markDone
  <2> HIDE DEF new
  <2>4. /\ Len(chat) \in Nat \ {0} /\ DOMAIN chat = 1..Len(chat)
        /\ chat' \in Seq(ChatMsg) /\ Len(chat') = Len(chat) /\ chat' # <<>> /\ DOMAIN chat' = DOMAIN chat
        /\ chat'[Len(chat)] = new /\ \A i \in DOMAIN chat : i # Len(chat) => chat'[i] = chat[i]
    BY <2>1, <2>2, <2>3, LastReplaced
  <2>5. answering.phase = "idle" /\ Last(chat').status = "done"
    BY <2>0, <2>1, <2>2, <2>4 DEF AnswersFollowTheirQuestions, OneAnswerAtATime, NoAnswerIsEmpty, Last, Streaming
  <2>6. \A i \in DOMAIN chat' : Unfinished(chat'[i]) => i = Len(chat')
    BY <2>4 DEF AnswersFollowTheirQuestions, OneAnswerAtATime, NoAnswerIsEmpty
  <2>7. \A i \in DOMAIN chat' : chat'[i].role = "assistant" /\ chat'[i].status = "done" => chat'[i].text > 0
    BY <2>0, <2>1, <2>2, <2>4 DEF AnswersFollowTheirQuestions, OneAnswerAtATime, NoAnswerIsEmpty, NothingEmptyIsTold
  <2>8. \A i \in DOMAIN chat' : chat'[i].role = "assistant" /\ chat'[i].status = "streaming" => chat'[i].text > 0
    BY <2>2, <2>4 DEF NothingEmptyIsTold
  <2>9. AnswersFollowTheirQuestions'
    BY <1>1, <2>5, <2>6, <2>7 DEF AnswersFollowTheirQuestions, OneAnswerAtATime, NoAnswerIsEmpty, Unfinished
  <2>10. NothingEmptyIsTold'
    BY <1>1, <2>8 DEF NothingEmptyIsTold
  <2> QED BY <1>1, <1>2, <2>4, <2>9, <2>10 DEF ToolsHaveARound
<1> QED BY <1>1, <1>3, <1>4

LEMMA ConversationStep == ASSUME AssistantAssumption, Conversation, [AssistantNext]_chatVars PROVE Conversation'
<1>1. CASE AssistantNext
  BY <1>1, ServerStep, QuestionStep, AnswerStep, PanelStep DEF AssistantNext, Serving, Showing
<1>2. CASE UNCHANGED chatVars
  BY <1>2 DEF chatVars, Conversation, AssistantTypeOK, AnswersFollowTheirQuestions, OneAnswerAtATime, NoAnswerIsEmpty, NothingEmptyIsTold,
               ToolsHaveARound, Unfinished
<1> QED BY <1>1, <1>2

\* Only the last message waits for an answer, exactly while the server works on it, and no finished answer
\* is empty, whatever the numbers of questions and rounds and the lengths of the answers
\* (AskBar.tsx 31-87).
THEOREM AnswersFollowTheirQuestionsAlways == AssistantSpec => []AnswersFollowTheirQuestions
<1>1. AssistantInit => Conversation
  BY AssistantAssumption, ConversationInit
<1>2. Conversation /\ [AssistantNext]_chatVars => Conversation'
  BY AssistantAssumption, ConversationStep
<1>3. Conversation => AnswersFollowTheirQuestions
  BY DEF Conversation
<1> QED BY <1>1, <1>2, <1>3, PTL DEF AssistantSpec
=============================================================================
