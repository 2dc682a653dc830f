------------------------ MODULE DeliveryQueueProofs ------------------------
(***************************************************************************)
(* Safety of the delivery queues for any number of notices and workers.    *)
(* That a notice is in one worker's hands, and what follows from it, needs *)
(* leases that outlive the functions; the rest holds with any lease.  And  *)
(* of what the operators are told, for any instances, providers,           *)
(* deployments and durations: the two meet in no variable.                 *)
(***************************************************************************)
EXTENDS DeliveryQueue, OpsWatch, FiniteSetTheorems, SequenceTheorems, TLAPS

States == [age : 0..MaxRun, batch : SUBSET Items]

\* The shape of the state, without what only TLC is asked about it.
Shape ==
  /\ queue \in Queues
  /\ rows \in [Deliveries -> Rows]
  /\ plan \in {"pending", "lapsed", "closed"}
  /\ plan # "pending" => queue = "plan"
  /\ workers \in [Workers -> States]
  /\ refusals \in [Deliveries -> Nat]

Quiet == plan = "closed" => \A d \in Deliveries : rows[d].status \in Settled

-----------------------------------------------------------------------------

\* The capped count stays within its cap.
LEMMA OneMoreType == \A n \in 0..(Limit + 1) : OneMore(n) \in 0..(Limit + 1) /\ OneMore(n) > 0
BY DeliveryAssumption DEF OneMore

Statuses == Open \cup Settled \cup {"processing"}

\* What a record of a result, a sweep and a closed plan write to a row.
LEMMA Rewritten ==
  ASSUME NEW row \in Rows, NEW s \in Statuses
  PROVE  /\ [row EXCEPT !.status = s, !.age = 0] \in Rows
         /\ [row EXCEPT !.status = s, !.age = 0].status = s
         /\ [row EXCEPT !.status = s, !.age = 0].age = 0
         /\ [row EXCEPT !.status = s, !.age = 0].attempts = row.attempts
<1> DEFINE marked == [row EXCEPT !.status = s]
<1>1. marked \in Rows /\ marked.status = s /\ marked.attempts = row.attempts
  BY DEF Rows, Statuses
<1> HIDE DEF marked
<1>2. /\ [marked EXCEPT !.age = 0] \in Rows
      /\ [marked EXCEPT !.age = 0].status = s
      /\ [marked EXCEPT !.age = 0].age = 0
      /\ [marked EXCEPT !.age = 0].attempts = row.attempts
  BY <1>1, DeliveryAssumption DEF Rows
<1> QED
  BY <1>2 DEF marked

\* A swept row is a row.
LEMMA SweptType == \A row \in Rows : Swept(row) \in Rows
<1> SUFFICES ASSUME NEW row \in Rows PROVE Swept(row) \in Rows
  OBVIOUS
<1>1. [row EXCEPT !.status = "retry", !.age = 0] \in Rows
  BY Rewritten DEF Statuses, Open
<1> QED
  BY <1>1 DEF Swept

\* A claimed row is processing, just now, and at least one attempt is counted or a
\* digest's attempts are as they were.
LEMMA ClaimedType ==
  ASSUME NEW row \in Rows
  PROVE  /\ Claimed(row) \in Rows
         /\ Claimed(row).status = "processing" /\ Claimed(row).age = 0
         /\ Claimed(row).attempts = IF queue = "digest" THEN row.attempts
                                    ELSE OneMore(row.attempts)
<1> DEFINE taken == [row EXCEPT !.status = "processing", !.age = 0]
           count == IF queue = "digest" THEN row.attempts ELSE OneMore(row.attempts)
<1>1. /\ taken \in Rows /\ taken.status = "processing" /\ taken.age = 0
      /\ taken.attempts = row.attempts
  BY Rewritten DEF Statuses
<1>2. count \in 0..(Limit + 1)
  BY OneMoreType DEF Rows
<1>3. Claimed(row) = [taken EXCEPT !.attempts = count]
  BY <1>1 DEF Claimed
<1> HIDE DEF taken, count
<1>4. /\ [taken EXCEPT !.attempts = count] \in Rows
      /\ [taken EXCEPT !.attempts = count].status = "processing"
      /\ [taken EXCEPT !.attempts = count].age = 0
      /\ [taken EXCEPT !.attempts = count].attempts = count
  BY <1>1, <1>2 DEF Rows
<1> QED
  BY <1>3, <1>4 DEF count

\* A batch that loses an item, and one whose item goes on, are batches.
LEMMA DropType ==
  ASSUME NEW w \in Workers, NEW item, workers \in [Workers -> States], Drop(w, item)
  PROVE  workers' \in [Workers -> States]
BY DeliveryAssumption DEF Drop, Idle, States

LEMMA AdvanceType ==
  ASSUME NEW w \in Workers, NEW item \in Items, workers \in [Workers -> States],
         NEW phase \in {"claimed", "accepted", "unsure"}, Advance(w, item, phase)
  PROVE  workers' \in [Workers -> States]
<1>1. [item EXCEPT !.phase = phase] \in Items
  BY DEF Items
<1> QED
  BY <1>1 DEF Advance, States

\* Recording a row keeps the table's shape.
LEMMA RecordType ==
  ASSUME NEW d \in Deliveries, NEW row \in Rows, rows \in [Deliveries -> Rows],
         Record(d, row)
  PROVE  rows' \in [Deliveries -> Rows]
BY DEF Record

\* The queue keeps its shape.
LEMMA ShapeStep == Shape /\ [Next]_vars => Shape'
<1> SUFFICES ASSUME Shape, [Next]_vars PROVE Shape'
  OBVIOUS
<1> USE DeliveryAssumption DEF Shape
<1>0. ASSUME NEW w \in Workers, NEW item \in workers[w].batch
      PROVE  item \in Items /\ item.delivery \in Deliveries /\ item.attempts \in 0..(Limit + 1)
             /\ rows[item.delivery] \in Rows
  <2>1. workers[w].batch \in SUBSET Items
    BY DEF States
  <2> QED
    BY <2>1 DEF Items
<1>1. CASE UNCHANGED vars
  BY <1>1 DEF vars
<1>2. CASE ManualRetry
  BY <1>2 DEF ManualRetry, Rows, Open, Settled
<1>3. CASE Lapse
  BY <1>3 DEF Lapse
<1>4. CASE ClosePlan
  <2>1. \A d \in Deliveries : [rows[d] EXCEPT !.status = "disabled", !.age = 0] \in Rows
    BY Rewritten DEF Statuses, Settled
  <2> QED
    BY <1>4, <2>1 DEF ClosePlan
<1>5. CASE Tick
  <2>1. rows' \in [Deliveries -> Rows]
    BY <1>5 DEF Tick, Rows
  <2>2. workers' \in [Workers -> States]
    BY <1>5 DEF Tick, Idle, States
  <2> QED
    BY <1>5, <2>1, <2>2 DEF Tick
<1>6. ASSUME NEW w \in Workers, Claim(w) PROVE Shape'
  <2>1. PICK batch \in SUBSET {d \in Deliveries : Claimable(d)} :
          /\ rows' = [d \in Deliveries |-> IF d \in batch THEN Claimed(Swept(rows[d]))
                                           ELSE Swept(rows[d])]
          /\ workers' = [workers EXCEPT ![w].batch =
               {[delivery |-> d, attempts |-> rows'[d].attempts, phase |-> "claimed"] :
                  d \in batch}]
    BY <1>6 DEF Claim
  <2>2. rows' \in [Deliveries -> Rows]
    BY <2>1, SweptType, ClaimedType
  <2>3. \A d \in batch : rows'[d].attempts \in 0..(Limit + 1)
    BY <2>2 DEF Rows
  <2>4. {[delivery |-> d, attempts |-> rows'[d].attempts, phase |-> "claimed"] :
           d \in batch} \in SUBSET Items
    BY <2>3 DEF Items
  <2>5. workers' \in [Workers -> States]
    BY <2>1, <2>4 DEF States
  <2> QED
    BY <1>6, <2>2, <2>5 DEF Claim
<1>7. ASSUME NEW w \in Workers, NEW item \in workers[w].batch, Accept(w, item) PROVE Shape'
  <2>1. workers' \in [Workers -> States]
    BY <1>0, <1>7, AdvanceType DEF Accept
  <2> QED
    BY <1>7, <2>1 DEF Accept
<1>8. ASSUME NEW w \in Workers, NEW item \in workers[w].batch, MarkSent(w, item) PROVE Shape'
  <2>1. workers' \in [Workers -> States]
    BY <1>0, <1>8, AdvanceType, DropType DEF MarkSent
  <2>2. [rows[item.delivery] EXCEPT !.status = "sent", !.age = 0] \in Rows
    BY <1>0, Rewritten DEF Statuses, Settled
  <2>3. rows' \in [Deliveries -> Rows]
    BY <1>0, <1>8, <2>2, RecordType DEF MarkSent
  <2> QED
    BY <1>8, <2>1, <2>3 DEF MarkSent
<1>9. ASSUME NEW w \in Workers, NEW item \in workers[w].batch, MarkFailure(w, item) PROVE Shape'
  <2> DEFINE status == IF GivesUp(item.attempts) THEN "failed" ELSE "retry"
             attempts == IF queue = "digest" THEN OneMore(item.attempts) ELSE item.attempts
  <2>1. workers' \in [Workers -> States]
    BY <1>0, <1>9, DropType DEF MarkFailure
  <2>2. attempts \in 0..(Limit + 1)
    BY <1>0, OneMoreType
  <2>3. [status |-> status, attempts |-> attempts, age |-> 0] \in Rows
    BY <2>2 DEF Rows, Settled, Open
  <2>4. rows' \in [Deliveries -> Rows]
    BY <1>0, <1>9, <2>3, RecordType DEF MarkFailure
  <2>5. refusals' \in [Deliveries -> Nat]
    BY <1>0, <1>9 DEF MarkFailure
  <2> QED
    BY <1>9, <2>1, <2>4, <2>5 DEF MarkFailure
<1>10. ASSUME NEW w \in Workers, NEW item \in workers[w].batch, MarkDisabled(w, item) PROVE Shape'
  <2>1. workers' \in [Workers -> States]
    BY <1>0, <1>10, DropType DEF MarkDisabled
  <2>2. [rows[item.delivery] EXCEPT !.status = "disabled", !.age = 0] \in Rows
    BY <1>0, Rewritten DEF Statuses, Settled
  <2>3. rows' \in [Deliveries -> Rows]
    BY <1>0, <1>10, <2>2, RecordType DEF MarkDisabled
  <2> QED
    BY <1>10, <2>1, <2>3 DEF MarkDisabled
<1>11. ASSUME NEW w \in Workers, NEW item \in workers[w].batch, Abandon(w, item) PROVE Shape'
  BY <1>0, <1>11, DropType DEF Abandon
<1> QED
  BY <1>1, <1>2, <1>3, <1>4, <1>5, <1>6, <1>7, <1>8, <1>9, <1>10, <1>11 DEF Next, Deliver

\* The state keeps its shape.
THEOREM ShapeAlways == Spec => []Shape
<1>1. Init => Shape
  BY DeliveryAssumption DEF Init, Shape, Queues, Rows, Open, Settled, States, Idle
<1> QED
  BY <1>1, ShapeStep, PTL DEF Spec

-----------------------------------------------------------------------------

\* What a worker holds is an item of a row of the queue.
LEMMA HeldItems ==
  ASSUME Shape, NEW w \in Workers, NEW item \in workers[w].batch
  PROVE  /\ item \in Items /\ item.delivery \in Deliveries
         /\ item.attempts \in 0..(Limit + 1) /\ rows[item.delivery] \in Rows
<1>1. workers[w].batch \in SUBSET Items
  BY DEF Shape, States
<1> QED
  BY <1>1 DEF Shape, Items

\* What a step may write to a row whose plan is closed: settled rows stay settled.
LEMMA QuietStep == Shape /\ Quiet /\ [Next]_vars => Quiet'
<1> SUFFICES ASSUME Shape, Quiet, [Next]_vars, plan' = "closed", NEW d \in Deliveries
             PROVE  rows'[d].status \in Settled
  BY DEF Quiet
<1> USE DEF Shape
<1>1. CASE ClosePlan
  <2>1. rows[d] \in Rows
    OBVIOUS
  <2>2. [rows[d] EXCEPT !.status = "disabled", !.age = 0].status = "disabled"
    BY <2>1, Rewritten DEF Statuses, Settled
  <2>3. rows[d].status \in Statuses
    BY <2>1 DEF Rows, Statuses
  <2> QED
    BY <1>1, <2>2, <2>3 DEF ClosePlan, Stoppable, Statuses, Settled
<1>2. CASE plan = "closed"
  <2>0. rows[d].status \in Settled /\ queue = "plan" /\ rows[d] \in Rows
    BY <1>2 DEF Quiet
  <2>1. rows'[d] = rows[d] => rows'[d].status \in Settled
    BY <2>0
  <2>2. CASE UNCHANGED vars
    BY <2>1, <2>2 DEF vars
  <2>3. CASE ManualRetry
    BY <1>2, <2>0, <2>3 DEF ManualRetry
  <2>4. CASE Lapse
    BY <1>2, <2>4 DEF Lapse
  <2>5. CASE Tick
    BY <2>0, <2>1, <2>5 DEF Tick, Settled
  <2>6. ASSUME NEW w \in Workers, Claim(w) PROVE rows'[d].status \in Settled
    BY <1>2, <2>0, <2>1, <2>6 DEF Claim, Claimable, Swept, Settled
  <2>7. ASSUME NEW w \in Workers, NEW item \in workers[w].batch,
               Accept(w, item) \/ Deliver(w, item) \/ Abandon(w, item)
        PROVE  rows'[d].status \in Settled
    <3>1. \A e, row : Record(e, row) => rows'[d] = rows[d]
      BY <2>0 DEF Record, Recordable, Settled
    <3> QED
      BY <2>1, <2>7, <3>1
      DEF Accept, Deliver, MarkSent, MarkFailure, MarkDisabled, Abandon
  <2> QED
    BY <1>1, <2>2, <2>3, <2>4, <2>5, <2>6, <2>7 DEF Next
<1>3. CASE plan # "closed" /\ ~ClosePlan
  BY <1>3 DEF Next, vars, ManualRetry, Lapse, Tick, Claim, Accept, Deliver, MarkSent,
     MarkFailure, MarkDisabled, Abandon
<1> QED
  BY <1>1, <1>2, <1>3

\* No notice of a closed plan is open or comes back, with any lease.
THEOREM ClosedPlansAreSilentAlways == Spec => []ClosedPlansAreSilent
<1>1. Init => Quiet
  BY DEF Init, Quiet
<1>2. Shape /\ Quiet /\ [Next]_vars => Quiet'
  BY QuietStep
<1>3. Quiet => ClosedPlansAreSilent
  BY DEF Quiet, ClosedPlansAreSilent
<1> QED
  BY <1>1, <1>2, <1>3, ShapeAlways, PTL DEF Spec

\* What was sent stays sent, outside the queue of digests and with any lease.
THEOREM SentStaysSentAlways == Spec => SentStaysSent
<1>1. ASSUME Shape, [Next]_vars, NEW d \in Deliveries, rows[d].status = "sent", queue # "digest"
      PROVE  rows'[d] = rows[d]
  <2>1. CASE UNCHANGED vars
    BY <2>1 DEF vars
  <2>2. CASE ManualRetry
    BY <1>1, <2>2 DEF ManualRetry, Shape
  <2>3. CASE Lapse
    BY <2>3 DEF Lapse
  <2>4. CASE ClosePlan
    BY <1>1, <2>4 DEF ClosePlan, Stoppable, Open, Shape
  <2>5. CASE Tick
    BY <1>1, <2>5 DEF Tick, Shape
  <2>6. ASSUME NEW w \in Workers, Claim(w) PROVE rows'[d] = rows[d]
    BY <1>1, <2>6 DEF Claim, Claimable, Swept, Open, Shape
  <2>7. ASSUME NEW w \in Workers, NEW item \in workers[w].batch,
               Accept(w, item) \/ Deliver(w, item) \/ Abandon(w, item)
        PROVE  rows'[d] = rows[d]
    <3>1. \A e, row : Record(e, row) => rows'[d] = rows[d]
      BY <1>1 DEF Record, Recordable, Shape
    <3> QED
      BY <2>7, <3>1 DEF Accept, Deliver, MarkSent, MarkFailure, MarkDisabled, Abandon
  <2> QED
    BY <1>1, <2>1, <2>2, <2>3, <2>4, <2>5, <2>6, <2>7 DEF Next
<1>2. Shape /\ [Next]_vars =>
        [\A d \in Deliveries :
           rows[d].status = "sent" /\ queue # "digest" => rows'[d] = rows[d]]_vars
  BY <1>1
<1> QED
  BY <1>2, ShapeAlways, PTL DEF Spec, SentStaysSent
-----------------------------------------------------------------------------

\* A row in a batch is as it was claimed, or was settled by its worker or by the end
\* of its plan: nobody else can claim it.
HeldRow(w, item) ==
  LET row == rows[item.delivery] IN
  /\ row.status \in {"processing", "sent", "disabled"}
  /\ row.status = "processing" \/ queue = "digest" => row.attempts = item.attempts
  /\ row.status = "processing" => row.age = workers[w].age

Held == \A w \in Workers : \A item \in workers[w].batch : HeldRow(w, item)

Attempted(d) ==
  /\ rows[d].status = "failed" => rows[d].attempts >= Limit
  /\ queue = "digest" => /\ refusals[d] = rows[d].attempts
                         /\ rows[d].status # "failed" => rows[d].attempts <= Limit
  /\ queue # "digest" =>
       /\ refusals[d] <= Limit
       /\ rows[d].status \in Open => refusals[d] < Limit /\ refusals[d] <= rows[d].attempts
       /\ rows[d].status = "processing" =>
            refusals[d] < Limit /\ refusals[d] < rows[d].attempts

Bounded == \A d \in Deliveries : Attempted(d)

Inv == Shape /\ Held /\ OneWorkerPerNotice /\ Bounded

\* A worker that settles an item or gives it up leaves the other items as they are.
LEMMA DropKeeps ==
  ASSUME Shape, NEW w \in Workers, NEW item \in workers[w].batch, Drop(w, item),
         NEW v \in Workers, NEW j \in workers'[v].batch
  PROVE  /\ j \in workers[v].batch /\ workers'[v].age = workers[v].age
         /\ v = w => j # item
BY DEF Drop, Idle, Shape, States

\* When only the row of an item changes that is dropped, batches stay in order.
LEMMA SettleKeeps ==
  ASSUME Inv, NEW w \in Workers, NEW item \in workers[w].batch, Drop(w, item),
         queue' = queue,
         \A d \in Deliveries : d # item.delivery => rows'[d] = rows[d]
  PROVE  Held' /\ OneWorkerPerNotice'
<1>1. ASSUME NEW v \in Workers, NEW j \in workers'[v].batch
      PROVE  j \in workers[v].batch /\ j.delivery # item.delivery
             /\ workers'[v].age = workers[v].age
  BY <1>1, DropKeeps DEF Inv, OneWorkerPerNotice
<1>2. OneWorkerPerNotice'
  BY <1>1 DEF Inv, OneWorkerPerNotice
<1>3. ASSUME NEW v \in Workers, NEW j \in workers'[v].batch PROVE HeldRow(v, j)'
  <2>1. j \in workers[v].batch /\ HeldRow(v, j) /\ j.delivery \in Deliveries
    BY <1>1, <1>3, HeldItems DEF Inv, Held
  <2>2. rows'[j.delivery] = rows[j.delivery]
    BY <1>1, <1>3, <2>1
  <2> QED
    BY <1>1, <1>3, <2>1, <2>2 DEF HeldRow
<1> QED
  BY <1>2, <1>3 DEF Held

\* An item that goes on to its next phase stays where it is.
LEMMA AdvanceKeeps ==
  ASSUME Inv, NEW w \in Workers, NEW item \in workers[w].batch,
         NEW phase, Advance(w, item, phase), queue' = queue,
         \A d \in Deliveries : d # item.delivery => rows'[d] = rows[d],
         LET row == rows'[item.delivery] IN
           /\ row.status \in {"processing", "sent", "disabled"}
           /\ row.attempts = rows[item.delivery].attempts
           /\ row.status = "processing" => row = rows[item.delivery]
  PROVE  Held' /\ OneWorkerPerNotice'
<1> DEFINE next == [item EXCEPT !.phase = phase]
<1>0. item \in Items /\ item.delivery \in Deliveries
  BY HeldItems DEF Inv
<1>1. next.delivery = item.delivery /\ next.attempts = item.attempts
  BY <1>0 DEF Items
<1> HIDE DEF next
<1>2. workers' = [workers EXCEPT ![w].batch = (@ \ {item}) \cup {next}]
  BY DEF Advance, next
<1>3. ASSUME NEW v \in Workers, NEW j \in workers'[v].batch
      PROVE  /\ workers'[v].age = workers[v].age
             /\ \/ v = w /\ j = next
                \/ j \in workers[v].batch /\ j.delivery # item.delivery
  BY <1>2, <1>3 DEF Inv, Shape, States, OneWorkerPerNotice
<1>4. OneWorkerPerNotice'
  BY <1>1, <1>3 DEF Inv, OneWorkerPerNotice
<1>5. ASSUME NEW v \in Workers, NEW j \in workers'[v].batch PROVE HeldRow(v, j)'
  <2>1. CASE v = w /\ j = next
    <3>1. HeldRow(w, item)
      BY DEF Inv, Held
    <3>2. workers'[w].age = workers[w].age
      BY <1>3, <1>5, <2>1
    <3> QED
      BY <1>1, <2>1, <3>1, <3>2 DEF HeldRow
  <2>2. CASE j \in workers[v].batch /\ j.delivery # item.delivery
    <3>1. HeldRow(v, j) /\ j.delivery \in Deliveries
      BY <2>2, HeldItems DEF Inv, Held
    <3>2. rows'[j.delivery] = rows[j.delivery] /\ workers'[v].age = workers[v].age
      BY <1>3, <1>5, <2>2, <3>1
    <3> QED
      BY <3>1, <3>2 DEF HeldRow
  <2> QED
    BY <1>3, <1>5, <2>1, <2>2
<1> QED
  BY <1>4, <1>5 DEF Held

\* While leases outlive functions, a row in a batch cannot be claimed again.
LEMMA HeldIsNotClaimable ==
  ASSUME Inv, MaxRun < Lease, NEW w \in Workers, NEW item \in workers[w].batch
  PROVE  ~Claimable(item.delivery) /\ Swept(rows[item.delivery]) = rows[item.delivery]
<1>1. HeldRow(w, item) /\ workers[w].age \in 0..MaxRun
  BY DEF Inv, Held, Shape, States
<1> QED
  BY <1>1, DeliveryAssumption DEF HeldRow, Claimable, Swept, Open

\* A claim takes rows that no batch holds and sweeps none that one does.
LEMMA ClaimKeeps ==
  ASSUME Inv, MaxRun < Lease, NEW w \in Workers, Claim(w)
  PROVE  Held' /\ OneWorkerPerNotice'
<1> USE DEF Inv
<1>1. PICK batch \in SUBSET {d \in Deliveries : Claimable(d)} :
        /\ rows' = [d \in Deliveries |-> IF d \in batch THEN Claimed(Swept(rows[d]))
                                         ELSE Swept(rows[d])]
        /\ workers' = [workers EXCEPT ![w].batch =
             {[delivery |-> d, attempts |-> rows'[d].attempts, phase |-> "claimed"] :
                d \in batch}]
  BY DEF Claim
<1>2. workers[w].batch = {} /\ workers[w].age = 0 /\ queue' = queue
  BY DEF Claim, Idle
<1>3. ASSUME NEW v \in Workers, NEW j \in workers'[v].batch
      PROVE  /\ workers'[v].age = workers[v].age
             /\ \/ /\ v = w /\ j.delivery \in batch
                   /\ j = [delivery |-> j.delivery, attempts |-> rows'[j.delivery].attempts,
                           phase |-> "claimed"]
                \/ v # w /\ j \in workers[v].batch /\ j.delivery \notin batch
  <2>1. CASE v = w
    BY <1>1, <1>3, <2>1 DEF Shape, States
  <2>2. CASE v # w
    <3>1. j \in workers[v].batch /\ workers'[v] = workers[v]
      BY <1>1, <1>3, <2>2 DEF Shape
    <3> QED
      BY <3>1, <2>2, HeldIsNotClaimable
  <2> QED
    BY <2>1, <2>2
<1>4. OneWorkerPerNotice'
  <2> SUFFICES ASSUME NEW u \in Workers, NEW v \in Workers, NEW i \in workers'[u].batch,
                      NEW j \in workers'[v].batch, i.delivery = j.delivery
               PROVE  u = v /\ i = j
    BY DEF OneWorkerPerNotice
  <2>1. (u = w /\ v = w) \/ (u # w /\ v # w)
    BY <1>3
  <2>2. CASE u = w /\ v = w
    BY <1>3, <2>2
  <2>3. CASE u # w /\ v # w
    BY <1>3, <2>3 DEF OneWorkerPerNotice
  <2> QED
    BY <2>1, <2>2, <2>3
<1>5. ASSUME NEW v \in Workers, NEW j \in workers'[v].batch PROVE HeldRow(v, j)'
  <2>1. CASE v = w /\ j.delivery \in batch
    <3>1. j.delivery \in Deliveries /\ Swept(rows[j.delivery]) \in Rows
      BY <2>1, SweptType DEF Shape
    <3>2. rows'[j.delivery] = Claimed(Swept(rows[j.delivery]))
      BY <1>1, <2>1, <3>1
    <3>3. rows'[j.delivery].status = "processing" /\ rows'[j.delivery].age = 0
      BY <3>1, <3>2, ClaimedType
    <3>4. j = [delivery |-> j.delivery, attempts |-> rows'[j.delivery].attempts,
               phase |-> "claimed"]
      BY <1>3, <1>5, <2>1
    <3>5. j.attempts = rows'[j.delivery].attempts
      BY <3>4
    <3>6. workers'[v].age = 0
      BY <1>2, <1>3, <1>5, <2>1
    <3> QED
      BY <3>3, <3>5, <3>6 DEF HeldRow
  <2>2. CASE v # w /\ j \in workers[v].batch /\ j.delivery \notin batch
    <3>1. HeldRow(v, j) /\ j.delivery \in Deliveries
      BY <2>2, HeldItems DEF Held
    <3>2. rows'[j.delivery] = rows[j.delivery]
      BY <1>1, <2>2, <3>1, HeldIsNotClaimable
    <3> QED
      BY <1>2, <1>3, <1>5, <3>1, <3>2 DEF HeldRow
  <2> QED
    BY <1>3, <1>5, <2>1, <2>2
<1> QED
  BY <1>4, <1>5 DEF Held

\* Steps that leave the batches alone and change no held row but for its age.
LEMMA TickKeeps ==
  ASSUME Inv, MaxRun < Lease, Tick
  PROVE  Held' /\ OneWorkerPerNotice'
<1> USE DEF Inv
<1>1. \A v \in Workers : workers'[v].batch = workers[v].batch
  BY DEF Tick, Shape, States, Idle
<1>2. OneWorkerPerNotice'
  BY <1>1 DEF OneWorkerPerNotice
<1>3. ASSUME NEW v \in Workers, NEW j \in workers[v].batch PROVE HeldRow(v, j)'
  <2> DEFINE d == j.delivery
  <2>1. HeldRow(v, j) /\ d \in Deliveries /\ rows[d] \in Rows
    BY HeldItems DEF Held
  <2>2. workers[v] # Idle /\ workers[v].age \in 0..MaxRun /\ workers[v].age < MaxRun
    BY DEF Tick, Idle, Shape, States
  <2>3. workers'[v].age = workers[v].age + 1
    BY <2>2 DEF Tick, Shape, States
  <2>4. rows'[d] = IF rows[d].status = "processing" /\ rows[d].age < Lease
                   THEN [rows[d] EXCEPT !.age = @ + 1] ELSE rows[d]
    BY <2>1 DEF Tick
  <2>5. rows'[d].status = rows[d].status /\ rows'[d].attempts = rows[d].attempts
    BY <2>1, <2>4 DEF Rows
  <2>6. rows[d].status = "processing" => rows'[d].age = rows[d].age + 1
    BY <2>1, <2>2, <2>4, DeliveryAssumption DEF Rows, HeldRow
  <2>7. queue' = queue
    BY DEF Tick
  <2> QED
    BY <2>1, <2>3, <2>5, <2>6, <2>7 DEF HeldRow
<1> QED
  BY <1>1, <1>2, <1>3 DEF Held

\* Operators and plans only touch held rows to disable them.
LEMMA PlanKeeps ==
  ASSUME Inv, ManualRetry \/ Lapse \/ ClosePlan
  PROVE  Held' /\ OneWorkerPerNotice'
<1> USE DEF Inv
<1>1. workers' = workers /\ queue' = queue
  BY DEF ManualRetry, Lapse, ClosePlan
<1>2. OneWorkerPerNotice'
  BY <1>1 DEF OneWorkerPerNotice
<1>3. ASSUME NEW v \in Workers, NEW j \in workers[v].batch PROVE HeldRow(v, j)'
  <2> DEFINE d == j.delivery
  <2>1. HeldRow(v, j) /\ d \in Deliveries /\ rows[d] \in Rows
    BY HeldItems DEF Held
  <2>2. CASE ManualRetry
    <3>1. rows'[d] = rows[d]
      BY <2>1, <2>2 DEF ManualRetry, HeldRow
    <3> QED
      BY <1>1, <2>1, <3>1 DEF HeldRow
  <2>3. CASE Lapse
    BY <1>1, <2>1, <2>3 DEF Lapse, HeldRow
  <2>4. CASE ClosePlan
    <3>1. rows'[d] = rows[d] \/ rows'[d] = [rows[d] EXCEPT !.status = "disabled", !.age = 0]
      BY <2>1, <2>4 DEF ClosePlan
    <3>2. [rows[d] EXCEPT !.status = "disabled", !.age = 0].status = "disabled"
      BY <2>1, Rewritten DEF Statuses, Settled
    <3>3. queue = "plan"
      BY <2>4 DEF ClosePlan
    <3> QED
      BY <1>1, <2>1, <3>1, <3>2, <3>3 DEF HeldRow
  <2> QED
    BY <2>2, <2>3, <2>4
<1> QED
  BY <1>1, <1>2, <1>3 DEF Held

\* Every step keeps the batches disjoint and in order.
LEMMA HeldStep ==
  ASSUME Inv, MaxRun < Lease, [Next]_vars
  PROVE  Held' /\ OneWorkerPerNotice'
<1>1. CASE UNCHANGED vars
  BY <1>1 DEF vars, Inv, Held, HeldRow, OneWorkerPerNotice
<1>2. CASE ManualRetry \/ Lapse \/ ClosePlan
  BY <1>2, PlanKeeps
<1>3. CASE Tick
  BY <1>3, TickKeeps
<1>4. ASSUME NEW w \in Workers, Claim(w) PROVE Held' /\ OneWorkerPerNotice'
  BY <1>4, ClaimKeeps
<1>5. ASSUME NEW w \in Workers, NEW item \in workers[w].batch, Accept(w, item)
      PROVE  Held' /\ OneWorkerPerNotice'
  <2>1. rows' = rows /\ queue' = queue /\ Advance(w, item, "accepted")
    BY <1>5 DEF Accept
  <2>2. HeldRow(w, item)
    BY DEF Inv, Held
  <2> QED
    BY <2>1, <2>2, AdvanceKeeps DEF HeldRow
<1>6. ASSUME NEW w \in Workers, NEW item \in workers[w].batch, MarkSent(w, item)
      PROVE  Held' /\ OneWorkerPerNotice'
  <2> DEFINE d == item.delivery
             sent == [rows[d] EXCEPT !.status = "sent", !.age = 0]
  <2>1. queue' = queue /\ Record(d, sent)
    BY <1>6 DEF MarkSent
  <2>2. d \in Deliveries /\ rows[d] \in Rows /\ HeldRow(w, item)
    BY HeldItems DEF Inv, Held
  <2>3. sent.status = "sent" /\ sent.attempts = rows[d].attempts
    BY <2>2, Rewritten DEF Statuses, Settled
  <2> HIDE DEF sent
  <2>4. rows'[d] = sent \/ rows'[d] = rows[d]
    BY <2>1, <2>2 DEF Record, Inv, Shape
  <2>5. \A e \in Deliveries : e # d => rows'[e] = rows[e]
    BY <2>1 DEF Record, Inv, Shape
  <2>6. CASE Drop(w, item)
    BY <2>1, <2>5, <2>6, SettleKeeps
  <2>7. CASE Advance(w, item, "unsure")
    BY <2>1, <2>2, <2>3, <2>4, <2>5, <2>7, AdvanceKeeps DEF HeldRow
  <2> QED
    BY <1>6, <2>6, <2>7 DEF MarkSent
<1>7. ASSUME NEW w \in Workers, NEW item \in workers[w].batch,
             MarkFailure(w, item) \/ MarkDisabled(w, item) \/ Abandon(w, item)
      PROVE  Held' /\ OneWorkerPerNotice'
  <2>1. Drop(w, item) /\ queue' = queue
    BY <1>7 DEF MarkFailure, MarkDisabled, Abandon
  <2>2. \A e \in Deliveries : e # item.delivery => rows'[e] = rows[e]
    BY <1>7 DEF MarkFailure, MarkDisabled, Abandon, Record, Inv, Shape
  <2> QED
    BY <2>1, <2>2, SettleKeeps
<1> QED
  BY <1>1, <1>2, <1>3, <1>4, <1>5, <1>6, <1>7 DEF Next, Deliver
-----------------------------------------------------------------------------

\* Attempts are counted and compared so that refusals never run ahead of them.
LEMMA BoundedStep ==
  ASSUME Inv, [Next]_vars
  PROVE  Bounded'
<1> SUFFICES ASSUME NEW e \in Deliveries PROVE Attempted(e)'
  BY DEF Bounded
<1> USE DeliveryAssumption
<1>0. /\ rows[e] \in Rows /\ rows[e].attempts \in 0..(Limit + 1)
      /\ rows[e].status \in Statuses /\ refusals[e] \in Nat /\ Attempted(e)
  BY DEF Inv, Shape, Rows, Statuses, Bounded
<1>1. rows'[e] = rows[e] /\ queue' = queue /\ refusals'[e] = refusals[e] => Attempted(e)'
  BY <1>0 DEF Attempted
<1>2. CASE UNCHANGED vars
  BY <1>1, <1>2 DEF vars
<1>3. CASE Lapse
  BY <1>1, <1>3 DEF Lapse
<1>4. CASE Tick
  <2>1. rows'[e].status = rows[e].status /\ rows'[e].attempts = rows[e].attempts
    BY <1>0, <1>4 DEF Tick, Rows
  <2>2. queue' = queue /\ refusals' = refusals
    BY <1>4 DEF Tick
  <2> QED
    BY <1>0, <2>1, <2>2 DEF Attempted
<1>5. CASE ClosePlan
  <2> DEFINE off == [rows[e] EXCEPT !.status = "disabled", !.age = 0]
  <2>1. off.status = "disabled" /\ off.attempts = rows[e].attempts
    BY <1>0, Rewritten DEF Statuses, Settled
  <2> HIDE DEF off
  <2>2. rows'[e] = rows[e] \/ rows'[e] = off
    BY <1>5 DEF ClosePlan, off
  <2>3. queue' = queue /\ queue = "plan" /\ refusals' = refusals
    BY <1>5 DEF ClosePlan
  <2>4. CASE rows'[e] = off
    BY <1>0, <2>1, <2>3, <2>4 DEF Attempted, Open, Statuses, Settled
  <2> QED
    BY <1>1, <2>2, <2>3, <2>4
<1>6. CASE ManualRetry
  <2>1. queue' = queue /\ queue # "digest"
    BY <1>6 DEF ManualRetry
  <2>2. \/ rows'[e] = rows[e] /\ refusals'[e] = refusals[e]
        \/ /\ rows[e].status = "failed" /\ refusals'[e] = 0
           /\ rows'[e] = [rows[e] EXCEPT !.status = "retry"]
    BY <1>6 DEF ManualRetry
  <2>3. CASE /\ rows[e].status = "failed" /\ refusals'[e] = 0
             /\ rows'[e] = [rows[e] EXCEPT !.status = "retry"]
    <3> DEFINE back == rows'[e]
    <3>1. back.status = "retry" /\ back.attempts \in 0..(Limit + 1)
      BY <1>0, <2>3 DEF Rows
    <3>2. refusals'[e] = 0 /\ queue' = queue /\ queue # "digest"
      BY <2>1, <2>3
    <3>3. 0 < Limit /\ 0 <= Limit /\ 0 <= back.attempts
      BY <3>1
    <3> HIDE DEF back
    <3>4. back = rows'[e]
      BY DEF back
    <3> QED
      BY <3>1, <3>2, <3>3, <3>4 DEF Attempted
  <2> QED
    BY <1>1, <2>1, <2>2, <2>3
<1>7. ASSUME NEW w \in Workers, Claim(w) PROVE Attempted(e)'
  <2> DEFINE swept == Swept(rows[e])
  <2>1. queue' = queue /\ refusals' = refusals
    BY <1>7 DEF Claim
  <2>2. rows'[e] = swept \/ (rows'[e] = Claimed(swept) /\ swept.status \in Open)
    BY <1>7 DEF Claim, Claimable
  <2>3. /\ swept \in Rows /\ swept.attempts = rows[e].attempts
        /\ \/ swept = rows[e]
           \/ rows[e].status = "processing" /\ swept.status = "retry"
    <3>1. [rows[e] EXCEPT !.status = "retry", !.age = 0].status = "retry"
          /\ [rows[e] EXCEPT !.status = "retry", !.age = 0].attempts = rows[e].attempts
      BY <1>0, Rewritten DEF Statuses, Open
    <3> QED
      BY <1>0, <3>1, SweptType DEF Swept
  <2>4. /\ Claimed(swept).status = "processing"
        /\ Claimed(swept).attempts = IF queue = "digest" THEN swept.attempts
                                     ELSE OneMore(swept.attempts)
    BY <2>3, ClaimedType
  <2>5. OneMore(rows[e].attempts) \in Nat /\ OneMore(rows[e].attempts) >= rows[e].attempts
        /\ (rows[e].attempts <= Limit => OneMore(rows[e].attempts) = rows[e].attempts + 1)
    BY <1>0 DEF OneMore
  <2> HIDE DEF swept
  <2>6. CASE rows'[e] = swept
    BY <1>0, <2>1, <2>3, <2>6 DEF Attempted, Open
  <2>7. CASE rows'[e] = Claimed(swept) /\ swept.status \in Open
    <3>1. rows[e].status \in Open \cup {"processing"}
      BY <2>3, <2>7
    <3>2. rows'[e].status = "processing"
      BY <2>4, <2>7
    <3>3. CASE queue = "digest"
      BY <1>0, <2>1, <2>3, <2>4, <2>7, <3>1, <3>2, <3>3 DEF Attempted, Open
    <3>4. CASE queue # "digest"
      <4>1. refusals[e] < Limit /\ refusals[e] <= rows[e].attempts
        BY <1>0, <3>1, <3>4 DEF Attempted
      <4>2. rows'[e].attempts = OneMore(rows[e].attempts)
        BY <2>3, <2>4, <2>7, <3>4
      <4>3. refusals[e] < OneMore(rows[e].attempts)
        BY <1>0, <2>5, <4>1
      <4> QED
        BY <2>1, <3>2, <3>4, <4>1, <4>2, <4>3, <1>0 DEF Attempted, Open
    <3> QED
      BY <3>3, <3>4
  <2> QED
    BY <2>2, <2>6, <2>7
<1>8. ASSUME NEW w \in Workers, NEW item \in workers[w].batch,
             Accept(w, item) \/ Abandon(w, item)
      PROVE  Attempted(e)'
  BY <1>1, <1>8 DEF Accept, Abandon
<1>9. ASSUME NEW w \in Workers, NEW item \in workers[w].batch,
             NEW s \in {"sent", "disabled"},
             Record(item.delivery, [rows[item.delivery] EXCEPT !.status = s, !.age = 0]),
             queue' = queue, refusals' = refusals
      PROVE  Attempted(e)'
  <2>1. CASE rows'[e] = rows[e]
    BY <1>1, <1>9, <2>1
  <2>2. CASE rows'[e] # rows[e]
    <3>1. e = item.delivery /\ Recordable(e)
          /\ rows'[e] = [rows[e] EXCEPT !.status = s, !.age = 0]
      BY <1>9, <2>2 DEF Record, Inv, Shape
    <3> DEFINE marked == [rows[e] EXCEPT !.status = s, !.age = 0]
    <3>0. marked.status = s /\ marked.attempts = rows[e].attempts
      <4>1. s \in Statuses
        BY DEF Statuses, Settled
      <4> QED
        BY <1>0, <4>1, Rewritten
    <3>2. rows'[e].status = s /\ rows'[e].attempts = rows[e].attempts
      <4> HIDE DEF marked
      <4>1. rows'[e] = marked
        BY <3>1 DEF marked
      <4> QED
        BY <3>0, <4>1
    <3> HIDE DEF marked
    <3>3. HeldRow(w, item)
      BY DEF Inv, Held
    <3> QED
      BY <1>0, <1>9, <3>1, <3>2, <3>3 DEF Attempted, HeldRow, Open
  <2> QED
    BY <2>1, <2>2
<1>10. ASSUME NEW w \in Workers, NEW item \in workers[w].batch, MarkFailure(w, item)
       PROVE  Attempted(e)'
  <2> DEFINE status == IF GivesUp(item.attempts) THEN "failed" ELSE "retry"
             attempts == IF queue = "digest" THEN OneMore(item.attempts) ELSE item.attempts
  <2>1. queue' = queue /\ item.delivery \in Deliveries /\ HeldRow(w, item)
    BY <1>10, HeldItems DEF MarkFailure, Inv, Held
  <2>2. CASE e # item.delivery \/ ~Recordable(e)
    <3>1. rows'[e] = rows[e] /\ refusals'[e] = refusals[e]
      BY <1>10, <2>1, <2>2 DEF MarkFailure, Record, Inv, Shape
    <3> QED
      BY <1>1, <2>1, <3>1
  <2>3. CASE e = item.delivery /\ Recordable(e)
    <3>1. /\ rows'[e] = [status |-> status, attempts |-> attempts, age |-> 0]
          /\ refusals'[e] = refusals[e] + 1
      BY <1>10, <2>3 DEF MarkFailure, Record, Inv, Shape
    <3>2. rows'[e].status = status /\ rows'[e].attempts = attempts
      BY <3>1
    <3>3. rows[e].attempts = item.attempts
      BY <2>1, <2>3 DEF HeldRow, Recordable
    <3>4. CASE queue = "digest"
      <4>1. rows[e].attempts <= Limit /\ refusals[e] = rows[e].attempts
        BY <1>0, <2>1, <2>3, <3>4 DEF Attempted, HeldRow
      <4>2. attempts = item.attempts + 1
        BY <3>3, <3>4, <4>1, <1>0 DEF OneMore
      <4> HIDE DEF attempts
      <4> QED
        BY <1>0, <2>1, <3>1, <3>2, <3>3, <3>4, <4>1, <4>2 DEF Attempted, GivesUp, Open
    <3>5. CASE queue # "digest"
      <4>1. rows[e].status = "processing"
        BY <2>3, <3>5 DEF Recordable
      <4>2. refusals[e] < Limit /\ refusals[e] < item.attempts
        BY <1>0, <3>3, <3>5, <4>1 DEF Attempted
      <4> QED
        BY <1>0, <2>1, <3>1, <3>2, <3>3, <3>5, <4>2 DEF Attempted, GivesUp, Open
    <3> QED
      BY <3>4, <3>5
  <2> QED
    BY <2>2, <2>3
<1>11. ASSUME NEW w \in Workers, NEW item \in workers[w].batch,
              MarkSent(w, item) \/ MarkDisabled(w, item)
       PROVE  Attempted(e)'
  BY <1>9, <1>11 DEF MarkSent, MarkDisabled
<1> QED
  BY <1>2, <1>3, <1>4, <1>5, <1>6, <1>7, <1>8, <1>10, <1>11 DEF Next, Deliver

\* While leases outlive functions, batches are disjoint and refusals are bounded: the
\* inductive invariant.
THEOREM InvAlways == MaxRun < Lease /\ Spec => []Inv
<1> SUFFICES ASSUME MaxRun < Lease PROVE Spec => []Inv
  OBVIOUS
<1>1. Init => Held /\ OneWorkerPerNotice /\ Bounded
  BY DeliveryAssumption
  DEF Init, Held, OneWorkerPerNotice, Bounded, Attempted, Idle, Open
<1>2. Inv /\ [Next]_vars => (Held /\ OneWorkerPerNotice /\ Bounded)'
  BY HeldStep, BoundedStep
<1>3. Spec => []Shape
  BY ShapeAlways
<1> QED
  BY <1>1, <1>2, <1>3, PTL DEF Spec, Inv

\* No two workers have the same notice (claim_due_deliveries and its siblings).
THEOREM OneWorkerPerNoticeAlways == MaxRun < Lease /\ Spec => []OneWorkerPerNotice
<1>1. Inv => OneWorkerPerNotice
  BY DEF Inv
<1> QED
  BY <1>1, InvAlways, PTL

\* Failed notices were tried often enough and no notice is refused too often (retryAt).
THEOREM AttemptsAreBoundedAlways == MaxRun < Lease /\ Spec => []AttemptsAreBounded
<1>1. Inv => AttemptsAreBounded
  <2> SUFFICES ASSUME Inv, NEW d \in Deliveries
               PROVE  /\ rows[d].status = "failed" => rows[d].attempts >= Limit
                      /\ refusals[d] <= IF queue = "digest" THEN Limit + 1 ELSE Limit
    BY DEF AttemptsAreBounded
  <2>1. Attempted(d) /\ rows[d].attempts \in 0..(Limit + 1)
    BY DEF Inv, Bounded, Shape, Rows
  <2> QED
    BY <2>1, DeliveryAssumption DEF Attempted
<1> QED
  BY <1>1, InvAlways, PTL

-----------------------------------------------------------------------------
(* What the operators are told                                             *)

\* The calls of a provider that an instance remembers: in the order of their times, none after now,
\* and no success after the last one anywhere.
EventRows == [at : Nat, success : BOOLEAN, latency : Latencies \cup {0}]
Remembers(s, now, last) ==
    /\ s \in Seq(EventRows)
    /\ \A k \in DOMAIN s : s[k].at > 0 /\ s[k].at <= now /\ (s[k].success => s[k].at <= last)
    /\ \A k, m \in DOMAIN s : k <= m => s[k].at <= s[m].at

LEMMA Pruned ==
  ASSUME clock \in Nat, Window \in Nat, NEW s \in Seq(EventRows),
         \A k, m \in DOMAIN s : k <= m => s[k].at <= s[m].at
  PROVE  \E n \in 0..Len(s) :
            /\ prune(s) = SubSeq(s, n + 1, Len(s))
            /\ n < Len(s) => clock - s[Len(s)].at <= Window
<1> DEFINE gone == {k \in DOMAIN s : clock - s[k].at > Window}
           n == Cardinality(gone)
<1>1. Len(s) \in Nat /\ DOMAIN s = 1..Len(s)
  OBVIOUS
<1>2. IsFiniteSet(1..Len(s)) /\ Cardinality(1..Len(s)) = Len(s)
  BY <1>1, FS_Interval
<1>3. gone \subseteq 1..Len(s)
  BY <1>1
<1> HIDE DEF gone
<1>4. n \in Nat /\ n <= Len(s)
  <2>1. gone \in SUBSET (1..Len(s))
    BY <1>3
  <2>2. IsFiniteSet(gone) /\ Cardinality(gone) <= Cardinality(1..Len(s))
    BY <1>2, <2>1, FS_Subset
  <2>3. Cardinality(gone) \in Nat
    BY <2>2, FS_CardinalityType
  <2> QED BY <1>2, <2>2, <2>3
<1>5. ASSUME n < Len(s) PROVE clock - s[Len(s)].at <= Window
  <2>1. gone # 1..Len(s)
    BY <1>1, <1>2, <1>5
  <2>2. PICK k \in 1..Len(s) : k \notin gone
    BY <1>3, <2>1
  <2>3. s[k].at <= s[Len(s)].at /\ s[k] \in EventRows /\ s[Len(s)] \in EventRows
    BY <1>1, <2>2
  <2>4. ~ (clock - s[k].at > Window)
    BY <1>1, <2>2 DEF gone
  <2> QED BY <2>3, <2>4 DEF EventRows
<1>6. prune(s) = SubSeq(s, 1 + n, Len(s))
  BY DEF prune, gone
<1> HIDE DEF n
<1>7. 1 + n = n + 1
  BY <1>4
<1> QED BY <1>1, <1>4, <1>5, <1>6, <1>7

LEMMA Suffix ==
  ASSUME NEW S, NEW s \in Seq(S), NEW n \in 0..Len(s)
  PROVE  LET t == SubSeq(s, n + 1, Len(s))
         IN  /\ t \in Seq(S) /\ Len(t) = Len(s) - n /\ DOMAIN t = 1..(Len(s) - n)
             /\ \A k \in DOMAIN t : t[k] = s[k + n] /\ k + n \in DOMAIN s
<1> DEFINE t == SubSeq(s, n + 1, Len(s))
<1>1. Len(s) \in Nat /\ n \in Nat /\ n <= Len(s) /\ DOMAIN s = 1..Len(s)
  OBVIOUS
<1>2. \A i \in (n + 1)..Len(s) : s[i] \in S
  BY <1>1
<1>3. /\ t \in Seq(S)
      /\ Len(t) = IF n + 1 <= Len(s) THEN Len(s) - (n + 1) + 1 ELSE 0
      /\ \A i \in 1..(Len(s) - (n + 1) + 1) : t[i] = s[n + 1 + i - 1]
  <2>1. n + 1 \in Int /\ Len(s) \in Int
    BY <1>1
  <2> QED BY <1>2, <2>1, SubSeqProperties
<1> HIDE DEF t
<1> DEFINE last == Len(s)
<1>4. last \in Nat /\ n \in Nat /\ n <= last
  BY <1>1
<1>5. /\ Len(t) = IF n + 1 <= last THEN last - (n + 1) + 1 ELSE 0
      /\ \A i \in 1..(last - (n + 1) + 1) : t[i] = s[n + 1 + i - 1]
  BY <1>3
<1>6. DOMAIN t = 1..Len(t)
  BY <1>3, LenProperties
<1>7. DOMAIN s = 1..last
  BY <1>1
<1> HIDE DEF last
<1>8. Len(t) = last - n
  <2>1. CASE n + 1 <= last
    BY <1>4, <1>5, <2>1
  <2>2. CASE ~ (n + 1 <= last)
    BY <1>4, <1>5, <2>2
  <2> QED BY <2>1, <2>2
<1>9. ASSUME NEW k \in 1..(last - n) PROVE t[k] = s[k + n] /\ k + n \in DOMAIN s
  <2>1. k \in 1..(last - (n + 1) + 1) /\ n + 1 + k - 1 = k + n /\ k + n \in 1..last
    BY <1>4
  <2>2. t[k] = s[n + 1 + k - 1]
    BY <1>5, <2>1
  <2> QED BY <1>7, <2>1, <2>2
<1>10. DOMAIN t = 1..(last - n)
  BY <1>6, <1>8
<1> QED BY <1>3, <1>8, <1>9, <1>10 DEF t, last

LEMMA PrunedRemembers ==
  ASSUME clock \in Nat, Window \in Nat, NEW last \in Nat, NEW s, Remembers(s, clock, last)
  PROVE  /\ Remembers(prune(s), clock, last)
         /\ prune(s) # <<>> => /\ prune(s)[Len(prune(s))].at > 0
                               /\ clock - prune(s)[Len(prune(s))].at <= Window
<1>1. PICK n \in 0..Len(s) : /\ prune(s) = SubSeq(s, n + 1, Len(s))
                             /\ n < Len(s) => clock - s[Len(s)].at <= Window
  BY Pruned DEF Remembers
<1>2. s \in Seq(EventRows) /\ Len(s) \in Nat /\ DOMAIN s = 1..Len(s) /\ n \in Nat /\ n <= Len(s)
  BY <1>1 DEF Remembers
<1> DEFINE t == SubSeq(s, n + 1, Len(s))
<1>3. /\ t \in Seq(EventRows) /\ Len(t) = Len(s) - n /\ DOMAIN t = 1..(Len(s) - n)
      /\ \A k \in DOMAIN t : t[k] = s[k + n] /\ k + n \in DOMAIN s
  BY <1>2, Suffix
<1> HIDE DEF t
<1>4. Remembers(t, clock, last)
  <2>1. ASSUME NEW k \in DOMAIN t
        PROVE  t[k].at > 0 /\ t[k].at <= clock /\ (t[k].success => t[k].at <= last)
    <3>1. PICK m \in DOMAIN s : t[k] = s[m]
      BY <1>3
    <3>2. s[m].at > 0 /\ s[m].at <= clock /\ (s[m].success => s[m].at <= last)
      BY DEF Remembers
    <3> QED BY <3>1, <3>2
  <2>2. ASSUME NEW k \in DOMAIN t, NEW m \in DOMAIN t, k <= m PROVE t[k].at <= t[m].at
    <3>1. k + n <= m + n /\ k + n \in DOMAIN s /\ m + n \in DOMAIN s
      BY <1>2, <1>3, <2>2
    <3>2. t[k] = s[k + n] /\ t[m] = s[m + n]
      BY <1>3
    <3> QED BY <3>1, <3>2 DEF Remembers
  <2> QED BY <1>3, <2>1, <2>2 DEF Remembers
<1>5. ASSUME t # <<>> PROVE t[Len(t)].at > 0 /\ clock - t[Len(t)].at <= Window
  <2>1. Len(t) \in DOMAIN t /\ Len(t) + n = Len(s) /\ n < Len(s)
    BY <1>2, <1>3, <1>5
  <2>2. t[Len(t)] = s[Len(s)]
    BY <1>3, <2>1
  <2>3. t[Len(t)].at > 0
    BY <1>4, <2>1 DEF Remembers
  <2> QED BY <1>1, <2>1, <2>2, <2>3
<1> QED BY <1>1, <1>4, <1>5 DEF t

-----------------------------------------------------------------------------
StatusRows == [provider : Providers, configured : BOOLEAN, attempts : Nat, latency : Latencies \cup {0},
               status : {"disabled", "down", "degraded", "up"}]
ProviderStatuses == [Providers -> StatusRows]
Batches == [at : Nat, statuses : ProviderStatuses]
CaptureWritten == {"incidents", "snapshots", "heartbeat"}
Captures == [stage : {"idle", "first", "second", "failed"}, at : Instances \cup {NoInstance}, since : Nat,
             todo : SUBSET CaptureWritten, notes : SUBSET Nat, statuses : ProviderStatuses \cup {<<>>}]

WatchTypes ==
    /\ clock \in Nat /\ clock > 0 /\ happened \in Nat
    /\ configured \in [Instances -> SUBSET Providers]
    /\ events \in [Instances -> [Providers -> Seq(EventRows)]]
    /\ succeeded \in [Providers -> Nat]
    /\ noted \in [Instances -> SUBSET (1..happened)] /\ ledger \subseteq 1..happened
    /\ heartbeat \in Nat
    /\ health \in Seq(Batches)
    /\ capture \in Captures /\ capture.notes \subseteq 1..happened
\* What is remembered rests on what happened,
Remembered ==
    /\ \A p \in Providers : succeeded[p] <= clock
    /\ \A i \in Instances, p \in Providers : Remembers(events[i][p], clock, succeeded[p])
\* a provider that a row calls up had answered anyone a while before the row was made,
Answered(statuses, by, within, answers) ==
    \A p \in Providers :
       statuses[p].status = "up" => answers[p] > 0 /\ by <= answers[p] + within
Written ==
    \A k \in DOMAIN health :
       health[k].at <= clock /\ Answered(health[k].statuses, health[k].at, Window + CaptureRun, succeeded)
\* and a capture takes no longer than it may.
CaptureRuns ==
    /\ capture.todo # {} => capture.stage # "idle"
    /\ capture.stage # "idle" =>
          /\ capture.at \in Instances
          /\ capture.since <= clock /\ clock <= capture.since + CaptureRun
    /\ "snapshots" \in capture.todo =>
          capture.statuses \in ProviderStatuses /\ Answered(capture.statuses, capture.since, Window, succeeded)
WatchInv == WatchTypes /\ Remembered /\ Written /\ CaptureRuns

LEMMA NewestIsListed ==
  ASSUME NEW n, NEW A
  PROVE  Newest(n, A) \subseteq A
BY DEF Newest

\* What a list of the newest of two lists shows, the list of the newest of both lists' newest shows.
LEMMA NewestOfBoth ==
  ASSUME NEW h \in Nat, NEW A \in SUBSET (1..h), NEW B \in SUBSET (1..h), NEW n \in Nat
  PROVE  Newest(n, A \cup B) \subseteq Newest(n, Newest(n, A) \cup Newest(n, B))
<1> SUFFICES ASSUME NEW x \in Newest(n, A \cup B)
             PROVE  x \in Newest(n, Newest(n, A) \cup Newest(n, B))
  OBVIOUS
<1> DEFINE above(S) == {y \in S : y > x}
           both == Newest(n, A) \cup Newest(n, B)
<1>1. IsFiniteSet(1..h)
  BY FS_Interval
<1>2. ASSUME NEW S \in SUBSET (1..h), NEW T \in SUBSET S
      PROVE  Cardinality(above(T)) <= Cardinality(above(S)) /\ Cardinality(above(S)) \in Nat
             /\ Cardinality(above(T)) \in Nat
  <2>1. above(S) \in SUBSET (1..h) /\ above(T) \in SUBSET above(S)
    OBVIOUS
  <2>2. IsFiniteSet(above(S))
    BY <1>1, <2>1, FS_Subset
  <2>3. IsFiniteSet(above(T)) /\ Cardinality(above(T)) <= Cardinality(above(S))
    BY <2>1, <2>2, FS_Subset
  <2> QED BY <2>2, <2>3, FS_CardinalityType
<1>3. x \in A \cup B /\ Cardinality(above(A \cup B)) < n
  BY DEF Newest
<1>4. A \cup B \in SUBSET (1..h) /\ A \in SUBSET (A \cup B) /\ B \in SUBSET (A \cup B)
      /\ both \in SUBSET (A \cup B)
  BY NewestIsListed
<1> HIDE DEF above, both
<1>5. /\ Cardinality(above(A)) <= Cardinality(above(A \cup B)) /\ Cardinality(above(A)) \in Nat
      /\ Cardinality(above(B)) <= Cardinality(above(A \cup B)) /\ Cardinality(above(B)) \in Nat
      /\ Cardinality(above(both)) <= Cardinality(above(A \cup B)) /\ Cardinality(above(both)) \in Nat
      /\ Cardinality(above(A \cup B)) \in Nat
  BY <1>2, <1>4
<1>6. Cardinality(above(A)) < n /\ Cardinality(above(B)) < n /\ Cardinality(above(both)) < n
  BY <1>3, <1>5
<1>7. x \in both
  BY <1>3, <1>6 DEF Newest, above, both
<1> QED BY <1>6, <1>7 DEF Newest, above, both

-----------------------------------------------------------------------------
\* What an instance says of a provider.
LEMMA StatusIsTrue ==
  ASSUME WatchInv, Window \in Nat, NEW i \in Instances, NEW p \in Providers
  PROVE  /\ providerStatus(i, p) \in StatusRows
         /\ providerStatus(i, p).configured = (p \in configured[i])
         /\ providerStatus(i, p).status = "up" =>
               p \in configured[i] /\ succeeded[p] > 0 /\ clock <= succeeded[p] + Window
<1> DEFINE s == prune(events[i][p])
<1>1. clock \in Nat /\ succeeded[p] \in Nat /\ Remembers(events[i][p], clock, succeeded[p])
  BY DEF WatchInv, WatchTypes, Remembered
<1>2. /\ Remembers(s, clock, succeeded[p])
      /\ s # <<>> => s[Len(s)].at > 0 /\ clock - s[Len(s)].at <= Window
  BY <1>1, PrunedRemembers
<1>3. providerStatus(i, p) =
        [provider |-> p, configured |-> p \in configured[i], attempts |-> Len(s),
         latency |-> IF s = <<>> THEN 0 ELSE s[Len(s)].latency,
         status |-> CASE p \notin configured[i] -> "disabled"
                      [] p \in circuit[i] -> "down"
                      [] s = <<>> -> "degraded"
                      [] ~s[Len(s)].success \/ Successes(s) * 100 < 95 * Len(s) -> "degraded"
                      [] OTHER -> "up"]
  BY DEF providerStatus
<1> HIDE DEF s
<1>4. s \in Seq(EventRows) /\ Len(s) \in Nat /\ DOMAIN s = 1..Len(s)
  BY <1>2 DEF Remembers
<1>5. ASSUME s # <<>>
      PROVE  /\ s[Len(s)] \in EventRows
             /\ s[Len(s)].success => s[Len(s)].at <= succeeded[p]
  <2>1. Len(s) \in DOMAIN s
    BY <1>4, <1>5
  <2> QED BY <1>2, <1>4, <2>1 DEF Remembers
<1>6. (IF s = <<>> THEN 0 ELSE s[Len(s)].latency) \in Latencies \cup {0}
  BY <1>5 DEF EventRows
<1> DEFINE status == CASE p \notin configured[i] -> "disabled"
                       [] p \in circuit[i] -> "down"
                       [] s = <<>> -> "degraded"
                       [] ~s[Len(s)].success \/ Successes(s) * 100 < 95 * Len(s) -> "degraded"
                       [] OTHER -> "up"
<1>7. status \in {"disabled", "down", "degraded", "up"}
      /\ (status = "up" => p \in configured[i] /\ s # <<>> /\ s[Len(s)].success)
  OBVIOUS
<1>8. providerStatus(i, p).configured = (p \in configured[i]) /\ providerStatus(i, p).status = status
  BY <1>3
<1>9. providerStatus(i, p) \in StatusRows
  <2> HIDE DEF status
  <2>1. (p \in configured[i]) \in BOOLEAN
    OBVIOUS
  <2>2. providerStatus(i, p) =
          [provider |-> p, configured |-> p \in configured[i], attempts |-> Len(s),
           latency |-> IF s = <<>> THEN 0 ELSE s[Len(s)].latency, status |-> status]
    BY <1>3 DEF status
  <2> QED BY <1>4, <1>6, <1>7, <2>1, <2>2 DEF StatusRows
<1>10. ASSUME status = "up"
       PROVE  p \in configured[i] /\ succeeded[p] > 0 /\ clock <= succeeded[p] + Window
  <2>1. p \in configured[i] /\ s # <<>> /\ s[Len(s)].success
    BY <1>7, <1>10
  <2>2. s[Len(s)].at \in Nat /\ s[Len(s)].at <= succeeded[p]
    BY <1>5, <2>1 DEF EventRows
  <2> QED BY <1>1, <1>2, <2>1, <2>2
<1> QED BY <1>8, <1>9, <1>10

\* What a report merges is as true, a window and a job later.
LEMMA MergeIsTrue ==
  ASSUME NEW r \in StatusRows, NEW status, NEW attempts, NEW latency
  PROVE  LET m == [r EXCEPT !.status = status, !.attempts = attempts, !.latency = latency]
         IN  m.status = status /\ m.configured = r.configured
BY DEF StatusRows

LEMMA MergedIsTrue ==
  ASSUME WatchInv, Window \in Nat, CaptureRun \in Nat, NEW i \in Instances, NEW p \in Providers,
         NEW statuses,
         statuses \in {marketProviderStatuses(i),
                       mergeProviderStatuses(marketProviderStatuses(i), latestProviderHealthSnapshots)}
  PROVE  /\ statuses[p].configured = (p \in configured[i])
         /\ statuses[p].configured /\ statuses[p].status = "up" =>
               succeeded[p] > 0 /\ clock <= succeeded[p] + 2 * Window + CaptureRun
<1> DEFINE row == providerStatus(i, p)
           stored == latestProviderHealthSnapshots
<1>1. /\ row \in StatusRows
      /\ row.configured = (p \in configured[i])
      /\ row.status = "up" => succeeded[p] > 0 /\ clock <= succeeded[p] + Window
  BY StatusIsTrue
<1>2. clock \in Nat /\ succeeded[p] \in Nat
  BY DEF WatchInv, WatchTypes
<1>3. marketProviderStatuses(i)[p] = row
  BY DEF marketProviderStatuses
<1>4. CASE statuses[p] = row
  BY <1>1, <1>2, <1>4
<1>5. ASSUME NEW k \in DOMAIN health, clock - health[k].at <= Window,
             health[k].statuses[p].status = "up"
      PROVE  succeeded[p] > 0 /\ clock <= succeeded[p] + 2 * Window + CaptureRun
  <2>1. health[k] \in Batches
    BY DEF WatchInv, WatchTypes
  <2>2. health[k].at \in Nat
    BY <2>1 DEF Batches
  <2>3. succeeded[p] > 0 /\ health[k].at <= succeeded[p] + (Window + CaptureRun)
    BY <1>5 DEF WatchInv, Written, Answered
  <2> QED BY <1>2, <1>5, <2>2, <2>3
<1>6. CASE statuses = mergeProviderStatuses(marketProviderStatuses(i), stored)
  <2> DEFINE merged == [row EXCEPT !.status = stored[p].status, !.attempts = stored[p].attempts,
                                   !.latency = stored[p].latency]
  <2>1. statuses[p] = row \/ (p \in DOMAIN stored /\ statuses[p] = merged)
    BY <1>3, <1>6 DEF mergeProviderStatuses
  <2>2. CASE p \in DOMAIN stored /\ statuses[p] = merged
    <3>1. statuses[p].status = stored[p].status /\ statuses[p].configured = row.configured
      BY <1>1, <2>2, MergeIsTrue
    <3>2. health # <<>> /\ ~ (clock - Last(health).at > Window) /\ stored = Last(health).statuses
      <4>1. DOMAIN <<>> = {}
        OBVIOUS
      <4> QED BY <2>2, <4>1 DEF latestProviderHealthSnapshots
    <3>3. Last(health) = health[Len(health)]
      BY DEF Last
    <3>4. Len(health) \in DOMAIN health
      BY <3>2 DEF WatchInv, WatchTypes
    <3>5. health[Len(health)] \in Batches
      BY <3>4 DEF WatchInv, WatchTypes
    <3>6. clock - health[Len(health)].at <= Window
      BY <1>2, <3>2, <3>3, <3>5 DEF Batches
    <3> HIDE DEF row, stored
    <3>7. statuses[p].status = health[Len(health)].statuses[p].status
      BY <3>1, <3>2, <3>3
    <3> QED BY <1>1, <1>5, <3>1, <3>4, <3>6, <3>7
  <2> QED BY <1>4, <2>1, <2>2
<1>7. statuses = marketProviderStatuses(i) \/ statuses = mergeProviderStatuses(marketProviderStatuses(i), stored)
  OBVIOUS
<1> QED BY <1>3, <1>4, <1>6, <1>7

-----------------------------------------------------------------------------
\* What a report rests on.
LEMMA ReportIsTrue ==
  ASSUME WatchInv, WatchAssumption, NEW i \in Instances, NEW kind \in Kinds, NEW lost \in SUBSET Reads(kind),
         Report(kind, i, lost) \in Good[kind]
  PROVE  /\ \E p \in configured[i] : succeeded[p] > 0 /\ clock - succeeded[p] <= 2 * Window + CaptureRun
         /\ kind # "health" => heartbeat > 0 /\ clock - heartbeat <= CaptureAge
         /\ kind = "summary" =>
              Newest(Listed, noted[i] \cup (IF "incidents" \in lost THEN {} ELSE ledger)) \cap critical = {}
<1> DEFINE read == Reads(kind) \ lost
           runtime == marketProviderStatuses(i)
           statuses == IF "providers" \in read
                       THEN mergeProviderStatuses(runtime, latestProviderHealthSnapshots) ELSE runtime
           beat == IF "heartbeat" \in read THEN heartbeat ELSE 0
           readiness == buildReadiness(statuses, beat)
           evidence == IF "slo" \in read THEN persistentMarketSloEvidence ELSE <<>>
           slo == calculateMarketSlo(IF evidence # <<>> THEN evidence ELSE providerRegistrySloInput(i))
           stored == IF "incidents" \in read THEN listOpenIncidents ELSE {}
           listed == ListedIncidents(stored, recentIncidents(i, Listed))
           live == {p \in Providers : statuses[p].configured}
           gate == evaluateReleaseGate(readiness, slo)
           quiet == \/ \A p \in live : statuses[p].status # "up"
                    \/ \E p \in live : statuses[p].status = "down"
<1>1. Report(kind, i, lost) =
        CASE kind = "health" -> IF quiet THEN "degraded" ELSE "up"
          [] kind = "ready" -> readiness
          [] kind = "summary" -> IF gate # "fail" /\ listed \cap critical # {} THEN "fail" ELSE gate
  BY DEF Report
<1>2. Window \in Nat /\ CaptureRun \in Nat /\ Listed \in Nat
  BY DEF WatchAssumption
<1>3. statuses \in {runtime, mergeProviderStatuses(runtime, latestProviderHealthSnapshots)}
  OBVIOUS
<1>4. \A p \in Providers :
        /\ statuses[p].configured = (p \in configured[i])
        /\ statuses[p].configured /\ statuses[p].status = "up" =>
              succeeded[p] > 0 /\ clock <= succeeded[p] + 2 * Window + CaptureRun
  <2> HIDE DEF statuses
  <2> QED BY <1>2, <1>3, MergedIsTrue
<1>5. clock \in Nat /\ succeeded \in [Providers -> Nat] /\ heartbeat \in Nat
      /\ configured[i] \subseteq Providers /\ happened \in Nat
      /\ noted[i] \in SUBSET (1..happened) /\ ledger \in SUBSET (1..happened)
  BY DEF WatchInv, WatchTypes
<1>6. readiness # "not-ready" => heartbeatCheck(beat) /\ \E p \in live : statuses[p].status = "up"
  <2> HIDE DEF statuses, beat
  <2> QED BY DEF buildReadiness
<1>7. gate \in {"pass", "warn"} => readiness # "not-ready"
  <2> HIDE DEF readiness, slo
  <2> QED BY DEF evaluateReleaseGate
<1>8. beat > 0 => beat = heartbeat
  OBVIOUS
<1> HIDE DEF statuses, beat, readiness, gate, listed
<1>9. kind = "health" \/ kind = "ready" \/ kind = "summary"
  BY DEF Kinds
<1>10. Good["health"] = {"up"} /\ Good["ready"] = {"ready", "degraded"} /\ Good["summary"] = {"pass", "warn"}
  BY DEF Good
<1>11. ASSUME kind = "health" PROVE \E p \in live : statuses[p].status = "up"
  <2>1. Report(kind, i, lost) = "up"
    BY <1>10, <1>11
  <2>2. Report(kind, i, lost) = IF quiet THEN "degraded" ELSE "up"
    BY <1>1, <1>11
  <2>3. ~ quiet
    BY <2>1, <2>2
  <2> QED BY <2>3
<1>12. ASSUME kind = "ready" PROVE readiness # "not-ready"
  <2>1. Report(kind, i, lost) = readiness
    BY <1>1, <1>12
  <2> QED BY <1>10, <1>12, <2>1
<1>13. ASSUME kind = "summary" PROVE gate \in {"pass", "warn"} /\ listed \cap critical = {}
  <2>1. Report(kind, i, lost) = IF gate # "fail" /\ listed \cap critical # {} THEN "fail" ELSE gate
    BY <1>1, <1>13
  <2> QED BY <1>10, <1>13, <2>1
<1>14. \E p \in live : statuses[p].status = "up"
  BY <1>6, <1>7, <1>9, <1>11, <1>12, <1>13
<1>15. \E p \in configured[i] : succeeded[p] > 0 /\ clock - succeeded[p] <= 2 * Window + CaptureRun
  <2>1. PICK p \in Providers : statuses[p].configured /\ statuses[p].status = "up"
    BY <1>14
  <2>2. p \in configured[i] /\ succeeded[p] > 0 /\ clock <= succeeded[p] + 2 * Window + CaptureRun
    BY <1>4, <2>1
  <2>3. succeeded[p] \in Nat
    BY <1>5
  <2>4. clock - succeeded[p] <= 2 * Window + CaptureRun
    BY <1>2, <1>5, <2>2, <2>3
  <2> QED BY <2>2, <2>4
<1>16. ASSUME kind # "health" PROVE heartbeat > 0 /\ clock - heartbeat <= CaptureAge
  <2>1. heartbeatCheck(beat)
    BY <1>6, <1>7, <1>9, <1>12, <1>13, <1>16
  <2> QED BY <1>8, <2>1 DEF heartbeatCheck
<1>17. ASSUME kind = "summary"
       PROVE  Newest(Listed, noted[i] \cup (IF "incidents" \in lost THEN {} ELSE ledger)) \cap critical = {}
  <2> DEFINE old == IF "incidents" \in lost THEN {} ELSE ledger
  <2>1. "incidents" \in Reads(kind)
    BY <1>17 DEF Reads
  <2>2. stored = Newest(Listed, old)
    <3>1. CASE "incidents" \in lost
      BY <3>1 DEF Newest
    <3>2. CASE "incidents" \notin lost
      BY <2>1, <3>2 DEF listOpenIncidents
    <3> QED BY <3>1, <3>2
  <2>3. listed = Newest(Listed, Newest(Listed, old) \cup Newest(Listed, noted[i]))
    BY <2>2 DEF listed, ListedIncidents, recentIncidents
  <2>4. old \in SUBSET (1..happened)
    BY <1>5
  <2> HIDE DEF old
  <2>5. Newest(Listed, old \cup noted[i]) \subseteq listed
    BY <1>2, <1>5, <2>3, <2>4, NewestOfBoth
  <2>6. noted[i] \cup old = old \cup noted[i]
    OBVIOUS
  <2>7. Newest(Listed, noted[i] \cup old) \cap critical = {}
    BY <1>13, <1>17, <2>5, <2>6
  <2> QED BY <2>7 DEF old
<1> QED BY <1>15, <1>16, <1>17

-----------------------------------------------------------------------------
\* A fleet that has just started knows nothing.
LEMMA WatchInitInv == WatchAssumption /\ WatchInit => WatchInv
<1> SUFFICES ASSUME WatchAssumption, WatchInit PROVE WatchInv
  OBVIOUS
<1> USE DEF WatchInit
<1>1. WatchTypes
  <2>1. NoCapture \in Captures /\ NoCapture.notes = {}
    BY DEF NoCapture, Captures
  <2> QED BY <2>1 DEF WatchAssumption, WatchTypes
<1>2. Remembered
  <2>1. \A i \in Instances, p \in Providers : events[i][p] = <<>> /\ succeeded[p] = 0
    OBVIOUS
  <2>2. Remembers(<<>>, 1, 0)
    BY DEF Remembers
  <2> QED BY <2>1, <2>2 DEF Remembered
<1>3. Written /\ CaptureRuns
  BY DEF Written, CaptureRuns, NoCapture
<1> QED BY <1>1, <1>2, <1>3 DEF WatchInv

LEMMA RemembersLonger ==
  ASSUME NEW s, NEW now \in Nat, NEW last \in Nat, NEW later \in Nat, NEW newer \in Nat,
         Remembers(s, now, last), now <= later, last <= newer
  PROVE  Remembers(s, later, newer)
<1>1. s \in Seq(EventRows)
  BY DEF Remembers
<1>2. ASSUME NEW k \in DOMAIN s
      PROVE  s[k].at > 0 /\ s[k].at <= later /\ (s[k].success => s[k].at <= newer)
  <2>1. s[k] \in EventRows
    BY <1>1
  <2>2. s[k].at \in Nat
    BY <2>1 DEF EventRows
  <2>3. s[k].at > 0 /\ s[k].at <= now /\ (s[k].success => s[k].at <= last)
    BY DEF Remembers
  <2> QED BY <2>2, <2>3
<1> QED BY <1>2 DEF Remembers

\* An instance notes a call it makes now.
LEMMA NotesACall ==
  ASSUME clock \in Nat, clock > 0, Window \in Nat, NEW last \in Nat, NEW newer \in Nat, NEW s,
         Remembers(s, clock, last), last <= newer,
         NEW e \in EventRows, e.at = clock, e.success => newer = clock
  PROVE  Remembers(prune(Append(s, e)), clock, newer)
<1>1. Remembers(s, clock, newer)
  BY RemembersLonger
<1>2. s \in Seq(EventRows) /\ Len(s) \in Nat /\ DOMAIN s = 1..Len(s)
  BY <1>1 DEF Remembers
<1> DEFINE t == Append(s, e)
<1>3. /\ t \in Seq(EventRows) /\ DOMAIN t = 1..(Len(s) + 1)
      /\ \A k \in 1..Len(s) : t[k] = s[k]
      /\ t[Len(s) + 1] = e
  <2>1. t \in Seq(EventRows) /\ Len(t) = Len(s) + 1
        /\ (\A k \in 1..Len(s) : t[k] = s[k]) /\ t[Len(s) + 1] = e
    BY <1>2, AppendProperties
  <2>2. DOMAIN t = 1..Len(t)
    BY <2>1, LenProperties
  <2> QED BY <2>1, <2>2
<1> HIDE DEF t
<1>4. ASSUME NEW k \in DOMAIN t
      PROVE  t[k].at > 0 /\ t[k].at <= clock /\ (t[k].success => t[k].at <= newer)
  <2>1. k \in DOMAIN s \/ k = Len(s) + 1
    BY <1>2, <1>3
  <2> QED BY <1>1, <1>2, <1>3, <2>1 DEF Remembers
<1>5. ASSUME NEW k \in DOMAIN t, NEW m \in DOMAIN t, k <= m PROVE t[k].at <= t[m].at
  <2>1. CASE m \in DOMAIN s
    <3>1. k \in DOMAIN s
      BY <1>2, <1>3, <1>5, <2>1
    <3> QED BY <1>1, <1>2, <1>3, <1>5, <2>1, <3>1 DEF Remembers
  <2>2. CASE m = Len(s) + 1
    BY <1>3, <1>4, <2>2
  <2> QED BY <1>2, <1>3, <2>1, <2>2
<1>6. Remembers(t, clock, newer)
  BY <1>3, <1>4, <1>5 DEF Remembers
<1>7. Remembers(prune(t), clock, newer)
  BY <1>6, PrunedRemembers
<1> QED BY <1>7 DEF t

-----------------------------------------------------------------------------
LEMMA NewestIsFew ==
  ASSUME NEW h \in Nat, NEW A \in SUBSET (1..h), NEW n
  PROVE  Newest(n, A) \in SUBSET (1..h) /\ Newest(n, A \cup {h + 1}) \in SUBSET (1..(h + 1))
<1>1. A \cup {h + 1} \in SUBSET (1..(h + 1))
  OBVIOUS
<1> QED BY <1>1, NewestIsListed

\* What is written and what runs stays as true while answers come in.
LEMMA AnsweredLater ==
  ASSUME WatchTypes, succeeded' \in [Providers -> Nat],
         \A p \in Providers : succeeded[p] <= succeeded'[p],
         NEW statuses, NEW by \in Nat, NEW within \in Nat, Answered(statuses, by, within, succeeded)
  PROVE  Answered(statuses, by, within, succeeded')
<1> SUFFICES ASSUME NEW p \in Providers, statuses[p].status = "up"
             PROVE  succeeded'[p] > 0 /\ by <= succeeded'[p] + within
  BY DEF Answered
<1>1. succeeded[p] \in Nat /\ succeeded'[p] \in Nat /\ succeeded[p] <= succeeded'[p]
  BY DEF WatchTypes
<1>2. succeeded[p] > 0 /\ by <= succeeded[p] + within
  BY DEF Answered
<1> QED BY <1>1, <1>2

LEMMA CallsKeepWatch ==
  ASSUME WatchInv, WatchAssumption, NEW i \in Instances, AskProviders(i)
  PROVE  WatchInv'
<1> USE DEF WatchInv
<1>1. PICK p \in configured[i] :
         \/ \E latency \in Latencies : recordProviderSuccess(i, p, latency)
         \/ recordProviderFailure(i, p)
  BY DEF AskProviders
<1>2. /\ clock \in Nat /\ clock > 0 /\ happened \in Nat /\ p \in Providers
      /\ events \in [Instances -> [Providers -> Seq(EventRows)]]
      /\ succeeded \in [Providers -> Nat]
      /\ noted \in [Instances -> SUBSET (1..happened)]
      /\ ledger \subseteq 1..happened /\ capture.notes \subseteq 1..happened
      /\ Window \in Nat /\ CaptureRun \in Nat
  BY <1>1 DEF WatchTypes, WatchAssumption
<1>3. /\ happened' = happened + 1
      /\ UNCHANGED <<clock, configured, health, heartbeat, ledger, capture>>
  BY DEF AskProviders, ledgerVars
<1>4. PICK e \in EventRows, newer \in Nat :
         /\ e.at = clock /\ (e.success => newer = clock)
         /\ succeeded[p] <= newer /\ newer <= clock
         /\ events' = [events EXCEPT ![i][p] = prune(Append(@, e))]
         /\ succeeded' = [succeeded EXCEPT ![p] = newer]
  <2>1. succeeded[p] \in Nat /\ succeeded[p] <= clock
    BY <1>2 DEF Remembered
  <2> HIDE DEF WatchInv
  <2>2. ASSUME NEW latency \in Latencies, recordProviderSuccess(i, p, latency)
        PROVE  \E e \in EventRows, newer \in Nat :
                 /\ e.at = clock /\ (e.success => newer = clock)
                 /\ succeeded[p] <= newer /\ newer <= clock
                 /\ events' = [events EXCEPT ![i][p] = prune(Append(@, e))]
                 /\ succeeded' = [succeeded EXCEPT ![p] = newer]
    <3> DEFINE e == [at |-> clock, success |-> TRUE, latency |-> latency]
    <3>1. e \in EventRows /\ e.at = clock
      BY <1>2 DEF EventRows
    <3>2. events' = [events EXCEPT ![i][p] = prune(Append(@, e))]
          /\ succeeded' = [succeeded EXCEPT ![p] = clock]
      BY <2>2 DEF recordProviderSuccess
    <3> HIDE DEF e
    <3>3. succeeded[p] <= clock /\ clock <= clock
      BY <1>2, <2>1
    <3> QED BY <1>2, <3>1, <3>2, <3>3
  <2>3. ASSUME recordProviderFailure(i, p)
        PROVE  \E e \in EventRows, newer \in Nat :
                 /\ e.at = clock /\ (e.success => newer = clock)
                 /\ succeeded[p] <= newer /\ newer <= clock
                 /\ events' = [events EXCEPT ![i][p] = prune(Append(@, e))]
                 /\ succeeded' = [succeeded EXCEPT ![p] = newer]
    <3> DEFINE e == [at |-> clock, success |-> FALSE, latency |-> 0]
    <3>1. e \in EventRows /\ e.at = clock /\ ~ e.success
      BY <1>2 DEF EventRows
    <3>2. events' = [events EXCEPT ![i][p] = prune(Append(@, e))] /\ succeeded' = succeeded
      BY <2>3 DEF recordProviderFailure
    <3>3. succeeded' = [succeeded EXCEPT ![p] = succeeded[p]]
      BY <1>2, <3>2
    <3> HIDE DEF e
    <3> QED BY <1>2, <2>1, <3>1, <3>2, <3>3
  <2> QED BY <1>1, <2>2, <2>3
<1>5. succeeded' \in [Providers -> Nat] /\ \A q \in Providers : succeeded[q] <= succeeded'[q]
      /\ succeeded'[q] <= clock'
  BY <1>2, <1>3, <1>4 DEF Remembered
<1>6. \A j \in Instances, q \in Providers :
        events'[j][q] = IF j = i /\ q = p THEN prune(Append(events[i][p], e)) ELSE events[j][q]
  BY <1>2, <1>4
<1>7. \A j \in Instances, q \in Providers : Remembers(events'[j][q], clock', succeeded'[q])
  <2> SUFFICES ASSUME NEW j \in Instances, NEW q \in Providers
               PROVE  Remembers(events'[j][q], clock, succeeded'[q])
    BY <1>3
  <2>1. Remembers(events[j][q], clock, succeeded[q]) /\ succeeded[q] \in Nat /\ succeeded'[q] \in Nat
        /\ succeeded[q] <= succeeded'[q]
    BY <1>2, <1>5 DEF Remembered
  <2>2. CASE j = i /\ q = p
    <3>1. succeeded'[q] = newer
      BY <1>2, <1>4, <2>2
    <3>2. Remembers(prune(Append(events[j][q], e)), clock, newer)
      BY <1>2, <1>4, <2>1, <2>2, NotesACall
    <3> QED BY <1>6, <2>2, <3>1, <3>2
  <2>3. CASE ~ (j = i /\ q = p)
    <3>1. events'[j][q] = events[j][q]
      BY <1>6, <2>3
    <3> QED BY <1>2, <2>1, <3>1, RemembersLonger
  <2> QED BY <2>2, <2>3
<1>8. noted' \in [Instances -> SUBSET (1..happened')]
  <2>1. \A j \in Instances : noted[j] \in SUBSET (1..(happened + 1))
    BY <1>2
  <2>2. noted \in [Instances -> SUBSET (1..(happened + 1))]
    BY <1>2, <2>1
  <2>3. Newest(Kept, noted[i] \cup {happened + 1}) \in SUBSET (1..(happened + 1))
    BY <1>2, NewestIsFew
  <2>4. noted' = noted \/ noted' = [noted EXCEPT ![i] = Newest(Kept, @ \cup {happened + 1})]
    BY <1>3 DEF AskProviders, recordIncident
  <2>5. noted' = noted \/ noted' = [noted EXCEPT ![i] = Newest(Kept, noted[i] \cup {happened + 1})]
    BY <1>2, <2>4
  <2> QED BY <1>3, <2>2, <2>3, <2>5
<1>9. events' \in [Instances -> [Providers -> Seq(EventRows)]]
  <2>1. DOMAIN events' = Instances /\ \A j \in Instances : DOMAIN events'[j] = Providers
        /\ \E f \in [Instances -> [Providers -> Seq(EventRows)]] : f = events'
    <3>1. prune(Append(events[i][p], e)) \in Seq(EventRows)
      BY <1>6, <1>7, <1>2 DEF Remembers
    <3> QED BY <1>2, <1>4, <3>1
  <2> QED BY <2>1
<1>10. WatchTypes'
  <2>1. ledger \subseteq 1..(happened + 1) /\ capture.notes \subseteq 1..(happened + 1)
    BY <1>2
  <2> QED BY <1>2, <1>3, <1>5, <1>8, <1>9, <2>1 DEF WatchTypes
<1>11. Remembered'
  BY <1>5, <1>7 DEF Remembered
<1>12. Written'
  <2> SUFFICES ASSUME NEW k \in DOMAIN health
               PROVE  health[k].at <= clock /\ Answered(health[k].statuses, health[k].at, Window + CaptureRun, succeeded')
    <3>1. health' = health /\ clock' = clock
      BY <1>3
    <3> QED BY <3>1 DEF Written, Answered
  <2>1. health[k] \in Batches /\ Window + CaptureRun \in Nat
    BY <1>2 DEF WatchTypes
  <2>2. health[k].at \in Nat
    BY <2>1 DEF Batches
  <2>3. health[k].at <= clock /\ Answered(health[k].statuses, health[k].at, Window + CaptureRun, succeeded)
    BY DEF Written
  <2> QED BY <1>5, <2>1, <2>2, <2>3, AnsweredLater
<1>13. CaptureRuns'
  <2>1. ASSUME "snapshots" \in capture.todo PROVE Answered(capture.statuses, capture.since, Window, succeeded')
    <3>1. capture.since \in Nat
      BY DEF WatchTypes, Captures
    <3> QED BY <1>2, <1>5, <2>1, <3>1, AnsweredLater DEF CaptureRuns
  <2> QED BY <1>3, <2>1 DEF CaptureRuns, Answered
<1> QED BY <1>10, <1>11, <1>12, <1>13

-----------------------------------------------------------------------------
\* Steps that change nothing an instance remembers.
LEMMA StillRemembered ==
  ASSUME Remembered, UNCHANGED <<clock, events, succeeded>>
  PROVE  Remembered'
BY DEF Remembered

LEMMA TickKeepsWatch == ASSUME WatchInv, WatchAssumption, WatchTick PROVE WatchInv'
<1> USE DEF WatchInv
<1>1. /\ clock \in Nat /\ clock > 0 /\ clock' = clock + 1 /\ CaptureRun \in Nat
      /\ succeeded \in [Providers -> Nat]
      /\ UNCHANGED <<configured, events, circuit, noted, critical, succeeded, health, heartbeat, ledger,
                     capture, happened, captures>>
  BY DEF WatchTick, WatchTypes, WatchAssumption, memoryVars, ledgerVars, boundVars
<1>2. WatchTypes'
  BY <1>1 DEF WatchTypes
<1>3. Remembered'
  <2>1. ASSUME NEW p \in Providers PROVE succeeded[p] \in Nat /\ succeeded[p] <= clock + 1
    <3>1. succeeded[p] \in Nat /\ succeeded[p] <= clock
      BY <1>1 DEF Remembered
    <3> QED BY <1>1, <3>1
  <2>2. ASSUME NEW i \in Instances, NEW p \in Providers
        PROVE  Remembers(events[i][p], clock + 1, succeeded[p])
    <3>1. Remembers(events[i][p], clock, succeeded[p]) /\ clock + 1 \in Nat /\ clock <= clock + 1
      BY <1>1 DEF Remembered
    <3> QED BY <1>1, <2>1, <3>1, RemembersLonger
  <2> QED BY <1>1, <2>1, <2>2 DEF Remembered
<1>4. Written'
  <2> SUFFICES ASSUME NEW k \in DOMAIN health
               PROVE  health[k].at <= clock + 1
                      /\ Answered(health[k].statuses, health[k].at, Window + CaptureRun, succeeded)
    BY <1>1 DEF Written
  <2>1. health[k] \in Batches
    BY DEF WatchTypes
  <2>2. health[k].at \in Nat
    BY <2>1 DEF Batches
  <2> QED BY <1>1, <2>2 DEF Written
<1>5. CaptureRuns'
  <2>1. ASSUME capture.stage # "idle" PROVE capture.since <= clock + 1 /\ clock + 1 <= capture.since + CaptureRun
    <3>1. capture.since \in Nat
      BY DEF WatchTypes, Captures
    <3>2. clock - capture.since < CaptureRun /\ capture.since <= clock
      BY <2>1 DEF WatchTick, CaptureRuns
    <3> QED BY <1>1, <3>1, <3>2
  <2> QED BY <1>1, <2>1 DEF CaptureRuns
<1> QED BY <1>2, <1>3, <1>4, <1>5

LEMMA StartKeepsWatch ==
  ASSUME WatchInv, WatchAssumption, NEW i \in Instances, StartCapture(i)
  PROVE  WatchInv'
<1> USE DEF WatchInv
<1> DEFINE notes == recentIncidents(i, 2 * Listed)
<1>1. UNCHANGED <<clock, configured, events, circuit, noted, critical, succeeded, health, heartbeat, ledger,
                  happened>>
  BY DEF StartCapture, memoryVars, ledgerVars
<1>2. clock \in Nat /\ CaptureRun \in Nat /\ happened \in Nat /\ notes \in SUBSET (1..happened)
  <2>1. clock \in Nat /\ happened \in Nat /\ CaptureRun \in Nat /\ noted[i] \in SUBSET (1..happened)
    BY DEF WatchTypes, WatchAssumption
  <2> QED BY <2>1, NewestIsListed DEF recentIncidents
<1>3. capture' = [stage |-> "first", at |-> i, since |-> clock, todo |-> {"incidents"}, notes |-> notes,
                  statuses |-> <<>>]
  BY DEF StartCapture, NoCapture
<1> HIDE DEF notes
<1>4. capture' \in Captures /\ capture'.notes \subseteq 1..happened
  <2>1. notes \in SUBSET Nat
    BY <1>2
  <2>2. {"incidents"} \in SUBSET CaptureWritten
    BY DEF CaptureWritten
  <2> QED BY <1>2, <1>3, <2>1, <2>2 DEF Captures
<1>5. WatchTypes'
  BY <1>1, <1>4 DEF WatchTypes
<1>6. CaptureRuns'
  BY <1>1, <1>2, <1>3 DEF CaptureRuns
<1>7. Written'
  BY <1>1 DEF Written
<1>8. Remembered'
  BY <1>1, StillRemembered
<1> QED BY <1>5, <1>6, <1>7, <1>8

LEMMA ContinueKeepsWatch == ASSUME WatchInv, WatchAssumption, ContinueCapture PROVE WatchInv'
<1> USE DEF WatchInv
<1>1. UNCHANGED <<clock, configured, events, circuit, noted, critical, succeeded, health, heartbeat, ledger,
                  happened>>
  BY DEF ContinueCapture, memoryVars, ledgerVars, boundVars
<1>2. clock \in Nat /\ CaptureRun \in Nat /\ Window \in Nat /\ capture \in Captures
      /\ capture.notes \subseteq 1..happened
  BY DEF WatchTypes, WatchAssumption
<1>3. capture' \in Captures /\ capture'.notes \subseteq 1..happened /\ CaptureRuns'
  <2>1. CASE CaptureEnds
    <3>1. capture' = NoCapture
      BY <2>1 DEF CaptureEnds
    <3>2. NoCapture \in Captures
      BY DEF NoCapture, Captures
    <3> QED BY <3>1, <3>2 DEF NoCapture, CaptureRuns
  <2>2. CASE FirstWritten
    <3> DEFINE statuses == marketProviderStatuses(capture.at)
    <3>1. capture.stage = "first" /\ capture.at \in Instances
          /\ capture.since <= clock /\ clock <= capture.since + CaptureRun /\ capture.since \in Nat
      BY <1>2, <2>2 DEF FirstWritten, CaptureRuns, Captures
    <3>2. ASSUME NEW p \in Providers
          PROVE  /\ statuses[p] \in StatusRows
                 /\ statuses[p].status = "up" =>
                       succeeded[p] > 0 /\ capture.since <= succeeded[p] + Window
      <4>1. statuses[p] = providerStatus(capture.at, p)
        BY DEF marketProviderStatuses
      <4>2. /\ statuses[p] \in StatusRows
            /\ statuses[p].status = "up" => succeeded[p] > 0 /\ clock <= succeeded[p] + Window
        BY <1>2, <3>1, <4>1, StatusIsTrue
      <4>3. succeeded[p] \in Nat
        BY DEF WatchTypes
      <4> QED BY <1>2, <3>1, <4>2, <4>3
    <3>3. statuses \in ProviderStatuses
      <4>1. statuses = [p \in Providers |-> statuses[p]]
        BY DEF marketProviderStatuses
      <4> HIDE DEF statuses
      <4> QED BY <3>2, <4>1 DEF ProviderStatuses
    <3>4. capture' = [capture EXCEPT !.stage = "second", !.todo = {"snapshots", "heartbeat"},
                                     !.statuses = statuses]
      BY <2>2 DEF FirstWritten
    <3> HIDE DEF statuses
    <3>5. {"snapshots", "heartbeat"} \in SUBSET CaptureWritten
      BY DEF CaptureWritten
    <3>6. /\ capture' \in Captures /\ capture'.stage = "second" /\ capture'.at = capture.at
          /\ capture'.since = capture.since /\ capture'.notes = capture.notes
          /\ capture'.statuses = statuses
      BY <1>2, <3>3, <3>4, <3>5 DEF Captures
    <3>7. Answered(statuses, capture.since, Window, succeeded)
      BY <3>2 DEF Answered
    <3> QED BY <1>1, <1>2, <3>1, <3>3, <3>6, <3>7 DEF CaptureRuns
  <2> QED BY <2>1, <2>2 DEF ContinueCapture
<1>4. WatchTypes'
  BY <1>1, <1>3 DEF WatchTypes
<1>5. Written'
  BY <1>1 DEF Written
<1>6. Remembered'
  BY <1>1, StillRemembered
<1> QED BY <1>3, <1>4, <1>5, <1>6

LEMMA WritesKeepWatch ==
  ASSUME WatchInv, WatchAssumption, NEW w \in CaptureWritten, CaptureWrites(w)
  PROVE  WatchInv'
<1> USE DEF WatchInv
<1>1. UNCHANGED <<clock, configured, events, circuit, noted, critical, succeeded, happened>>
  BY DEF CaptureWrites, memoryVars, boundVars
<1>2. /\ clock \in Nat /\ clock > 0 /\ CaptureRun \in Nat /\ Window \in Nat /\ capture \in Captures
      /\ capture.notes \subseteq 1..happened /\ ledger \subseteq 1..happened
      /\ health \in Seq(Batches) /\ heartbeat \in Nat
      /\ succeeded \in [Providers -> Nat]
  BY DEF WatchTypes, WatchAssumption
<1>3. /\ capture.stage # "idle" /\ capture.at \in Instances /\ capture.since \in Nat
      /\ capture.since <= clock /\ clock <= capture.since + CaptureRun
      /\ w \in capture.todo
  BY <1>2 DEF CaptureWrites, CaptureRuns, Captures
<1>4. /\ capture' \in Captures /\ capture'.todo = capture.todo \ {w}
      /\ capture'.stage = capture.stage /\ capture'.at = capture.at /\ capture'.since = capture.since
      /\ capture'.notes = capture.notes /\ capture'.statuses = capture.statuses
  <2>1. capture.todo \ {w} \in SUBSET CaptureWritten
    BY <1>2 DEF Captures
  <2>2. capture' = [capture EXCEPT !.todo = capture.todo \ {w}]
    BY <1>2 DEF CaptureWrites, Captures
  <2> QED BY <1>2, <2>1, <2>2 DEF Captures
<1>5. ledger' \subseteq 1..happened
  BY <1>2 DEF CaptureWrites, upsertIncidents
<1>6. heartbeat' \in Nat
  BY <1>2 DEF CaptureWrites, writeHeartbeat
<1>7. health' \in Seq(Batches) /\ Written'
  <2>1. CASE w # "snapshots"
    <3>1. health' = health
      BY <2>1 DEF CaptureWrites
    <3> QED BY <1>1, <1>2, <3>1 DEF Written
  <2>2. CASE w = "snapshots"
    <3> DEFINE batch == [at |-> clock, statuses |-> capture.statuses]
    <3>1. health' = Append(health, batch)
      BY <2>2 DEF CaptureWrites, insertProviderHealthSnapshots
    <3>2. capture.statuses \in ProviderStatuses /\ Answered(capture.statuses, capture.since, Window, succeeded)
      BY <1>3, <2>2 DEF CaptureRuns
    <3>3. batch \in Batches
      BY <1>2, <3>2 DEF Batches
    <3>4. batch.at = clock /\ batch.statuses = capture.statuses
      OBVIOUS
    <3> HIDE DEF batch
    <3>5. Answered(capture.statuses, clock, Window + CaptureRun, succeeded)
      <4> SUFFICES ASSUME NEW p \in Providers, capture.statuses[p].status = "up"
                   PROVE  succeeded[p] > 0 /\ clock <= succeeded[p] + (Window + CaptureRun)
        BY DEF Answered
      <4>1. succeeded[p] > 0 /\ capture.since <= succeeded[p] + Window /\ succeeded[p] \in Nat
        BY <1>2, <3>2 DEF Answered
      <4> QED BY <1>2, <1>3, <4>1
    <3>6. /\ health' \in Seq(Batches) /\ Len(health') = Len(health) + 1 /\ Len(health) \in Nat
          /\ (\A k \in 1..Len(health) : health'[k] = health[k])
          /\ health'[Len(health) + 1] = batch
      BY <1>2, <3>1, <3>3, AppendProperties, LenProperties
    <3>7. DOMAIN health' = 1..(Len(health) + 1) /\ DOMAIN health = 1..Len(health)
      BY <1>2, <3>6, LenProperties
    <3>8. ASSUME NEW k \in DOMAIN health'
          PROVE  health'[k].at <= clock
                 /\ Answered(health'[k].statuses, health'[k].at, Window + CaptureRun, succeeded)
      <4>1. CASE k = Len(health) + 1
        <5>1. health'[k].at = clock /\ health'[k].statuses = capture.statuses
          BY <3>4, <3>6, <4>1
        <5> QED BY <1>2, <3>5, <5>1
      <4>2. CASE k # Len(health) + 1
        <5>1. k \in DOMAIN health /\ health'[k] = health[k]
          BY <3>6, <3>7, <4>2
        <5> QED BY <5>1 DEF Written
      <4> QED BY <4>1, <4>2
    <3> QED BY <1>1, <3>6, <3>8 DEF Written
  <2> QED BY <2>1, <2>2
<1>8. WatchTypes'
  BY <1>1, <1>2, <1>4, <1>5, <1>6, <1>7 DEF WatchTypes
<1>9. CaptureRuns'
  BY <1>1, <1>3, <1>4 DEF CaptureRuns
<1>10. Remembered'
  BY <1>1, StillRemembered
<1> QED BY <1>7, <1>8, <1>9, <1>10

LEMMA FailuresKeepWatch ==
  ASSUME WatchInv, WatchAssumption, NEW w \in CaptureWritten, CaptureWriteFails(w)
  PROVE  WatchInv'
<1> USE DEF WatchInv
<1>1. /\ UNCHANGED <<clock, configured, events, circuit, noted, critical, succeeded, health, heartbeat, ledger>>
      /\ happened' = happened + 1
  BY DEF CaptureWriteFails, memoryVars, ledgerVars
<1>2. capture \in Captures /\ happened \in Nat /\ capture.notes \subseteq 1..(happened + 1)
      /\ ledger \subseteq 1..(happened + 1)
  BY DEF WatchTypes
<1>3. /\ capture' \in Captures /\ capture'.todo = capture.todo \ {w}
      /\ capture'.stage = "failed" /\ capture'.at = capture.at /\ capture'.since = capture.since
      /\ capture'.notes = capture.notes /\ capture'.statuses = capture.statuses
  <2>1. capture.todo \ {w} \in SUBSET CaptureWritten
    BY <1>2 DEF Captures
  <2>2. capture' = [capture EXCEPT !.todo = capture.todo \ {w}, !.stage = "failed"]
    BY <1>2 DEF CaptureWriteFails, Captures
  <2> QED BY <1>2, <2>1, <2>2 DEF Captures
<1>4. noted' \in [Instances -> SUBSET (1..happened')]
  <2>1. \A j \in Instances : noted[j] \in SUBSET (1..(happened + 1))
    BY <1>2 DEF WatchTypes
  <2> QED BY <1>1, <2>1 DEF WatchTypes
<1>5. WatchTypes'
  BY <1>1, <1>2, <1>3, <1>4 DEF WatchTypes
<1>6. w \in capture.todo
  BY DEF CaptureWriteFails
<1>7. CaptureRuns'
  BY <1>1, <1>3, <1>6 DEF CaptureRuns
<1>8. Written'
  BY <1>1 DEF Written
<1>9. Remembered'
  BY <1>1, StillRemembered
<1> QED BY <1>5, <1>7, <1>8, <1>9

LEMMA RestartKeepsWatch ==
  ASSUME WatchInv, WatchAssumption, NEW i \in Instances, Restart(i)
  PROVE  WatchInv'
<1> USE DEF WatchInv
<1>1. /\ UNCHANGED <<clock, configured, critical, succeeded, health, heartbeat, ledger>>
      /\ happened' = happened + 1
      /\ events' = [events EXCEPT ![i] = [p \in Providers |-> <<>>]]
      /\ noted' = [noted EXCEPT ![i] = {}]
      /\ capture' = NoCapture \/ capture' = capture
  BY DEF Restart, ledgerVars
<1>2. /\ happened \in Nat /\ ledger \subseteq 1..(happened + 1) /\ capture.notes \subseteq 1..(happened + 1)
      /\ events \in [Instances -> [Providers -> Seq(EventRows)]] /\ capture \in Captures
      /\ noted \in [Instances -> SUBSET (1..happened)]
      /\ clock \in Nat /\ succeeded \in [Providers -> Nat]
  BY DEF WatchTypes
<1>3. NoCapture \in Captures /\ NoCapture.notes = {} /\ NoCapture.stage = "idle" /\ NoCapture.todo = {}
  BY DEF NoCapture, Captures
<1>4. noted' \in [Instances -> SUBSET (1..happened')]
  <2>1. \A j \in Instances : noted[j] \in SUBSET (1..(happened + 1))
    BY <1>2
  <2>2. noted \in [Instances -> SUBSET (1..(happened + 1))]
    BY <1>2, <2>1
  <2>3. {} \in SUBSET (1..(happened + 1))
    OBVIOUS
  <2> QED BY <1>1, <2>2, <2>3
<1>5. events' \in [Instances -> [Providers -> Seq(EventRows)]]
      /\ \A j \in Instances, p \in Providers : events'[j][p] = IF j = i THEN <<>> ELSE events[j][p]
  <2>1. <<>> \in Seq(EventRows)
    OBVIOUS
  <2>2. [p \in Providers |-> <<>>] \in [Providers -> Seq(EventRows)]
    BY <2>1
  <2> QED BY <1>1, <1>2, <2>2
<1>6. WatchTypes'
  <2>1. capture' \in Captures /\ capture'.notes \subseteq 1..(happened + 1)
    BY <1>1, <1>2, <1>3
  <2> QED BY <1>1, <1>2, <1>4, <1>5, <2>1 DEF WatchTypes
<1>7. Remembered'
  <2>1. ASSUME NEW j \in Instances, NEW p \in Providers
        PROVE  Remembers(events'[j][p], clock, succeeded[p])
    <3>1. Remembers(<<>>, clock, succeeded[p])
      BY DEF Remembers
    <3>2. Remembers(events[j][p], clock, succeeded[p])
      BY DEF Remembered
    <3> QED BY <1>5, <3>1, <3>2
  <2> QED BY <1>1, <2>1 DEF Remembered
<1>8. CaptureRuns'
  BY <1>1, <1>3 DEF CaptureRuns
<1>9. Written'
  BY <1>1 DEF Written
<1> QED BY <1>6, <1>7, <1>8, <1>9

LEMMA OthersKeepWatch ==
  ASSUME WatchInv,
         UNCHANGED <<clock, configured, events, noted, succeeded, health, heartbeat, ledger, capture, happened>>
  PROVE  WatchInv'
BY DEF WatchInv, WatchTypes, Remembered, Written, CaptureRuns

\* Every step of an instance, of the capture job and of time keeps what the reports rest on.
LEMMA WatchInvariant == WatchSpec => []WatchInv
<1>1. WatchAssumption
  BY WatchAssumption
<1>2. WatchInit => WatchInv
  BY <1>1, WatchInitInv
<1>3. WatchInv /\ [WatchNext]_watchVars => WatchInv'
  <2> SUFFICES ASSUME WatchInv, [WatchNext]_watchVars PROVE WatchInv'
    OBVIOUS
  <2>1. CASE WatchTick
    BY <1>1, <2>1, TickKeepsWatch
  <2>2. CASE ContinueCapture
    BY <1>1, <2>2, ContinueKeepsWatch
  <2>3. ASSUME NEW i \in Instances, AskProviders(i) PROVE WatchInv'
    BY <1>1, <2>3, CallsKeepWatch
  <2>4. ASSUME NEW i \in Instances, HalfOpens(i) PROVE WatchInv'
    BY <2>4, OthersKeepWatch DEF HalfOpens, ledgerVars, boundVars
  <2>5. ASSUME NEW i \in Instances, StartCapture(i) PROVE WatchInv'
    BY <1>1, <2>5, StartKeepsWatch
  <2>6. ASSUME NEW i \in Instances, Restart(i) PROVE WatchInv'
    BY <1>1, <2>6, RestartKeepsWatch
  <2>7. ASSUME NEW w \in CaptureWritten, CaptureWrites(w) PROVE WatchInv'
    BY <1>1, <2>7, WritesKeepWatch
  <2>8. ASSUME NEW w \in CaptureWritten, CaptureWriteFails(w) PROVE WatchInv'
    BY <1>1, <2>8, FailuresKeepWatch
  <2>9. CASE UNCHANGED watchVars
    BY <2>9, OthersKeepWatch DEF watchVars, memoryVars, ledgerVars, boundVars
  <2> QED BY <2>1, <2>2, <2>3, <2>4, <2>5, <2>6, <2>7, <2>8, <2>9 DEF WatchNext, CaptureWritten
<1> QED BY <1>2, <1>3, PTL DEF WatchSpec

\* What is reported up, ready or fit for release rests on an answer of a configured provider, a
\* capture that ended lately, and no critical incident among the newest (buildOpsSummary, health.ts).
THEOREM GoodWordIsEarnedAlways == WatchSpec => []GoodWordIsEarned
<1>1. WatchInv => GoodWordIsEarned
  <2> SUFFICES ASSUME WatchInv, NEW i \in Instances, NEW kind \in Kinds, NEW lost \in SUBSET Reads(kind),
                      Report(kind, i, lost) \in Good[kind]
               PROVE  /\ \E p \in configured[i] :
                           succeeded[p] > 0 /\ clock - succeeded[p] <= 2 * Window + CaptureRun
                      /\ kind # "health" => heartbeat > 0 /\ clock - heartbeat <= CaptureAge
                      /\ kind = "summary" =>
                           Newest(Listed, noted[i] \cup (IF "incidents" \in lost THEN {} ELSE ledger))
                             \cap critical = {}
    BY DEF GoodWordIsEarned
  <2>1. WatchAssumption
    BY WatchAssumption
  <2> QED BY <2>1, ReportIsTrue
<1> QED BY <1>1, WatchInvariant, PTL
=============================================================================
