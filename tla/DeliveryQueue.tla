---------------------------- MODULE DeliveryQueue ----------------------------
(***************************************************************************)
(* The queues of notices: of fired price alerts, of rebalancing and        *)
(* contribution plans, and of monitor digests.  They differ in where       *)
(* attempts are counted, in what guards the recording of a result, in      *)
(* whether an operator can bring a failed notice back, and in that the     *)
(* notice of a plan lives no longer than its plan waits for a review.      *)
(*                                                                         *)
(* A worker claims a batch, hands every row to the mail or push provider   *)
(* and records the answer.  When a retry is due, and how many due rows a   *)
(* batch holds, is left open: a claim takes any of the open rows.  Time is *)
(* counted in ticks.                                                       *)
(***************************************************************************)
EXTENDS Integers, FiniteSets

CONSTANTS
  Deliveries,  \* rows of the queue
  Workers,     \* overlapping runs of the function that drains it
  Limit,       \* attempts after which retryAt gives up
  Lease,       \* ticks after which a claimed row is swept
  MaxRun       \* maxDuration of the function, in ticks

ASSUME DeliveryAssumption ==
  Limit \in Nat \ {0} /\ Lease \in Nat \ {0} /\ MaxRun \in Nat \ {0}

VARIABLES
  queue,     \* which of the queues this is
  rows,      \* Deliveries -> [status, attempts, age]; age: ticks since the claim
  plan,      \* the plan the notices are about: "pending", "lapsed", "closed"
  workers,   \* Workers -> [age, batch], batch: [delivery, attempts, phase]
  refusals   \* history: failures recorded since the row was made or brought back

vars == <<queue, rows, plan, workers, refusals>>

Idle == [age |-> 0, batch |-> {}]

Open == {"pending", "retry"}
Settled == {"sent", "failed", "disabled"}

\* What is above the limit is as good as one above.
OneMore(n) == IF n > Limit THEN n ELSE n + 1

-----------------------------------------------------------------------------
(* Claiming: claim_due_deliveries and its two siblings.                     *)

SweptByStatus(row) ==  \* mutant: takes rows back whose lease still runs
  IF row.status = "processing" THEN [row EXCEPT !.status = "retry", !.age = 0] ELSE row

NeverSwept(row) == row  \* mutant of Swept

SweptToPending(row) ==  \* mutant: as if it had never been claimed
  IF row.status = "processing" /\ row.age >= Lease
  THEN [row EXCEPT !.status = "pending", !.age = 0] ELSE row

\* A row that was claimed and not settled in time is open again.
Swept(row) ==
  IF row.status = "processing" /\ row.age >= Lease
  THEN [row EXCEPT !.status = "retry", !.age = 0] ELSE row

Claimable(d) ==
  /\ Swept(rows[d]).status \in Open
  /\ queue = "plan" => plan = "pending"

\* A digest counts its attempts when they fail, the others when they start.
Claimed(row) ==
  [row EXCEPT !.status = "processing", !.age = 0,
              !.attempts = IF queue = "digest" THEN @ ELSE OneMore(@)]

Claim(w) ==
  /\ workers[w] = Idle
  /\ \E batch \in SUBSET {d \in Deliveries : Claimable(d)} :
       /\ rows' = [d \in Deliveries |-> IF d \in batch THEN Claimed(Swept(rows[d]))
                                        ELSE Swept(rows[d])]
       /\ workers' = [workers EXCEPT ![w].batch =
            {[delivery |-> d, attempts |-> rows'[d].attempts, phase |-> "claimed"] :
               d \in batch}]
  /\ UNCHANGED <<queue, plan, refusals>>

-----------------------------------------------------------------------------
(* Settling: deliverOne.                                                    *)

Drop(w, item) ==
  LET rest == workers[w].batch \ {item} IN
  workers' = [workers EXCEPT ![w] = IF rest = {} THEN Idle ELSE [@ EXCEPT !.batch = rest]]

Advance(w, item, phase) ==
  workers' = [workers EXCEPT ![w].batch =
                (@ \ {item}) \cup {[item EXCEPT !.phase = phase]}]

AnyRow(d) == TRUE  \* mutant of Recordable

\* The functions of the digests record a result whatever the row has become.
Recordable(d) == queue = "digest" \/ rows[d].status = "processing"

Record(d, row) == rows' = [rows EXCEPT ![d] = IF Recordable(d) THEN row ELSE @]

\* The provider takes the notice.
Accept(w, item) ==
  /\ item.phase = "claimed"
  /\ Advance(w, item, "accepted")
  /\ UNCHANGED <<queue, rows, plan, refusals>>

\* The answer of the committed call may be lost.
MarkSent(w, item) ==
  LET d == item.delivery IN
  /\ item.phase = "accepted"
  /\ Record(d, [rows[d] EXCEPT !.status = "sent", !.age = 0])
  /\ Drop(w, item) \/ Advance(w, item, "unsure")
  /\ UNCHANGED <<queue, plan, refusals>>

GivesUpLate(attempts) == attempts > Limit  \* mutant of GivesUp

\* retryAt has no time for another attempt.
GivesUp(attempts) == attempts >= Limit

\* The provider refused, could not be reached, or the call that records the
\* delivery failed: deliverOne handles them alike.
MarkFailure(w, item) ==
  LET d == item.delivery
      status == IF GivesUp(item.attempts) THEN "failed" ELSE "retry"
      attempts == IF queue = "digest" THEN OneMore(item.attempts) ELSE item.attempts IN
  /\ Record(d, [status |-> status, attempts |-> attempts, age |-> 0])
  /\ refusals' = [refusals EXCEPT ![d] = IF Recordable(d) THEN @ + 1 ELSE @]
  /\ Drop(w, item)
  /\ UNCHANGED <<queue, plan>>

\* The channel is not configured.
MarkDisabled(w, item) ==
  LET d == item.delivery IN
  /\ item.phase = "claimed"
  /\ Record(d, [rows[d] EXCEPT !.status = "disabled", !.age = 0])
  /\ Drop(w, item)
  /\ UNCHANGED <<queue, plan, refusals>>

\* The deadline came first, the recording failed, too, or the function was killed.
Abandon(w, item) ==
  /\ Drop(w, item)
  /\ UNCHANGED <<queue, rows, plan, refusals>>

-----------------------------------------------------------------------------
(* Operators, plans and time.                                               *)

\* retry_failed_alert_deliveries, retry_failed_portfolio_rebalance_deliveries:
\* some of the failed notices, the attempts as they are.
ManualRetry ==
  /\ queue # "digest"
  /\ queue = "plan" => plan = "pending"
  /\ \E batch \in SUBSET {d \in Deliveries : rows[d].status = "failed"} :
       /\ rows' = [d \in Deliveries |->
            IF d \in batch THEN [rows[d] EXCEPT !.status = "retry"] ELSE rows[d]]
       /\ refusals' = [d \in Deliveries |-> IF d \in batch THEN 0 ELSE refusals[d]]
  /\ UNCHANGED <<queue, plan, workers>>

Lapse ==
  /\ queue = "plan" /\ plan = "pending"
  /\ plan' = "lapsed"
  /\ UNCHANGED <<queue, rows, workers, refusals>>

OpenRowsOnly(row) == row.status \in Open  \* mutant of Stoppable

Stoppable(row) == row.status \in Open \cup {"processing"}

\* The owner approves or rejects the plan, a newer one replaces it, or it expires.
ClosePlan ==
  /\ queue = "plan" /\ plan # "closed"
  /\ plan' = "closed"
  /\ rows' = [d \in Deliveries |->
       IF Stoppable(rows[d]) THEN [rows[d] EXCEPT !.status = "disabled", !.age = 0]
       ELSE rows[d]]
  /\ UNCHANGED <<queue, workers, refusals>>

Tick ==
  /\ \/ \E d \in Deliveries : rows[d].status = "processing" /\ rows[d].age < Lease
     \/ \E w \in Workers : workers[w] # Idle
  /\ \A w \in Workers : workers[w] # Idle => workers[w].age < MaxRun
  /\ rows' = [d \in Deliveries |->
       IF rows[d].status = "processing" /\ rows[d].age < Lease
       THEN [rows[d] EXCEPT !.age = @ + 1] ELSE rows[d]]
  /\ workers' = [w \in Workers |->
       IF workers[w] = Idle THEN Idle ELSE [workers[w] EXCEPT !.age = @ + 1]]
  /\ UNCHANGED <<queue, plan, refusals>>

-----------------------------------------------------------------------------

Queues == {"alert", "plan", "digest"}

Init ==
  /\ queue \in Queues
  /\ rows = [d \in Deliveries |-> [status |-> "pending", attempts |-> 0, age |-> 0]]
  /\ plan = "pending"
  /\ workers = [w \in Workers |-> Idle]
  /\ refusals = [d \in Deliveries |-> 0]

\* deliverOne comes to an end.
Deliver(w, item) == MarkSent(w, item) \/ MarkFailure(w, item) \/ MarkDisabled(w, item)

Next ==
  \/ ManualRetry \/ Lapse \/ ClosePlan \/ Tick
  \/ \E w \in Workers :
       \/ Claim(w)
       \/ \E item \in workers[w].batch :
            Accept(w, item) \/ Deliver(w, item) \/ Abandon(w, item)

Spec == Init /\ [][Next]_vars

Takes(d) == \E w \in Workers : Claim(w) /\ \E i \in workers'[w].batch : i.delivery = d

Answers(d) == \E w \in Workers : \E i \in workers[w].batch : i.delivery = d /\ Deliver(w, i)

Expire == plan = "lapsed" /\ ClosePlan

\* The cron job comes back and closes what has lapsed, time passes, and a worker
\* that has the row is not stopped before its answer every time.
Fairness ==
  /\ WF_vars(Tick) /\ WF_vars(Expire)
  /\ \A d \in Deliveries : SF_vars(Takes(d)) /\ SF_vars(Answers(d))

FairSpec == Spec /\ Fairness

-----------------------------------------------------------------------------

Rows == [status : Open \cup Settled \cup {"processing"},
         attempts : 0..(Limit + 1), age : 0..Lease]

Items == [delivery : Deliveries, attempts : 0..(Limit + 1),
          phase : {"claimed", "accepted", "unsure"}]

\* Rows and batches have their shape; only a claimed row has an age, and a pending
\* one was never tried.
TypeOK ==
  /\ queue \in Queues
  /\ rows \in [Deliveries -> Rows]
  /\ \A d \in Deliveries :
       /\ rows[d].age > 0 => rows[d].status = "processing"
       /\ rows[d].status = "pending" => rows[d].attempts = 0
  /\ plan \in {"pending", "lapsed", "closed"}
  /\ workers \in [Workers -> [age : 0..MaxRun, batch : SUBSET Items]]
  /\ refusals \in [Deliveries -> Nat]

\* A notice is in the hands of one worker at a time (claim ... for update skip
\* locked, and leases longer than any function runs).
OneWorkerPerNotice ==
  \A v, w \in Workers : \A i \in workers[v].batch, j \in workers[w].batch :
    i.delivery = j.delivery => v = w /\ i = j

\* A notice that failed was tried often enough, and no notice is refused more often
\* than retryAt allows unless an operator brings it back, although crashes and lost
\* answers come between; a digest gets one attempt more.
AttemptsAreBounded ==
  \A d \in Deliveries :
    /\ rows[d].status = "failed" => rows[d].attempts >= Limit
    /\ refusals[d] <= IF queue = "digest" THEN Limit + 1 ELSE Limit

\* Once a plan is closed none of its notices is open or comes back, whatever a
\* worker that has claimed one before still records.
ClosedPlansAreSilent ==
  plan = "closed" => \A d \in Deliveries : rows[d].status \in Settled

\* What was sent stays sent, late failures and operators notwithstanding.  In the
\* queue of digests a lost answer undoes it.
SentStaysSent ==
  [][\A d \in Deliveries :
       rows[d].status = "sent" /\ queue # "digest" => rows'[d] = rows[d]]_vars

\* No notice stays open or claimed for ever: killed workers lose their rows, the
\* deadline only puts them off, and lapsed plans take their notices along.
EveryNoticeSettles ==
  \A d \in Deliveries : rows[d].status \notin Settled ~> rows[d].status \in Settled
=============================================================================
