--------------------------- MODULE OpsIdempotency ---------------------------
(***************************************************************************)
(* One operation of the operations console under one Idempotency-Key, and  *)
(* the requests that carry the key.  The first request leases the key,     *)
(* executes the operation, records its response and answers; later ones    *)
(* are answered with the record, or refused while the lease runs.          *)
(*                                                                         *)
(* A response is told apart by the request that produced it.  A request    *)
(* that ended without an answer may come again.  Time is counted in ticks. *)
(***************************************************************************)
EXTENDS Integers, FiniteSets

CONSTANTS
  Requests,   \* requests with the same key and action
  Lease,      \* ACTION_LEASE_MS, in ticks
  Retention,  \* how long a response is kept, in ticks
  MaxRun      \* maxDuration of the function, in ticks

ASSUME OpsAssumption ==
  /\ Lease \in Nat \ {0} /\ Retention \in Nat \ {0} /\ MaxRun \in Nat \ {0}
  /\ "nobody" \notin Requests

VARIABLES
  row,       \* ops_action_idempotency: [status, owner, response, left]
  requests,  \* Requests -> [phase, age]
  reported,  \* history: operations that came to their end since the row last ran out
  answers    \* history: responses given since then

vars == <<row, requests, reported, answers>>

Nobody == "nobody"
NoRow == [status |-> "none", owner |-> Nobody, response |-> Nobody, left |-> 0]

Phases == {"idle", "executing", "executed", "answered"}

Ended == [phase |-> "idle", age |-> 0]
Answered == [phase |-> "answered", age |-> 0]

To(r, state) == requests' = [requests EXCEPT ![r] = state]

-----------------------------------------------------------------------------
(* claim_ops_action                                                         *)

FreeUnlessCompleted == row.status # "completed" \/ row.left = 0  \* mutant of Free

FreeOnceCompleted == row.status # "processing" \/ row.left = 0   \* mutant of Free

FreeWhenReleased == row.status = "none"                          \* mutant of Free

\* No lease runs and no response is kept.
Free == row.status = "none" \/ row.left = 0

\* The answer of the claim may be lost; the lease is taken nevertheless.
Claim(r) ==
  /\ requests[r].phase = "idle"
  /\ Free
  /\ row' = [status |-> "processing", owner |-> r, response |-> Nobody, left |-> Lease]
  /\ To(r, [phase |-> "executing", age |-> 0]) \/ UNCHANGED requests
  /\ UNCHANGED <<reported, answers>>

\* The response is on record.
Replay(r) ==
  /\ requests[r].phase = "idle"
  /\ row.status = "completed" /\ row.left > 0
  /\ answers' = answers \cup {row.response}
  /\ To(r, Answered)
  /\ UNCHANGED <<row, reported>>

-----------------------------------------------------------------------------
(* The handler, once it holds the lease.                                    *)

Owns(r) == row.status = "processing" /\ row.owner = r

Released(r) == IF Owns(r) THEN NoRow ELSE row

\* executeAction returns.
Execute(r) ==
  /\ requests[r].phase = "executing"
  /\ reported' = reported + 1
  /\ To(r, [requests[r] EXCEPT !.phase = "executed"])
  /\ UNCHANGED <<row, answers>>

\* executeAction throws and the lease is released, or the release fails, too.
ExecuteFails(r) ==
  /\ requests[r].phase = "executing"
  /\ row' \in {row, Released(r)}
  /\ To(r, Ended)
  /\ UNCHANGED <<reported, answers>>

StatusOnly(r) == [row EXCEPT !.status = "completed", !.left = Retention]  \* mutant of Completed

Completed(r) == [row EXCEPT !.status = "completed", !.response = r, !.left = Retention]

\* complete_ops_action.  Its answer may be lost.
Complete(r) ==
  /\ requests[r].phase = "executed" /\ Owns(r)
  /\ row' = Completed(r)
  /\ \/ To(r, Answered) /\ answers' = answers \cup {r}
     \/ To(r, Ended) /\ UNCHANGED answers
  /\ UNCHANGED reported

ReleasedAnyway(r) == Released(r)  \* mutant: forgets that the operation is done

KeptLease(r) == row

\* The operation is done and not recorded: the lease is kept.
CompleteFails(r) ==
  /\ requests[r].phase = "executed"
  /\ row' = KeptLease(r)
  /\ To(r, Ended)
  /\ UNCHANGED <<reported, answers>>

\* The function is killed.
Kill(r) ==
  /\ requests[r].phase \in {"executing", "executed"}
  /\ To(r, Ended)
  /\ UNCHANGED <<row, reported, answers>>

-----------------------------------------------------------------------------

\* prune_finance_operational_data deletes what has run out.
Prune ==
  /\ row.status # "none" /\ row.left = 0
  /\ row' = NoRow
  /\ UNCHANGED <<requests, reported, answers>>

Running(r) == requests[r].phase \in {"executing", "executed"}

\* Time passes; no function lives longer than MaxRun.
Tick ==
  /\ row.left > 0 \/ \E r \in Requests : Running(r)
  /\ \A r \in Requests : Running(r) => requests[r].age < MaxRun
  /\ row' = [row EXCEPT !.left = IF @ > 0 THEN @ - 1 ELSE 0]
  /\ requests' = [r \in Requests |->
       IF Running(r) THEN [requests[r] EXCEPT !.age = @ + 1] ELSE requests[r]]
  /\ IF row.left = 1 THEN reported' = 0 /\ answers' = {}
     ELSE UNCHANGED <<reported, answers>>

Init ==
  /\ row = NoRow
  /\ requests = [r \in Requests |-> Ended]
  /\ reported = 0 /\ answers = {}

Next ==
  \/ Tick \/ Prune
  \/ \E r \in Requests :
       \/ Claim(r) \/ Replay(r)
       \/ Execute(r) \/ ExecuteFails(r)
       \/ Complete(r) \/ CompleteFails(r) \/ Kill(r)

Spec == Init /\ [][Next]_vars

\* Time passes, operators come back until they are answered, a function ends in some way,
\* and of infinitely many requests that took the lease some end well.
Ends(r) == Execute(r) \/ ExecuteFails(r) \/ Complete(r) \/ CompleteFails(r) \/ Kill(r)
Taken == \E r \in Requests : Claim(r)
EndsWell == \E r \in Requests : Complete(r) /\ requests'[r].phase = "answered"

WeakFairness ==
  /\ WF_vars(Tick) /\ WF_vars(Taken)
  /\ \A r \in Requests : WF_vars(Ends(r))
Fairness == WeakFairness /\ ([]<><<Taken>>_vars => []<><<EndsWell>>_vars)

FairSpec == Spec /\ Fairness

-----------------------------------------------------------------------------

Rows == [status : {"none", "processing", "completed"}, owner : Requests \cup {Nobody},
         response : Requests \cup {Nobody}, left : 0..(Lease + Retention)]

\* The row and the requests have their shape; a response is on record exactly when
\* the row is completed.
TypeOK ==
  /\ row \in Rows
  /\ row.response \in Requests <=> row.status = "completed"
  /\ requests \in [Requests -> [phase : Phases, age : 0..MaxRun]]
  /\ reported \in Nat /\ answers \subseteq Requests

\* The operation is never executed by two requests at the same time: a lease that runs
\* out outlives its request (ACTION_LEASE_MS against maxDuration).
OneExecutorPerKey ==
  \A r, s \in Requests : Running(r) /\ Running(s) => r = s

\* "retain the lease on commit uncertainty to prevent an immediate duplicate
\* execution": until lease or record have run out no second execution comes to its end.
NoImmediateDuplicate == reported <= 1

\* Whoever is answered while the record is kept is told of the same execution.
AnswersAgree == Cardinality(answers) <= 1

\* The key is not blocked for ever by a request that died: who comes again is answered.
EveryoneIsAnswered ==
  \A r \in Requests : []<>(requests[r].phase = "answered")
=============================================================================
