--------------------------- MODULE ServicesProofs ---------------------------
(***************************************************************************)
(* Safety of two services that meet in no variable: the idempotent          *)
(* operations, for any set of requests and any durations, as long as leases *)
(* outlive the functions that hold them; and a provider's circuit and       *)
(* cache, for any requests, keys and durations, as long as a call ends      *)
(* before an opened circuit half-opens.                                     *)
(***************************************************************************)
EXTENDS OpsIdempotency, ProviderCircuit, FiniteSetTheorems, TLAPS

-----------------------------------------------------------------------------
(* The idempotent operations *)

\* Whoever runs owns a lease that was taken when it started and has not run out.
LeaseHeld ==
  \A r \in Requests : Running(r) => Owns(r) /\ row.left + requests[r].age >= Lease

\* Nothing is reported or answered that lease or record do not cover.
Covered ==
  /\ Free => reported = 0 /\ answers = {}
  /\ \A r \in Requests : requests[r].phase = "executing" => reported = 0
  /\ reported <= 1
  /\ row.status # "completed" => answers = {}
  /\ row.status = "completed" => answers \subseteq {row.response}

Inv == TypeOK /\ LeaseHeld /\ Covered

-----------------------------------------------------------------------------

\* The row and the requests keep their shape (ops_action_idempotency and the handler).
THEOREM TypeOKAlways == Spec => []TypeOK
<1>1. Init => TypeOK
  BY OpsAssumption DEF Init, TypeOK, NoRow, Rows, Nobody, Ended, Phases
<1>2. TypeOK /\ [Next]_vars => TypeOK'
  <2> SUFFICES ASSUME TypeOK, [Next]_vars PROVE TypeOK'
    OBVIOUS
  <2> USE OpsAssumption DEF TypeOK, Rows, Nobody, Phases
  <2>1. CASE UNCHANGED vars
    BY <2>1 DEF vars
  <2>2. CASE Tick
    BY <2>2 DEF Tick, Running
  <2>3. CASE Prune
    BY <2>3 DEF Prune, NoRow
  <2>4. ASSUME NEW r \in Requests, Claim(r) PROVE TypeOK'
    BY <2>4 DEF Claim, To
  <2>5. ASSUME NEW r \in Requests, Replay(r) PROVE TypeOK'
    BY <2>5 DEF Replay, To, Answered
  <2>6. ASSUME NEW r \in Requests, Execute(r) PROVE TypeOK'
    BY <2>6 DEF Execute, To
  <2>7. ASSUME NEW r \in Requests, ExecuteFails(r) PROVE TypeOK'
    BY <2>7 DEF ExecuteFails, To, Ended, Released, NoRow
  <2>8. ASSUME NEW r \in Requests, Complete(r) PROVE TypeOK'
    <3>1. row' \in Rows /\ row'.response \in Requests /\ row'.status = "completed"
      <4>1. row' = [status |-> "completed", owner |-> row.owner,
                    response |-> r, left |-> Retention]
        BY <2>8 DEF Complete, Completed
      <4>2. Retention \in 0..(Lease + Retention)
        OBVIOUS
      <4> QED
        BY <4>1, <4>2
    <3>2. answers' \subseteq Requests /\ reported' \in Nat
      BY <2>8 DEF Complete
    <3>3. requests' \in [Requests -> [phase : Phases, age : 0..MaxRun]]
      BY <2>8 DEF Complete, To, Answered, Ended
    <3> QED
      BY <3>1, <3>2, <3>3
  <2>9. ASSUME NEW r \in Requests, CompleteFails(r) PROVE TypeOK'
    BY <2>9 DEF CompleteFails, KeptLease, To, Ended
  <2>10. ASSUME NEW r \in Requests, Kill(r) PROVE TypeOK'
    BY <2>10 DEF Kill, To, Ended
  <2> QED
    BY <2>1, <2>2, <2>3, <2>4, <2>5, <2>6, <2>7, <2>8, <2>9, <2>10 DEF Next
<1> QED
  BY <1>1, <1>2, PTL DEF Spec

-----------------------------------------------------------------------------

\* A lease in use has not run out, so the key is not free.
LEMMA InUse ==
  ASSUME TypeOK, LeaseHeld, MaxRun < Lease, NEW r \in Requests, Running(r)
  PROVE  Owns(r) /\ row.left > 0 /\ ~Free
BY OpsAssumption DEF TypeOK, Rows, LeaseHeld, Owns, Free

\* Every step keeps the leases of the running requests.
LEMMA LeaseHeldStep ==
  ASSUME TypeOK, LeaseHeld, MaxRun < Lease, [Next]_vars
  PROVE  LeaseHeld'
<1> USE OpsAssumption DEF TypeOK, Rows, Nobody, Phases
<1> SUFFICES ASSUME NEW s \in Requests, Running(s)'
             PROVE  Owns(s)' /\ row'.left + requests'[s].age >= Lease
  BY DEF LeaseHeld
<1>0. Running(s) => Owns(s) /\ row.left > 0 /\ ~Free
                    /\ row.left + requests[s].age >= Lease
  BY InUse DEF LeaseHeld
<1>1. CASE UNCHANGED vars
  BY <1>1, <1>0 DEF vars, Running, Owns
<1>2. CASE Tick
  BY <1>2, <1>0 DEF Tick, Running, Owns
<1>3. CASE Prune
  BY <1>3, <1>0 DEF Prune, Running, Free
<1>4. ASSUME NEW r \in Requests, Claim(r) PROVE Owns(s)' /\ row'.left + requests'[s].age >= Lease
  BY <1>4, <1>0 DEF Claim, To, Running, Owns, Free
<1>5. ASSUME NEW r \in Requests, Replay(r) PROVE Owns(s)' /\ row'.left + requests'[s].age >= Lease
  BY <1>5, <1>0 DEF Replay, To, Answered, Running, Owns
<1>6. ASSUME NEW r \in Requests, Execute(r) PROVE Owns(s)' /\ row'.left + requests'[s].age >= Lease
  BY <1>6, <1>0 DEF Execute, To, Running, Owns
<1>7. ASSUME NEW r \in Requests, ExecuteFails(r) PROVE Owns(s)' /\ row'.left + requests'[s].age >= Lease
  BY <1>7, <1>0 DEF ExecuteFails, To, Ended, Released, Running, Owns
<1>8. ASSUME NEW r \in Requests, Complete(r) PROVE Owns(s)' /\ row'.left + requests'[s].age >= Lease
  BY <1>8, <1>0 DEF Complete, To, Answered, Ended, Running, Owns
<1>9. ASSUME NEW r \in Requests, CompleteFails(r) PROVE Owns(s)' /\ row'.left + requests'[s].age >= Lease
  BY <1>9, <1>0 DEF CompleteFails, KeptLease, To, Ended, Running, Owns
<1>10. ASSUME NEW r \in Requests, Kill(r) PROVE Owns(s)' /\ row'.left + requests'[s].age >= Lease
  BY <1>10, <1>0 DEF Kill, To, Ended, Running, Owns
<1> QED
  BY <1>1, <1>2, <1>3, <1>4, <1>5, <1>6, <1>7, <1>8, <1>9, <1>10 DEF Next

\* Every step keeps reports and answers under a lease or a record.
LEMMA CoveredStep ==
  ASSUME Inv, MaxRun < Lease, [Next]_vars
  PROVE  Covered'
<1> USE OpsAssumption DEF Inv, TypeOK, Rows, Nobody, Phases, Covered
<1>0. \A r \in Requests : Running(r) => Owns(r) /\ row.left > 0 /\ ~Free
  BY InUse
<1>1. CASE UNCHANGED vars
  BY <1>1 DEF vars, Free
<1>2. CASE Tick
  <2>1. \A r \in Requests : requests'[r].phase = requests[r].phase
    BY <1>2 DEF Tick
  <2>2. row'.status = row.status /\ row'.response = row.response
        /\ row'.left = IF row.left > 0 THEN row.left - 1 ELSE 0
    BY <1>2 DEF Tick
  <2> QED
    BY <1>2, <2>1, <2>2 DEF Tick, Free
<1>3. CASE Prune
  BY <1>3 DEF Prune, NoRow, Free
<1>4. ASSUME NEW r \in Requests, Claim(r) PROVE Covered'
  BY <1>4 DEF Claim, To, Free
<1>5. ASSUME NEW r \in Requests, Replay(r) PROVE Covered'
  BY <1>5 DEF Replay, To, Answered, Free
<1>6. ASSUME NEW r \in Requests, Execute(r) PROVE Covered'
  <2>1. \A s \in Requests : requests'[s].phase # "executing"
    BY <1>0, <1>6 DEF Execute, To, Running, Owns
  <2>2. Running(r)
    BY <1>6 DEF Execute, Running
  <2> QED
    BY <1>0, <1>6, <2>1, <2>2 DEF Execute, Free
<1>7. ASSUME NEW r \in Requests, ExecuteFails(r) PROVE Covered'
  BY <1>0, <1>7 DEF ExecuteFails, To, Ended, Released, NoRow, Running, Owns, Free
<1>8. ASSUME NEW r \in Requests, Complete(r) PROVE Covered'
  <2>1. \A s \in Requests : requests'[s].phase # "executing"
    BY <1>0, <1>8 DEF Complete, To, Answered, Ended, Running, Owns
  <2>2. answers = {} /\ answers' \subseteq {r}
    BY <1>8 DEF Complete, Owns
  <2>3. row'.status = "completed" /\ row'.response = r /\ row'.left = Retention
    BY <1>8 DEF Complete, Completed
  <2> QED
    BY <1>8, <2>1, <2>2, <2>3 DEF Complete, Free
<1>9. ASSUME NEW r \in Requests, CompleteFails(r) PROVE Covered'
  BY <1>9 DEF CompleteFails, KeptLease, To, Ended, Free
<1>10. ASSUME NEW r \in Requests, Kill(r) PROVE Covered'
  BY <1>10 DEF Kill, To, Ended, Free
<1> QED
  BY <1>1, <1>2, <1>3, <1>4, <1>5, <1>6, <1>7, <1>8, <1>9, <1>10 DEF Next

\* While leases outlive requests, running requests hold the lease, and reports and
\* answers are covered by lease or record: the inductive invariant.
THEOREM InvAlways == MaxRun < Lease /\ Spec => []Inv
<1> SUFFICES ASSUME MaxRun < Lease PROVE Spec => []Inv
  OBVIOUS
<1>1. Init => LeaseHeld /\ Covered
  BY DEF Init, LeaseHeld, Covered, Running, Ended, NoRow
<1>2. Inv /\ [Next]_vars => (LeaseHeld /\ Covered)'
  BY LeaseHeldStep, CoveredStep DEF Inv
<1>3. Spec => []TypeOK
  BY TypeOKAlways
<1> QED
  BY <1>1, <1>2, <1>3, PTL DEF Spec, Inv

\* No two requests execute the operation at the same time.
THEOREM OneExecutorPerKeyAlways == MaxRun < Lease /\ Spec => []OneExecutorPerKey
<1>1. Inv => OneExecutorPerKey
  BY DEF Inv, LeaseHeld, OneExecutorPerKey, Owns
<1> QED
  BY <1>1, InvAlways, PTL

\* Before lease or record have run out no second execution comes to its end.
THEOREM NoImmediateDuplicateAlways == MaxRun < Lease /\ Spec => []NoImmediateDuplicate
<1>1. Inv => NoImmediateDuplicate
  BY DEF Inv, Covered, NoImmediateDuplicate
<1> QED
  BY <1>1, InvAlways, PTL

\* All answers given while the record is kept name the same execution.
THEOREM AnswersAgreeAlways == MaxRun < Lease /\ Spec => []AnswersAgree
<1>1. Inv => AnswersAgree
  <2> SUFFICES ASSUME Inv PROVE AnswersAgree
    OBVIOUS
  <2>1. answers = {} \/ answers = {row.response}
    BY DEF Inv, Covered
  <2>2. Cardinality({}) = 0 /\ Cardinality({row.response}) = 1
    BY FS_EmptySet, FS_Singleton
  <2> QED
    BY <2>1, <2>2 DEF AnswersAgree
<1> QED
  BY <1>1, InvAlways, PTL

-----------------------------------------------------------------------------
(* Circuit and cache *)

\* An answer is passed off as live by a request that is through, from an entry that is not stale.
LiveServed == \A c \in Calls : call[c].mode = "live" => call[c].pc = "served" /\ call[c].entry.life >= Stale

\* What is on its way when a circuit is open has been on its way since before it opened.
OpenedLater == circuit.state = "open" => \A c \in InFlight : call[c].age + circuit.retry >= OpenFor

\* A half-open circuit that has not sent its probe has nobody on the way.
ProbeFirst == circuit.state = "half-open" /\ ~ circuit.probe => InFlight = {}

\* A request on its way is for a key.
KeyedOnTheWay == \A c \in InFlight : call[c].key \in CacheKeys

CircuitInv == CircuitTypeOK /\ KeyedOnTheWay /\ LiveServed /\ OpenedLater /\ ProbeFirst /\ OneProbe

-----------------------------------------------------------------------------
(* Entries and answers *)

LEMMA EntriesTyped ==
    /\ NoEntry \in Entries
    /\ \A empty \in BOOLEAN : Stored(empty) \in Entries
    /\ \A e \in Entries : Aged(e) \in Entries
    /\ \A e, f \in Entries : Later(e, f) \in Entries
<1>1. Life \in Nat /\ \A e \in Entries : e = [life |-> e.life, empty |-> e.empty]
  BY CircuitAssumption DEF CircuitAssumption, Life, Entries
<1>2. \A e \in Entries : Aged(e) \in Entries
  BY <1>1 DEF Aged, Entries, NoEntry
<1>3. \A empty \in BOOLEAN : Stored(empty) \in Entries
  BY <1>1 DEF Stored, Entries
<1>. QED  BY <1>1, <1>2, <1>3 DEF NoEntry, Entries, Later

LEMMA ReplyServes ==
    ASSUME NEW e \in Entries
    PROVE  /\ Reply(e) \in CallRows /\ Reply(e).pc = "served"
           /\ Reply(e).mode = "live" => Reply(e).entry.life >= Stale
<1>1. Reply(e) = [pc |-> "served", key |-> NoKey, forced |-> FALSE,
                  entry |-> IF ModeOf(e) = "live" THEN e ELSE NoEntry,
                  mode |-> ModeOf(e), on |-> NoCall, age |-> 0]
  BY DEF Reply, Idle
<1>2. ModeOf(e) \in {"live", "stale", "none"} /\ (ModeOf(e) = "live" => e.life >= Stale)
  BY CircuitAssumption DEF CircuitAssumption, ModeOf, IsStale, Usable, Entries, Life
<1>3. 0 \in 0..MaxCall
  BY CircuitAssumption DEF CircuitAssumption
<1>4. (IF ModeOf(e) = "live" THEN e ELSE NoEntry) \in Entries
  BY EntriesTyped
<1>. QED  BY <1>1, <1>2, <1>3, <1>4 DEF CallRows

-----------------------------------------------------------------------------
(* The circuit *)

LEMMA CircuitsTyped ==
    /\ Closed \in Circuits
    /\ \A s \in Circuits : Transition(s) \in Circuits /\ Acquired(s) \in Circuits
    /\ \A s \in Circuits, n \in Nat : Failed(s, n) \in Circuits
<1>0. \A s \in Circuits : s = [state |-> s.state, failures |-> s.failures, retry |-> s.retry, probe |-> s.probe]
  BY DEF Circuits
<1>1. \A s \in Circuits : Transition(s) \in Circuits
  BY DEF Transition, Circuits
<1>2. \A s \in Circuits : Acquired(s) \in Circuits
  BY <1>1 DEF Acquired, Forced, Circuits
<1>3. ASSUME NEW s \in Circuits, NEW n \in Nat PROVE Failed(s, n) \in Circuits
  BY CircuitAssumption DEF CircuitAssumption, Failed, Circuits
<1>4. Closed \in Circuits
  BY CircuitAssumption DEF CircuitAssumption, Closed, Circuits
<1>. QED  BY <1>1, <1>2, <1>3, <1>4

\* A failure opens a half-open circuit, or a closed one, and leaves an open one as it is or opens it anew.
LEMMA FailedOpens ==
    ASSUME NEW s \in Circuits, NEW n \in Nat
    PROVE  \/ Failed(s, n).state = "open" /\ Failed(s, n).retry = OpenFor
           \/ /\ s.state # "half-open"
              /\ Failed(s, n).state = s.state /\ Failed(s, n).retry = s.retry
BY DEF Failed, Circuits

-----------------------------------------------------------------------------
(* What a step does to the requests: one moves on towards its answer or is answered, time makes  *)
(* all that are on the way older, or a new one starts.                                            *)

MovesOn(c) ==
    /\ call'[c].pc \in Underway /\ call[c].pc \in Underway
    /\ call'[c].forced = call[c].forced /\ call'[c].age = call[c].age
    /\ call'[c].key = call[c].key /\ call'[c].mode # "live"
IsAnswered(c) ==
    /\ call'[c].pc = "served"
    /\ call'[c].mode = "live" => call'[c].entry.life >= Stale
SettlesOnly ==
    /\ call' \in [Calls -> CallRows]
    /\ \A c \in Calls : call'[c] = call[c] \/ MovesOn(c) \/ IsAnswered(c)

\* What it does to the circuit then: it leaves or closes it, opens it anew, or counts another
\* failure of one that is open.
Reports ==
    /\ circuit' \in Circuits
    /\ \/ circuit' = circuit
       \/ circuit'.state = "closed"
       \/ circuit'.state = "open" /\ circuit'.retry = OpenFor
       \/ circuit'.state = "open" /\ circuit.state = "open" /\ circuit'.retry = circuit.retry

LEMMA FailedReports == ASSUME CircuitTypeOK, NEW n \in Nat, circuit' = Failed(circuit, n) PROVE Reports
BY FailedOpens, CircuitsTyped DEF Reports, CircuitTypeOK, Circuits

LEMMA ToldReports == ASSUME CircuitTypeOK, NEW verdict, circuit' = Told(circuit, verdict) PROVE Reports
<1>1. CASE verdict = "success"
  BY <1>1, CircuitsTyped DEF Told, Closed, Reports
<1>2. CASE verdict = "failure"
  BY <1>2, FailedReports DEF Told
<1>3. CASE verdict \notin {"success", "failure"}
  BY <1>3 DEF Told, Reports, CircuitTypeOK
<1>. QED  BY <1>1, <1>2, <1>3

LEMMA GoesOn ==
    ASSUME CircuitTypeOK, NEW c \in InFlight, NEW pc \in Underway, NEW e \in Entries, NEW on \in Calls \cup {NoCall}
    PROVE  /\ Goes(c, pc, e, on) \in CallRows
           /\ Goes(c, pc, e, on).pc = pc /\ Goes(c, pc, e, on).forced = call[c].forced
           /\ Goes(c, pc, e, on).age = call[c].age /\ Goes(c, pc, e, on).key = call[c].key
           /\ Goes(c, pc, e, on).mode = "none"
<1>. call[c] \in CallRows
  BY DEF CircuitTypeOK, InFlight
<1>. QED  BY DEF Goes, CallRows

\* Whatever a step reports, what it leaves on the way stays bounded.
LEMMA SettlingKeeps ==
    ASSUME CircuitInv, SettlesOnly, Reports
    PROVE  (KeyedOnTheWay /\ LiveServed /\ OpenedLater /\ ProbeFirst /\ OneProbe)' /\ circuit' \in Circuits
<1>1. circuit' \in Circuits
  BY DEF Reports
<1>2. InFlight' \subseteq InFlight 
      /\ \A c \in InFlight' : /\ call'[c].forced = call[c].forced /\ call'[c].age = call[c].age
                               /\ call'[c].key = call[c].key
  BY DEF SettlesOnly, InFlight, MovesOn, IsAnswered, Underway
<1>3. LiveServed'
  BY DEF LiveServed, CircuitInv, SettlesOnly, MovesOn, IsAnswered
<1>4. \A c \in InFlight' : call'[c].age \in 0..MaxCall
  BY DEF InFlight, SettlesOnly, CallRows
<1>5. (OpenedLater /\ ProbeFirst /\ OneProbe)'
  <2>0. OpenedLater /\ ProbeFirst /\ OneProbe
    BY DEF CircuitInv
  <2>1. CASE circuit' = circuit
    BY <2>0, <2>1, <1>2 DEF OpenedLater, ProbeFirst, OneProbe
  <2>2. CASE circuit'.state = "closed"
    BY <2>2 DEF OpenedLater, ProbeFirst, OneProbe
  <2>3. CASE circuit'.state = "open" /\ circuit'.retry = OpenFor
    BY <2>3, <1>4, CircuitAssumption DEF CircuitAssumption, OpenedLater, ProbeFirst, OneProbe
  <2>4. CASE circuit'.state = "open" /\ circuit.state = "open" /\ circuit'.retry = circuit.retry
    BY <2>0, <2>4, <1>2 DEF OpenedLater, ProbeFirst, OneProbe
  <2>. QED  BY <2>1, <2>2, <2>3, <2>4 DEF Reports
<1>6. KeyedOnTheWay'
  BY <1>2 DEF CircuitInv, KeyedOnTheWay
<1>. QED  BY <1>1, <1>3, <1>5, <1>6

-----------------------------------------------------------------------------
(* The steps *)

\* The step of a request keeps the types of what is stored and of what is said of the provider.
StoresTyped ==
    /\ deployment' = deployment
    /\ memory' \in [CacheKeys -> Entries] /\ remote' \in [CacheKeys -> Entries]
    /\ inflight' \in [CacheKeys -> Calls \cup {NoCall}]
    /\ latest' \in {"none", "success", "failure"} /\ healthy' \in BOOLEAN

LEMMA SettlingStep == ASSUME CircuitInv, SettlesOnly, Reports, StoresTyped PROVE CircuitInv'
<1>1. CircuitTypeOK'
  BY SettlingKeeps DEF CircuitInv, CircuitTypeOK, SettlesOnly, StoresTyped
<1>. QED  BY <1>1, SettlingKeeps DEF CircuitInv

LEMMA Verdicts ==
    /\ \A e, miss : Verdict(e, miss) \in {"failure", "silent", "success"}
    /\ CircuitTypeOK => \A e, miss : Event(Verdict(e, miss)) \in {"none", "success", "failure"}
<1>1. \A e, miss : Verdict(e, miss) \in {"failure", "silent", "success"}
  BY DEF Verdict
<1>. QED  BY <1>1 DEF Event, CircuitTypeOK

\* The row of one request changes; it is answered with an entry.
LEMMA OneAnswered ==
    ASSUME CircuitTypeOK, NEW c \in Calls, NEW e \in Entries, call' = [call EXCEPT ![c] = Reply(e)]
    PROVE  SettlesOnly
BY ReplyServes DEF CircuitTypeOK, SettlesOnly, IsAnswered

LEMMA OneMovesOn ==
    ASSUME CircuitTypeOK, NEW c \in InFlight, NEW pc \in Underway, NEW e \in Entries, NEW on \in Calls \cup {NoCall},
           call' = [call EXCEPT ![c] = Goes(c, pc, e, on)]
    PROVE  SettlesOnly
<1>1. c \in Calls /\ call[c].pc \in Underway
  BY DEF InFlight
<1>2. call' \in [Calls -> CallRows]
  BY <1>1, GoesOn DEF CircuitTypeOK
<1>3. MovesOn(c)
  BY <1>1, GoesOn DEF CircuitTypeOK, MovesOn
<1>. QED  BY <1>1, <1>2, <1>3 DEF SettlesOnly, CircuitTypeOK

\* Read: whatever Upstash says, its four outcomes.
LEMMA ReadStep == ASSUME CircuitInv, NEW c \in Calls, Read(c) PROVE CircuitInv'
<1>. CircuitTypeOK /\ c \in InFlight /\ call[c] \in CallRows
  BY DEF CircuitInv, CircuitTypeOK, Read, InFlight, Underway
<1>. DEFINE k == call[c].key
<1>1. PICK e \in {NoEntry} \cup (IF deployment.shared THEN {remote[k]} ELSE {}) :
         /\ ReadHit(c, e) \/ ReadLate(c, e) \/ ReadJoins(c, e) \/ ReadLoads(c, e)
         /\ memory' = IF Usable(e) THEN [memory EXCEPT ![k] = e] ELSE memory
  BY DEF Read
<1>2. k \in CacheKeys
  BY DEF CircuitInv, KeyedOnTheWay
<1>3. e \in Entries
  BY <1>2, EntriesTyped DEF CircuitTypeOK
<1>4. memory' \in [CacheKeys -> Entries] /\ remote' = remote /\ deployment' = deployment /\ healthy' = healthy
  BY <1>1, <1>2, <1>3 DEF Read, CircuitTypeOK
<1>5. CASE ReadHit(c, e)
  <2>1. SettlesOnly
    BY <1>3, <1>5, OneAnswered DEF ReadHit
  <2>2. Reports
    BY <1>5, ToldReports DEF ReadHit
  <2>3. StoresTyped
    BY <1>4, <1>5, Verdicts DEF ReadHit, StoresTyped, CircuitTypeOK
  <2>. QED  BY <2>1, <2>2, <2>3, SettlingStep
<1>6. CASE ReadLate(c, e)
  <2>. DEFINE there == IF Usable(e) THEN e ELSE memory[k]
              value == IF Usable(there) THEN there ELSE call[inflight[k]].entry
  <2>1. inflight[k] \in Calls /\ call[inflight[k]].entry \in Entries /\ memory[k] \in Entries
    BY <1>2, <1>6 DEF ReadLate, CircuitTypeOK, CallRows
  <2>2. value \in Entries
    BY <1>3, <2>1
  <2>3. SettlesOnly
    BY <1>6, <2>2, OneAnswered DEF ReadLate
  <2>4. Reports
    BY <1>6, ToldReports DEF ReadLate
  <2>5. StoresTyped
    BY <1>4, <1>6, Verdicts DEF ReadLate, StoresTyped, CircuitTypeOK
  <2>. QED  BY <2>3, <2>4, <2>5, SettlingStep
<1>7. CASE ReadJoins(c, e)
  <2>1. SettlesOnly
    <3>1. inflight[k] \in Calls \cup {NoCall} /\ "waiting" \in Underway
      BY <1>2 DEF CircuitTypeOK, Underway
    <3>2. Later(call[c].entry, e) \in Entries
      BY <1>3, EntriesTyped DEF CallRows
    <3>. QED  BY <1>7, <3>1, <3>2, OneMovesOn DEF ReadJoins
  <2>2. Reports /\ StoresTyped
    BY <1>4, <1>7 DEF ReadJoins, Reports, StoresTyped, CircuitTypeOK
  <2>. QED  BY <2>1, <2>2, SettlingStep
<1>8. CASE ReadLoads(c, e)
  <2>1. SettlesOnly
    <3>1. "loading" \in Underway
      BY DEF Underway
    <3>2. Later(call[c].entry, e) \in Entries
      BY <1>3, EntriesTyped DEF CallRows
    <3>. QED  BY <1>8, <3>1, <3>2, OneMovesOn DEF ReadLoads
  <2>2. Reports /\ StoresTyped
    BY <1>2, <1>4, <1>8 DEF ReadLoads, Reports, StoresTyped, CircuitTypeOK
  <2>. QED  BY <2>1, <2>2, SettlingStep
<1>. QED  BY <1>1, <1>5, <1>6, <1>7, <1>8

\* A provider that answers serves whoever shares the loader.
LEMMA AnswersStep ==
    ASSUME CircuitInv, NEW c \in Calls, NEW empty \in BOOLEAN, ProviderAnswers(c, empty)
    PROVE  CircuitInv'
<1>. DEFINE e == Stored(empty)
            sharing == Sharing(c)
<1>1. CircuitTypeOK /\ c \in InFlight /\ call[c].key \in CacheKeys /\ e \in Entries
  BY EntriesTyped DEF CircuitInv, KeyedOnTheWay, ProviderAnswers, InFlight, Underway
<1>2. IsFiniteSet(sharing) /\ Cardinality(sharing) \in Nat
  BY CircuitAssumption, FS_Subset, FS_CardinalityType DEF CircuitAssumption, Sharing
<1>3. SettlesOnly
  <2>. HIDE DEF e, sharing
  <2>1. Goes(c, "writing", e, NoCall) \in CallRows /\ Reply(e) \in CallRows
    BY <1>1, GoesOn, ReplyServes DEF Underway
  <2>2. call' = [w \in Calls |-> IF w = c THEN Goes(c, "writing", e, NoCall)
                                ELSE IF w \in sharing THEN Reply(e) ELSE call[w]]
    BY DEF ProviderAnswers, e, sharing
  <2>3. call' \in [Calls -> CallRows]
    BY <1>1, <2>1, <2>2 DEF CircuitTypeOK
  <2>4. MovesOn(c)
    BY <1>1, <2>2, GoesOn DEF MovesOn, InFlight, Underway
  <2>5. \A w \in Calls : w # c => call'[w] = call[w] \/ IsAnswered(w)
    BY <1>1, <2>2, ReplyServes DEF IsAnswered
  <2>. QED  BY <2>3, <2>4, <2>5 DEF SettlesOnly
<1>4. Reports
  <2>1. CASE circuit' = circuit
    BY <1>1, <2>1 DEF Reports, CircuitTypeOK
  <2>2. CASE circuit' = Failed(circuit, Cardinality(sharing))
    BY <1>1, <1>2, <2>2, FailedReports
  <2>. QED  BY <2>1, <2>2 DEF ProviderAnswers
<1>5. StoresTyped
  BY <1>1, Verdicts DEF ProviderAnswers, StoresTyped, CircuitTypeOK
<1>. QED  BY <1>3, <1>4, <1>5, SettlingStep

\* One that fails leaves each of them to what it kept.
LEMMA FailsStep == ASSUME CircuitInv, NEW c \in Calls, ProviderFails(c) PROVE CircuitInv'
<1>. DEFINE group == {c} \cup Sharing(c)
            failing == {w \in group : Verdict(call[w].entry, FALSE) = "failure"}
<1>1. CircuitTypeOK /\ c \in InFlight /\ call[c].key \in CacheKeys /\ group \subseteq Calls
  BY DEF CircuitInv, KeyedOnTheWay, ProviderFails, InFlight, Underway, Sharing
<1>2. IsFiniteSet(failing) /\ Cardinality(failing) \in Nat
  BY <1>1, CircuitAssumption, FS_Subset, FS_CardinalityType DEF CircuitAssumption
<1>3. SettlesOnly
  <2>1. call' = [w \in Calls |-> IF w \in group THEN Reply(call[w].entry) ELSE call[w]]
    BY DEF ProviderFails
  <2>2. \A w \in Calls : call[w] \in CallRows /\ call[w].entry \in Entries
    BY <1>1 DEF CircuitTypeOK, CallRows
  <2>. HIDE DEF group
  <2>. QED  BY <2>1, <2>2, ReplyServes DEF SettlesOnly, IsAnswered
<1>4. Reports
  <2>1. CASE circuit' = circuit
    BY <1>1, <2>1 DEF Reports, CircuitTypeOK
  <2>2. CASE circuit' = Failed(circuit, Cardinality(failing))
    BY <1>1, <1>2, <2>2, FailedReports
  <2>. QED  BY <2>1, <2>2 DEF ProviderFails
<1>5. StoresTyped
  BY <1>1 DEF ProviderFails, StoresTyped, CircuitTypeOK
<1>. QED  BY <1>3, <1>4, <1>5, SettlingStep

LEMMA WriteStep == ASSUME CircuitInv, NEW c \in Calls, Write(c) PROVE CircuitInv'
<1>1. CircuitTypeOK /\ c \in InFlight /\ call[c].key \in CacheKeys /\ call[c].entry \in Entries
  BY DEF CircuitInv, CircuitTypeOK, CallRows, KeyedOnTheWay, Write, InFlight, Underway
<1>2. SettlesOnly
  BY <1>1, OneAnswered DEF Write
<1>3. Reports
  BY <1>1, ToldReports DEF Write
<1>4. StoresTyped
  BY <1>1, Verdicts DEF Write, StoresTyped, CircuitTypeOK
<1>. QED  BY <1>2, <1>3, <1>4, SettlingStep

\* When the time of an open circuit is up, every call of before has ended: so is it when the
\* circuit is half-open and its probe is still to be sent.
LEMMA NobodyWhenForced == ASSUME CircuitInv, Forced(circuit), Admits(circuit) PROVE InFlight = {}
<1>1. CASE circuit.state = "open" /\ circuit.retry = 0
  <2>1. \A c \in InFlight : call[c].age \in 0..MaxCall /\ call[c].age + circuit.retry >= OpenFor
    BY <1>1 DEF CircuitInv, CircuitTypeOK, CallRows, OpenedLater, InFlight
  <2>. QED  BY <1>1, <2>1, CircuitAssumption DEF CircuitAssumption
<1>2. CASE circuit.state = "half-open" /\ ~ circuit.probe
  BY <1>2 DEF CircuitInv, ProbeFirst
<1>. QED  BY <1>1, <1>2 DEF Forced, Admits, Transition

LEMMA NobodyAfterOpening == ASSUME CircuitInv, Transition(circuit) # circuit PROVE InFlight = {}
<1>1. circuit.state = "open" /\ circuit.retry = 0
  BY DEF Transition
<1>. QED  BY <1>1, NobodyWhenForced DEF Forced, Admits, Transition

\* Reading the circuit moves it on.
LEMMA TransitionStep ==
    ASSUME CircuitInv, circuit' = Transition(circuit), call' = call, StoresTyped
    PROVE  CircuitInv'
<1>1. CASE circuit' = circuit
  BY <1>1, SettlingStep DEF SettlesOnly, Reports, CircuitInv, CircuitTypeOK
<1>2. CASE circuit' # circuit
  <2>1. InFlight' = {}
    BY <1>2, NobodyAfterOpening DEF InFlight
  <2>2. CircuitTypeOK'
    BY CircuitsTyped DEF CircuitInv, CircuitTypeOK, StoresTyped
  <2>3. LiveServed'
    BY DEF CircuitInv, LiveServed
  <2>. QED  BY <2>1, <2>2, <2>3 DEF CircuitInv, KeyedOnTheWay, OpenedLater, ProbeFirst, OneProbe
<1>. QED  BY <1>1, <1>2

LEMMA RefuseStep == ASSUME CircuitInv, NEW c \in Calls, NEW k, Refuse(c, k) PROVE CircuitInv'
<1>1. CircuitTypeOK /\ circuit \in Circuits
  BY DEF CircuitInv, CircuitTypeOK
<1>2. circuit' = circuit
  BY <1>1 DEF Refuse, Admits, Transition, Circuits
<1>3. SettlesOnly
  BY <1>1, EntriesTyped, OneAnswered DEF Refuse
<1>. QED  BY <1>1, <1>2, <1>3, SettlingStep DEF Refuse, Reports, StoresTyped, CircuitTypeOK

LEMMA HitStep == ASSUME CircuitInv, NEW c \in Calls, NEW k \in CacheKeys, Hit(c, k) PROVE CircuitInv'
<1>1. CircuitTypeOK /\ circuit \in Circuits /\ memory[k] \in Entries
  BY DEF CircuitInv, CircuitTypeOK
<1>2. SettlesOnly
  BY <1>1, OneAnswered DEF Hit
<1>3. Acquired(circuit) \in Circuits /\ Acquired(circuit).state = "closed"
  BY <1>1, CircuitsTyped DEF Hit, Admits, Forced, Acquired, Transition, Circuits
<1>4. Reports
  <2>1. circuit' = Acquired(circuit) \/ circuit' = Closed \/ circuit' = Failed(Acquired(circuit), 1)
    BY DEF Hit, Told
  <2>2. Closed \in Circuits /\ Failed(Acquired(circuit), 1) \in Circuits
    BY <1>3, CircuitsTyped
  <2>3. circuit' \in Circuits
    BY <1>3, <2>1, <2>2
  <2>4. circuit'.state = "closed" \/ (circuit'.state = "open" /\ circuit'.retry = OpenFor)
    BY <1>3, <2>1, FailedOpens DEF Closed
  <2>. QED  BY <2>3, <2>4 DEF Reports
<1>5. StoresTyped
  BY <1>1, Verdicts DEF Hit, StoresTyped, CircuitTypeOK
<1>. QED  BY <1>2, <1>4, <1>5, SettlingStep

\* A request that asks is the only one on its way when the circuit wants a probe.
LEMMA AskStep == ASSUME CircuitInv, NEW c \in Calls, NEW k \in CacheKeys, Ask(c, k) PROVE CircuitInv'
<1>. DEFINE begun == Begun(k, Forced(circuit), memory[k])
<1>1. CircuitTypeOK /\ circuit \in Circuits /\ memory[k] \in Entries
  BY DEF CircuitInv, CircuitTypeOK
<1>2. begun \in CallRows /\ begun.pc = "reading" /\ begun.key = k /\ begun.mode = "none" /\ begun.forced = Forced(circuit)
  BY <1>1, CircuitAssumption DEF CircuitAssumption, Begun, CallRows, Underway, Forced
<1>3. call' = [call EXCEPT ![c] = begun] /\ circuit' = Acquired(circuit) /\ Admits(circuit)
  BY DEF Ask
<1>. HIDE DEF begun
<1>4. call' \in [Calls -> CallRows] /\ call'[c] = begun /\ \A d \in Calls : d # c => call'[d] = call[d]
  BY <1>1, <1>2, <1>3 DEF CircuitTypeOK
<1>5. CircuitTypeOK'
  BY <1>1, <1>3, <1>4, CircuitsTyped DEF CircuitTypeOK, Ask
<1>6. InFlight' \subseteq InFlight \cup {c} /\ c \in InFlight'
  BY <1>2, <1>4 DEF InFlight, Underway
<1>7. LiveServed' /\ KeyedOnTheWay'
  BY <1>2, <1>4, <1>6 DEF LiveServed, KeyedOnTheWay, CircuitInv, InFlight
<1>8. CASE Forced(circuit)
  <2>1. circuit'.state = "half-open" /\ circuit'.probe
    BY <1>1, <1>3, <1>8 DEF Acquired, Forced, Transition, Circuits
  <2>2. InFlight' = {c}
    BY <1>3, <1>6, <1>8, NobodyWhenForced
  <2>. QED  BY <1>2, <1>4, <1>5, <1>7, <1>8, <2>1, <2>2 DEF CircuitInv, OpenedLater, ProbeFirst, OneProbe
<1>9. CASE ~ Forced(circuit)
  <2>1. circuit'.state = "closed"
    BY <1>1, <1>3, <1>9 DEF Acquired, Admits, Forced, Transition, Circuits
  <2>. QED  BY <1>5, <1>7, <2>1 DEF CircuitInv, OpenedLater, ProbeFirst, OneProbe
<1>. QED  BY <1>8, <1>9

\* Every call on its way grows older by as much as the retry time of the circuit shrinks.
LEMMA TimeStep == ASSUME CircuitInv, TimePasses PROVE CircuitInv'
<1>1. CircuitTypeOK /\ circuit \in Circuits /\ \A c \in Calls : call[c] \in CallRows
  BY DEF CircuitInv, CircuitTypeOK
<1>. DEFINE Older(c) == [Goes(c, call[c].pc, Aged(call[c].entry), call[c].on) EXCEPT !.age = @ + 1]
<1>2. \A c \in InFlight : /\ Older(c) \in CallRows
                           /\ Older(c).pc = call[c].pc /\ Older(c).key = call[c].key
                           /\ Older(c).forced = call[c].forced /\ Older(c).mode = "none"
                           /\ Older(c).age = call[c].age + 1
  <2>. SUFFICES ASSUME NEW c \in InFlight
                PROVE  /\ Older(c) \in CallRows
                       /\ Older(c).pc = call[c].pc /\ Older(c).key = call[c].key
                       /\ Older(c).forced = call[c].forced /\ Older(c).mode = "none"
                       /\ Older(c).age = call[c].age + 1
    OBVIOUS
  <2>. DEFINE g == Goes(c, call[c].pc, Aged(call[c].entry), call[c].on)
  <2>1. call[c].age \in 0..MaxCall /\ call[c].age < MaxCall /\ call[c].pc \in Underway
        /\ call[c].on \in Calls \cup {NoCall} /\ call[c].entry \in Entries /\ call[c].key \in CacheKeys
        /\ call[c].forced \in BOOLEAN
    BY <1>1 DEF TimePasses, InFlight, CallRows, CircuitInv, KeyedOnTheWay
  <2>2. Aged(call[c].entry) \in Entries
    BY <2>1, EntriesTyped
  <2>3. g \in CallRows /\ g.pc = call[c].pc /\ g.key = call[c].key /\ g.forced = call[c].forced
        /\ g.mode = "none" /\ g.age = call[c].age
    BY <1>1, <2>1, <2>2, GoesOn
  <2>4. Older(c) = [g EXCEPT !.age = @ + 1]
    OBVIOUS
  <2>. HIDE DEF g, Older
  <2>5. g.age + 1 \in 0..MaxCall
    BY <2>1, <2>3, CircuitAssumption DEF CircuitAssumption
  <2>. QED  BY <2>3, <2>4, <2>5 DEF CallRows
<1>3. call' = [c \in Calls |-> IF c \in InFlight THEN Older(c) ELSE call[c]]
  BY DEF TimePasses
<1>. HIDE DEF Older
<1>4. InFlight' = InFlight /\ call' \in [Calls -> CallRows]
  BY <1>1, <1>2, <1>3 DEF InFlight
<1>5. circuit' \in Circuits /\ circuit'.state = circuit.state /\ circuit'.probe = circuit.probe
      /\ circuit'.retry = IF circuit.retry = 0 THEN 0 ELSE circuit.retry - 1
  BY <1>1, CircuitAssumption DEF CircuitAssumption, TimePasses, Circuits
<1>6. memory' \in [CacheKeys -> Entries] /\ remote' \in [CacheKeys -> Entries]
  BY <1>1, EntriesTyped DEF TimePasses, CircuitTypeOK
<1>7. CircuitTypeOK'
  BY <1>1, <1>4, <1>5, <1>6 DEF CircuitTypeOK, TimePasses
<1>8. LiveServed' /\ KeyedOnTheWay'
  BY <1>2, <1>3, <1>4 DEF LiveServed, KeyedOnTheWay, CircuitInv, InFlight
<1>9. OpenedLater'
  <2>. SUFFICES ASSUME circuit'.state = "open", NEW c \in InFlight'
                PROVE  call'[c].age + circuit'.retry >= OpenFor
    BY DEF OpenedLater
  <2>1. c \in InFlight /\ c \in Calls /\ call'[c].age = call[c].age + 1 /\ call[c].age \in Nat
    BY <1>1, <1>2, <1>3, <1>4 DEF InFlight, CallRows
  <2>2. call[c].age + circuit.retry >= OpenFor
    BY <1>5, <2>1 DEF CircuitInv, OpenedLater
  <2>3. circuit.retry \in Nat /\ OpenFor \in Nat
    BY <1>1, CircuitAssumption DEF CircuitAssumption, Circuits
  <2>. QED  BY <1>5, <2>1, <2>2, <2>3
<1>10. ProbeFirst' /\ OneProbe'
  BY <1>2, <1>3, <1>4, <1>5 DEF ProbeFirst, OneProbe, CircuitInv, InFlight
<1>. QED  BY <1>7, <1>8, <1>9, <1>10 DEF CircuitInv

-----------------------------------------------------------------------------

LEMMA CircuitStart == CircuitInit => CircuitInv
<1>. SUFFICES ASSUME CircuitInit PROVE CircuitInv
  OBVIOUS
<1>1. Idle \in CallRows /\ Idle.pc = "idle" /\ Idle.mode = "none"
  BY EntriesTyped, CircuitAssumption DEF CircuitAssumption, CallRows, Idle
<1>2. CircuitTypeOK
  BY <1>1, CircuitsTyped, EntriesTyped DEF CircuitInit, CircuitTypeOK
<1>3. InFlight = {}
  BY <1>1 DEF CircuitInit, InFlight, Underway
<1>. QED  BY <1>1, <1>2, <1>3 DEF CircuitInit, CircuitInv, KeyedOnTheWay, LiveServed, OpenedLater, ProbeFirst, OneProbe

LEMMA RestartStep == ASSUME CircuitInv, Restart PROVE CircuitInv'
<1>1. Idle \in CallRows /\ Idle.pc = "idle" /\ Idle.mode = "none"
  BY EntriesTyped, CircuitAssumption DEF CircuitAssumption, CallRows, Idle
<1>2. CircuitTypeOK'
  BY <1>1, CircuitsTyped, EntriesTyped DEF CircuitInv, Restart, CircuitTypeOK
<1>3. InFlight' = {}
  BY <1>1 DEF Restart, InFlight, Underway
<1>. QED  BY <1>1, <1>2, <1>3 DEF Restart, CircuitInv, KeyedOnTheWay, LiveServed, OpenedLater, ProbeFirst, OneProbe

LEMMA CircuitStep == CircuitInv /\ [CircuitNext]_circuitVars => CircuitInv'
<1>. SUFFICES ASSUME CircuitInv, [CircuitNext]_circuitVars PROVE CircuitInv'
  OBVIOUS
<1>0. CircuitTypeOK /\ circuit \in Circuits
  BY DEF CircuitInv, CircuitTypeOK
<1>1. CASE UNCHANGED circuitVars
  BY <1>0, <1>1, SettlingStep DEF circuitVars, SettlesOnly, Reports, StoresTyped, CircuitTypeOK
<1>2. ASSUME NEW c \in Calls, NEW k \in deployment.keys, Request(c, k) PROVE CircuitInv'
  <2>1. k \in CacheKeys
    BY <1>0, CircuitAssumption DEF CircuitAssumption, CircuitTypeOK, CacheKeys
  <2>. QED  BY <1>2, <2>1, RefuseStep, HitStep, AskStep DEF Request
<1>3. ASSUME NEW c \in Calls, Answer(c) PROVE CircuitInv'
  BY <1>3, ReadStep, AnswersStep, FailsStep, WriteStep DEF Answer
<1>4. CASE ResetCircuit
  BY <1>0, <1>4, CircuitsTyped, SettlingStep DEF ResetCircuit, Closed, SettlesOnly, Reports, StoresTyped, CircuitTypeOK
<1>5. CASE ReadStatus
  BY <1>0, <1>5, TransitionStep DEF ReadStatus, StoresTyped, CircuitTypeOK
<1>6. CASE ForgetEvents
  BY <1>0, <1>6, SettlingStep DEF ForgetEvents, SettlesOnly, Reports, StoresTyped, CircuitTypeOK
<1>7. CASE Restart
  BY <1>7, RestartStep
<1>8. CASE HealthChanges
  BY <1>0, <1>8, SettlingStep DEF HealthChanges, SettlesOnly, Reports, StoresTyped, CircuitTypeOK
<1>9. CASE TimePasses
  BY <1>9, TimeStep
<1>10. ASSUME NEW k \in deployment.keys, PeerStores(k) PROVE CircuitInv'
  <2>1. remote' \in [CacheKeys -> Entries]
    BY <1>0, <1>10, EntriesTyped DEF PeerStores, CircuitTypeOK
  <2>. QED  BY <1>0, <1>10, <2>1, SettlingStep DEF PeerStores, SettlesOnly, Reports, StoresTyped, CircuitTypeOK
<1>. QED  BY <1>1, <1>2, <1>3, <1>4, <1>5, <1>6, <1>7, <1>8, <1>9, <1>10 DEF CircuitNext

-----------------------------------------------------------------------------

\* The breaker, the cache and the requests keep their shape: failures never pass the threshold
\* and no call the longest a call may last (CircuitBreaker, MemoryCache and the requests of one instance).
THEOREM CircuitTypeOKAlways == CircuitSpec => []CircuitTypeOK
<1>1. CircuitInv => CircuitTypeOK
  BY DEF CircuitInv
<1>. QED  BY <1>1, CircuitStart, CircuitStep, PTL DEF CircuitSpec

\* CircuitIsSound: nothing is passed off as live after its cache time, whichever way it took, and
\* a half-open circuit has its one probe on the way and no other call (provider-runner.ts,
\* circuit-breaker.ts).
THEOREM CircuitIsSoundAlways == CircuitSpec => []CircuitIsSound
<1>1. CircuitInv => CircuitIsSound
  <2>. SUFFICES ASSUME CircuitInv PROVE LiveIsFresh /\ OneProbe
    BY DEF CircuitIsSound
  <2>1. \A c \in Calls : call[c].entry.life \in Nat
    BY CircuitAssumption DEF CircuitAssumption, CircuitInv, CircuitTypeOK, CallRows, Entries, Life
  <2>. QED  BY <2>1, CircuitAssumption DEF CircuitAssumption, CircuitInv, LiveServed, LiveIsFresh, Life
<1>. QED  BY <1>1, CircuitStart, CircuitStep, PTL DEF CircuitSpec
==============================================================================
