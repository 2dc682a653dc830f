------------------------------ MODULE OpsWatch ------------------------------
(***************************************************************************)
(* What the operators are told: health, readiness and the release gate.    *)
(* Every server instance remembers the calls of the providers it made in   *)
(* the last window and the incidents it saw; the capture job writes what   *)
(* its own instance remembers to the ledger; and a report, at any          *)
(* instance, merges what that instance remembers with what the ledger      *)
(* holds, each part read by a query of its own that may fail.  A report    *)
(* changes nothing, and is a function of the state.                        *)
(*                                                                         *)
(* Configuration and capabilities are complete and live data required, as  *)
(* in production.  Freshness samples and the alert evaluator's heartbeat   *)
(* are left out: they are judged as latencies and the capture's are.       *)
(***************************************************************************)
EXTENDS Integers, Sequences, FiniteSets, SequencesExt, TLC

CONSTANTS Instances, Providers, NoInstance,
          Configured,    \* the deployments: instance -> its configured providers
          Window,         \* WINDOW_MS, and the window of the ledger's evidence
          CaptureAge,     \* of the capture's heartbeat: 12 minutes
          Target,          \* releaseMinAvailabilityPct, in thousandths
          MaxP95,           \* releaseMaxP95LatencyMs
          Latencies,         \* of calls
          Listed,             \* incidents a report lists
          Kept,                \* MAX_INCIDENTS
          CaptureRun,               \* how long the job takes
          MaxClock, MaxEvents, MaxCaptures \* bounds; events are calls and faults

VARIABLES clock,
          configured,  \* Configured of this behaviour
          events,       \* events[i][p]: [at, success, latency], oldest first
          circuit,       \* circuit[i]: the providers whose circuit is open
          noted,          \* noted[i]: incidents, numbered as they happen
          critical,        \* the critical ones
          succeeded,        \* history: when p last answered anyone
          health,         \* the ledger: for each capture, its time and the rows of the providers
          heartbeat,          \* when the capture last ended well, 0 if never
          ledger,              \* its incidents, all unresolved
          capture,              \* the capture job
          happened, captures   \* counters of the bounds

ASSUME WatchAssumption ==
  /\ Configured \subseteq [Instances -> SUBSET Providers]
  /\ Window \in Nat /\ CaptureRun \in Nat /\ Listed \in Nat

memoryVars == <<events, circuit, noted, critical, succeeded>>
ledgerVars == <<health, heartbeat, ledger>>
boundVars == <<happened, captures>>
watchVars == <<clock, configured, memoryVars, ledgerVars, capture, boundVars>>

NoCapture == [stage |-> "idle", at |-> NoInstance, since |-> 0, todo |-> {}, notes |-> {}, statuses |-> <<>>]

(* Lists of incidents are newest first; the newest has the greatest number. *)
Newest(n, s) == {x \in s : Cardinality({y \in s : y > x}) < n}

-----------------------------------------------------------------------------
(* What an instance knows of its providers.                                *)

(* The events are in the order of their times: too old are the first ones. *)
prune(s) == SubSeq(s, 1 + Cardinality({k \in DOMAIN s : clock - s[k].at > Window}), Len(s))

Successes(s) == Len(SelectSeq(s, LAMBDA e : e.success))
percentile95(values) ==
  IF values = <<>> THEN 0
  ELSE SortSeq(values, <)[Min({Len(values), (Len(values) * 95 + 99) \div 100})]
LatenciesOf(s) == [k \in DOMAIN s |-> s[k].latency]

providerStatus(i, p) ==
  LET s == prune(events[i][p])
  IN [provider |-> p, configured |-> p \in configured[i], attempts |-> Len(s),
      latency |-> IF s = <<>> THEN 0 ELSE s[Len(s)].latency,
      status |-> CASE p \notin configured[i] -> "disabled"
                   [] p \in circuit[i] -> "down"
                   [] s = <<>> -> "degraded"
                   [] ~s[Len(s)].success \/ Successes(s) * 100 < 95 * Len(s) -> "degraded"
                   [] OTHER -> "up"]
marketProviderStatuses(i) == [p \in Providers |-> providerStatus(i, p)]

(* providerRegistrySloInput: the events of all providers.                  *)
providerRegistrySloInput(i) ==
  FoldSet(LAMBDA p, s : s \o prune(events[i][p]), <<>>, Providers)

recordProviderSuccess(i, p, latency) ==
  /\ events' = [events EXCEPT ![i][p] =
                  prune(Append(@, [at |-> clock, success |-> TRUE, latency |-> latency]))]
  /\ circuit' = [circuit EXCEPT ![i] = @ \ {p}]
  /\ succeeded' = [succeeded EXCEPT ![p] = clock]
recordProviderFailure(i, p) ==
  /\ events' = [events EXCEPT ![i][p] =
                  prune(Append(@, [at |-> clock, success |-> FALSE, latency |-> 0]))]
  /\ circuit' \in {circuit, [circuit EXCEPT ![i] = @ \cup {p}]}
  /\ UNCHANGED succeeded

recordIncident(i, isCritical) ==
  /\ noted' = [noted EXCEPT ![i] = Newest(Kept, @ \cup {happened'})]
  /\ critical' = IF isCritical THEN critical \cup {happened'} ELSE critical

(* Any request of market data at an instance asks its providers, and what  *)
(* it judges of their answers it notes.                                    *)
AskProviders(i) ==
  /\ happened < MaxEvents /\ happened' = happened + 1
  /\ \E p \in configured[i] :
       \/ \E latency \in Latencies : recordProviderSuccess(i, p, latency)
       \/ recordProviderFailure(i, p)
  /\ (\E isCritical \in BOOLEAN : recordIncident(i, isCritical)) \/ UNCHANGED <<noted, critical>>
  /\ UNCHANGED <<clock, configured, ledgerVars, capture, captures>>

(* After its time an open circuit lets a probe through: half-open.         *)
HalfOpens(i) ==
  /\ \E p \in circuit[i] : circuit' = [circuit EXCEPT ![i] = @ \ {p}]
  /\ UNCHANGED <<clock, configured, events, noted, critical, succeeded, ledgerVars,
                 capture, boundVars>>

recentIncidents(i, limit) == Newest(limit, noted[i])

-----------------------------------------------------------------------------
(* The capture job: once it has its quotes it writes observations and      *)
(* incidents at once, then the provider statuses and its heartbeat at      *)
(* once.  A write that fails ends the job; the other one is under way      *)
(* nevertheless.  Observations are left out: here they can only fail.      *)

StartCapture(i) ==
  /\ capture.stage = "idle" /\ captures < MaxCaptures
  /\ captures' = captures + 1
  /\ capture' = [NoCapture EXCEPT !.stage = "first", !.at = i, !.since = clock,
                    !.todo = {"incidents"}, !.notes = recentIncidents(i, 2 * Listed)]
  /\ UNCHANGED <<clock, configured, memoryVars, ledgerVars, happened>>
FirstWritten ==
  /\ capture.stage = "first" /\ capture.todo = {}
  /\ capture' = [capture EXCEPT !.stage = "second", !.todo = {"snapshots", "heartbeat"},
                                !.statuses = marketProviderStatuses(capture.at)]
CaptureEnds == capture.stage \in {"second", "failed"} /\ capture.todo = {} /\ capture' = NoCapture
ContinueCapture ==
  /\ FirstWritten \/ CaptureEnds
  /\ UNCHANGED <<clock, configured, memoryVars, ledgerVars, boundVars>>

insertProviderHealthSnapshots(statuses) == health' = Append(health, [at |-> clock, statuses |-> statuses])
writeHeartbeat == heartbeat' = clock
upsertIncidents(notes) == ledger' = ledger \cup notes

CaptureWrites(w) ==
  /\ w \in capture.todo
  /\ capture' = [capture EXCEPT !.todo = @ \ {w}]
  /\ IF w = "snapshots" THEN insertProviderHealthSnapshots(capture.statuses) ELSE UNCHANGED health
  /\ IF w = "heartbeat" THEN writeHeartbeat ELSE UNCHANGED heartbeat
  /\ IF w = "incidents" THEN upsertIncidents(capture.notes) ELSE UNCHANGED ledger
  /\ UNCHANGED <<clock, configured, memoryVars, boundVars>>
CaptureWriteFails(w) ==
  /\ w \in capture.todo
  /\ happened < MaxEvents /\ happened' = happened + 1
  /\ capture' = [capture EXCEPT !.todo = @ \ {w}, !.stage = "failed"]
  /\ UNCHANGED <<clock, configured, memoryVars, ledgerVars, captures>>

-----------------------------------------------------------------------------
(* Reports.                                                                *)

(* Mutant: the ledger's evidence of any age is shown.                      *)
latestOfAnyAge == IF health = <<>> THEN <<>> ELSE Last(health).statuses

(* Every capture has a row of each provider, so that the newest rows are   *)
(* those of the last capture.                                              *)
latestProviderHealthSnapshots ==
  IF health = <<>> \/ clock - Last(health).at > Window THEN <<>> ELSE Last(health).statuses

(* The runtime's evidence is as of now and never older than the ledger's.  *)
mergeProviderStatuses(runtime, persistent) ==
  [p \in Providers |->
     IF \/ ~runtime[p].configured
        \/ p \notin DOMAIN persistent
        \/ ~persistent[p].configured
        \/ runtime[p].attempts > 0
     THEN runtime[p]
     ELSE [runtime[p] EXCEPT !.status = persistent[p].status, !.attempts = persistent[p].attempts,
                             !.latency = persistent[p].latency]]
(* market_slo_evidence counts probes: a row is one, and up is a success.   *)
persistentMarketSloEvidence ==
  LET recent == SelectSeq(health, LAMBDA batch : clock - batch.at <= Window)
      Sampled(row) == row.configured /\ row.attempts > 0
      probes(batch) == SetToSeq({p \in Providers : Sampled(batch.statuses[p])})
      evidence(row) == [success |-> row.status = "up", latency |-> row.latency]
  IN FlattenSeq([k \in DOMAIN recent |->
       [n \in DOMAIN probes(recent[k]) |-> evidence(recent[k].statuses[probes(recent[k])[n]])]])
listOpenIncidents == Newest(Listed, ledger)

heartbeatCheck(beat) == beat > 0 /\ clock - beat <= CaptureAge

buildReadiness(statuses, beat) ==
  LET live == {p \in Providers : statuses[p].configured}
      up == {p \in live : statuses[p].status = "up"}
      failed == \/ ~heartbeatCheck(beat)
                \/ up = {}
                \/ Cardinality(live) = 1 /\ up # live
  IN IF failed THEN "not-ready" ELSE IF up # Providers THEN "degraded" ELSE "ready"

calculateMarketSlo(s) ==
  LET n == Len(s)
      available == IF n = 0 THEN 0 ELSE (Successes(s) * 1000) \div n
      p95 == percentile95(LatenciesOf(s))
  IN CASE n = 0 -> "no-data"
       [] n > 0 /\ (available < Target \/ p95 > MaxP95) -> "breached"
       [] OTHER -> IF available < Min({1000, Target + 5}) \/ 10 * p95 > 8 * MaxP95
                   THEN "at-risk" ELSE "healthy"

evaluateReleaseGate(readiness, slo) ==
  IF readiness = "not-ready" \/ slo \in {"breached", "no-data"} THEN "fail"
  ELSE IF readiness = "degraded" \/ slo = "at-risk" THEN "warn" ELSE "pass"

(* The newest of both lists.                                               *)
ListedIncidents(stored, notes) == Newest(Listed, stored \cup notes)
Reads(kind) == CASE kind = "health" -> {"providers"}
                 [] kind = "ready" -> {"providers", "heartbeat"}
                 [] kind = "summary" -> {"providers", "heartbeat", "slo", "incidents"}
Kinds == {"health", "ready", "summary"}

(* buildOpsSummary, buildReadinessWithPersistence and the health route at  *)
(* instance i, where the queries `lost` fail.                              *)
Report(kind, i, lost) ==
  LET read == Reads(kind) \ lost
      runtime == marketProviderStatuses(i)
      statuses == IF "providers" \in read
                  THEN mergeProviderStatuses(runtime, latestProviderHealthSnapshots) ELSE runtime
      readiness == buildReadiness(statuses, IF "heartbeat" \in read THEN heartbeat ELSE 0)
      evidence == IF "slo" \in read THEN persistentMarketSloEvidence ELSE <<>>
      slo == calculateMarketSlo(IF evidence # <<>> THEN evidence ELSE providerRegistrySloInput(i))
      listed == ListedIncidents(IF "incidents" \in read THEN listOpenIncidents ELSE {},
                                recentIncidents(i, Listed))
      live == {p \in Providers : statuses[p].configured}
      gate == evaluateReleaseGate(readiness, slo)
  IN CASE kind = "health" ->
            IF \/ \A p \in live : statuses[p].status # "up"
               \/ \E p \in live : statuses[p].status = "down"
            THEN "degraded" ELSE "up"
       [] kind = "ready" -> readiness
       [] kind = "summary" ->
            IF gate # "fail" /\ listed \cap critical # {} THEN "fail" ELSE gate

-----------------------------------------------------------------------------
WatchInit ==
  /\ clock = 1
  /\ configured \in Configured
  /\ events = [i \in Instances |-> [p \in Providers |-> <<>>]]
  /\ circuit = [i \in Instances |-> {}]
  /\ noted = [i \in Instances |-> {}] /\ critical = {}
  /\ succeeded = [p \in Providers |-> 0]
  /\ health = <<>> /\ heartbeat = 0 /\ ledger = {}
  /\ capture = NoCapture
  /\ happened = 0 /\ captures = 0

(* Time passes; functions are killed before they run for longer.           *)
WatchTick ==
  /\ clock < MaxClock /\ clock' = clock + 1
  /\ capture.stage # "idle" => clock - capture.since < CaptureRun
  /\ UNCHANGED <<configured, memoryVars, ledgerVars, capture, boundVars>>

(* An instance is gone with what it remembered and what it did.            *)
Restart(i) ==
  /\ happened < MaxEvents /\ happened' = happened + 1
  /\ events' = [events EXCEPT ![i] = [p \in Providers |-> <<>>]]
  /\ circuit' = [circuit EXCEPT ![i] = {}]
  /\ noted' = [noted EXCEPT ![i] = {}]
  /\ capture' = IF capture.at = i THEN NoCapture ELSE capture
  /\ UNCHANGED <<clock, configured, critical, succeeded, ledgerVars, captures>>

WatchNext ==
  \/ WatchTick \/ ContinueCapture
  \/ \E i \in Instances :
       AskProviders(i) \/ HalfOpens(i) \/ StartCapture(i) \/ Restart(i)
  \/ \E w \in {"incidents", "snapshots", "heartbeat"} : CaptureWrites(w) \/ CaptureWriteFails(w)

WatchSpec == WatchInit /\ [][WatchNext]_watchVars

-----------------------------------------------------------------------------
(* Properties                                                              *)

Good == [health |-> {"up"}, ready |-> {"ready", "degraded"}, summary |-> {"pass", "warn"}]

(* A good word is earned.  What is reported up, ready or fit for release   *)
(* rests on an answer of a provider that the reporting instance has        *)
(* configured, at most two windows and the time of a job ago, wherever it  *)
(* was received, whatever restarted since and whichever of the report's    *)
(* queries fail; readiness on a capture that ended lately; and the gate    *)
(* passes over no critical incident among the newest that the ledger and   *)
(* the instance hold (buildOpsSummary), if the ledger can be read.         *)
GoodWordIsEarned ==
  \A i \in Instances, kind \in Kinds : \A lost \in SUBSET Reads(kind) :
    Report(kind, i, lost) \in Good[kind] =>
      /\ \E p \in configured[i] : succeeded[p] > 0 /\ clock - succeeded[p] <= 2 * Window + CaptureRun
      /\ kind # "health" => heartbeat > 0 /\ clock - heartbeat <= CaptureAge
      /\ kind = "summary" =>
           Newest(Listed, noted[i] \cup (IF "incidents" \in lost THEN {} ELSE ledger))
             \cap critical = {}
=============================================================================
