--------------------------- MODULE ProviderCircuit ---------------------------
(***************************************************************************)
(* One market-data provider as one server instance sees it: its circuit     *)
(* breaker (server/resilience/circuit-breaker.ts), the cache of its answers *)
(* with requests in flight that are shared and values kept for failures     *)
(* (server/cache.ts), and the two callers that drive both: the runner of     *)
(* quotes (server/market/provider-runner.ts) and the history of the same     *)
(* provider (getMarketHistory in server/market/service.ts).                  *)
(*                                                                         *)
(* Every time is what is left of it: an entry has a life, an open circuit a  *)
(* retry time, a call an age.  So clocks never overflow and the model runs   *)
(* for ever, which its liveness property needs.                              *)
(***************************************************************************)
EXTENDS Naturals, FiniteSets

CONSTANTS
    NoCall, NoKey,
    Calls,      \* requests this instance serves at a time
    Quotes,     \* cache keys of the runner, one for each set of symbols
    Histories,  \* cache keys of getMarketHistory
    Threshold,  \* PROVIDER_FAILURE_THRESHOLD
    OpenFor,    \* PROVIDER_CIRCUIT_OPEN_MS
    Fresh,      \* QUOTE_CACHE_SECONDS
    Stale,      \* STALE_IF_ERROR_SECONDS
    MaxCall,    \* the longest a call may last
    Deployments,\* the keys that are asked for, and whether an Upstash cache is configured,
                \* which other instances fill, too
    Mock        \* ALLOW_MOCK_FALLBACK

\* The configuration's numbers; a call that has begun ends before an opened circuit half-opens.
ASSUME CircuitAssumption ==
    /\ Threshold \in Nat \ {0} /\ OpenFor \in Nat /\ Fresh \in Nat \ {0} /\ Stale \in Nat /\ MaxCall \in Nat
    /\ MaxCall < OpenFor
    /\ Mock \in BOOLEAN
    /\ NoCall \notin Calls /\ NoKey \notin Quotes \cup Histories
    /\ IsFiniteSet(Calls)
    /\ \A d \in Deployments : d.keys \subseteq Quotes \cup Histories /\ d.shared \in BOOLEAN

VARIABLES
    deployment, \* one of Deployments
    circuit,    \* the CircuitBreaker of the provider
    memory,     \* entries of this instance, by key
    remote,     \* entries in Upstash, by key
    inflight,   \* the call whose loader a key's next caller shares
    call,       \* the requests
    latest,     \* the last event of the provider registry
    healthy     \* whether the provider answers at all

circuitVars == <<deployment, circuit, memory, remote, inflight, call, latest, healthy>>

-----------------------------------------------------------------------------
(* Entries.  Life counts down: an entry is fresh while more than Stale of it   *)
(* is left, and counts as stale when less is.  A history may be empty.         *)

CacheKeys == Quotes \cup Histories
Life == Fresh + Stale
NoEntry == [life |-> 0, empty |-> FALSE]
Entries == [life : 0..Life, empty : BOOLEAN]
Stored(empty) == [life |-> Life, empty |-> empty]
Usable(e) == e.life > 0
IsFresh(e) == e.life > Stale
IsStale(e) == e.life < Stale
Aged(e) == IF e.life <= 1 THEN NoEntry ELSE [e EXCEPT !.life = @ - 1]
Later(e, f) == IF ~ Usable(e) \/ f.life > e.life THEN f ELSE e

-----------------------------------------------------------------------------
(* A request waits for Upstash ("reading"), for the loader of another request   *)
(* ("waiting"), for its own loader, or for its own write.  Until it has its     *)
(* answer, entry is the value kept for a failure; afterwards it is the answer.   *)

Idle == [pc |-> "idle", key |-> NoKey, forced |-> FALSE, entry |-> NoEntry, mode |-> "none",
         on |-> NoCall, age |-> 0]
Underway == {"reading", "waiting", "loading", "writing"}
InFlight == {c \in Calls : call[c].pc \in Underway}
Sharing(c) == {w \in Calls : call[w].pc = "waiting" /\ call[w].on = c}

\* What a request answers with an entry: markStale, staleHistory or the value as it is.
\* With "none" there is no value in this cache: a history is then answered with the last known good one, which
\* has a key of its own and is marked stale, and else, like a quote, with nothing.
ModeUnmarked(e) == IF ~ Usable(e) \/ e.empty THEN "none" ELSE "live"
ModeOf(e) ==
    IF ~ Usable(e) \/ e.empty THEN "none" ELSE IF IsStale(e) THEN "stale" ELSE "live"
Reply(e) ==
    [pc |-> "served", key |-> NoKey, forced |-> FALSE,
     entry |-> IF ModeOf(e) = "live" THEN e ELSE NoEntry, mode |-> ModeOf(e), on |-> NoCall, age |-> 0]
Begun(k, forced, e) ==
    [pc |-> "reading", key |-> k, forced |-> forced, entry |-> e, mode |-> "none", on |-> NoCall, age |-> 0]
Goes(c, pc, e, on) ==
    [pc |-> pc, key |-> call[c].key, forced |-> call[c].forced, entry |-> e, mode |-> "none",
     on |-> on, age |-> call[c].age]

\* What it tells the circuit and the registry; miss says that its own loader was asked.
Verdict(e, miss) ==
    IF ~ Usable(e) THEN "failure"
    ELSE IF e.empty THEN IF Mock THEN "silent" ELSE "failure"
    ELSE IF IsStale(e) THEN "failure"
    ELSE IF miss THEN "success" ELSE "silent"

-----------------------------------------------------------------------------
(* The circuit.  Every reader of its state moves it on first.                  *)

Closed == [state |-> "closed", failures |-> 0, retry |-> 0, probe |-> FALSE]
TransitionByFailures(s) ==
    IF s.state = "open" /\ s.retry = 0 /\ s.failures < Threshold
    THEN [s EXCEPT !.state = "half-open", !.probe = FALSE] ELSE s
Transition(s) ==
    IF s.state = "open" /\ s.retry = 0
    THEN [state |-> "half-open", failures |-> s.failures, retry |-> 0, probe |-> FALSE] ELSE s
Forced(s) == Transition(s).state = "half-open"
Admits(s) == LET t == Transition(s) IN t.state = "closed" \/ (t.state = "half-open" /\ ~ t.probe)
Acquired(s) == [Transition(s) EXCEPT !.probe = Forced(s)]

\* n failures in a row.  Above the threshold their number no longer matters.
Failed(s, n) ==
    LET failures == IF s.failures + n < Threshold THEN s.failures + n ELSE Threshold
    IN  IF s.state = "half-open" \/ failures = Threshold
        THEN [state |-> "open", failures |-> failures, retry |-> OpenFor, probe |-> FALSE]
        ELSE [state |-> s.state, failures |-> failures, retry |-> s.retry, probe |-> FALSE]

Told(s, verdict) ==
    CASE verdict = "success" -> Closed
      [] verdict = "failure" -> Failed(s, 1)
      [] OTHER -> s

\* recordProviderSuccess and recordProviderFailure; a cache hit is no event.
Event(verdict) == IF verdict = "silent" THEN latest ELSE verdict

-----------------------------------------------------------------------------
CircuitInit ==
    /\ deployment \in Deployments
    /\ circuit = Closed
    /\ memory = [k \in CacheKeys |-> NoEntry]
    /\ remote = [k \in CacheKeys |-> NoEntry]
    /\ inflight = [k \in CacheKeys |-> NoCall]
    /\ call = [c \in Calls |-> Idle]
    /\ latest = "none"
    /\ healthy = TRUE

\* The circuit is open, or half-open with its probe out: no call, no verdict.
Refuse(c, k) ==
    /\ call[c].pc \notin Underway
    /\ ~ Admits(circuit)
    /\ circuit' = Transition(circuit)
    /\ call' = [call EXCEPT ![c] = Reply(NoEntry)]
    /\ UNCHANGED <<deployment, memory, remote, inflight, latest, healthy>>

\* A fresh entry of this instance answers, unless the circuit wants its probe.
Hit(c, k) ==
    /\ call[c].pc \notin Underway
    /\ Admits(circuit) /\ ~ Forced(circuit)
    /\ IsFresh(memory[k])
    /\ circuit' = Told(Acquired(circuit), Verdict(memory[k], FALSE))
    /\ latest' = Event(Verdict(memory[k], FALSE))
    /\ call' = [call EXCEPT ![c] = Reply(memory[k])]
    /\ UNCHANGED <<deployment, memory, remote, inflight, healthy>>

\* Otherwise the request goes to Upstash first, keeping what this instance has.
Ask(c, k) ==
    /\ call[c].pc \notin Underway
    /\ Admits(circuit)
    /\ Forced(circuit) \/ ~ IsFresh(memory[k])
    /\ circuit' = Acquired(circuit)
    /\ call' = [call EXCEPT ![c] = Begun(k, Forced(circuit), memory[k])]
    /\ UNCHANGED <<deployment, memory, remote, inflight, latest, healthy>>

\* Upstash answers, or fails and answers nothing.
ReadHit(c, e) ==
    /\ ~ call[c].forced /\ IsFresh(e)
    /\ circuit' = Told(circuit, Verdict(e, FALSE))
    /\ latest' = Event(Verdict(e, FALSE))
    /\ call' = [call EXCEPT ![c] = Reply(e)]
    /\ UNCHANGED inflight

\* The loader that the key's next request would share has just answered.
ReadLate(c, e) ==
    LET k == call[c].key
        there == IF Usable(e) THEN e ELSE memory[k]
        value == IF Usable(there) THEN there ELSE call[inflight[k]].entry
        verdict == Verdict(value, ~ Usable(there))
    IN  /\ ~ call[c].forced /\ ~ IsFresh(e)
        /\ inflight[k] # NoCall /\ call[inflight[k]].pc = "writing"
        /\ circuit' = Told(circuit, verdict)
        /\ latest' = Event(verdict)
        /\ call' = [call EXCEPT ![c] = Reply(value)]
        /\ UNCHANGED inflight

ReadJoins(c, e) ==
    LET k == call[c].key
    IN  /\ ~ call[c].forced /\ ~ IsFresh(e)
        /\ inflight[k] # NoCall /\ call[inflight[k]].pc = "loading"
        /\ call' = [call EXCEPT ![c] = Goes(c, "waiting", Later(call[c].entry, e), inflight[k])]
        /\ UNCHANGED <<circuit, latest, inflight>>

\* The loader is called: nothing is in flight for the key, or a probe insists on its own.
ReadLoads(c, e) ==
    LET k == call[c].key
    IN  /\ call[c].forced \/ (~ IsFresh(e) /\ inflight[k] = NoCall)
        /\ call' = [call EXCEPT ![c] = Goes(c, "loading", Later(call[c].entry, e), NoCall)]
        /\ inflight' = [inflight EXCEPT ![k] = c]
        /\ UNCHANGED <<circuit, latest>>

Read(c) ==
    /\ call[c].pc = "reading"
    /\ \E e \in {NoEntry} \cup (IF deployment.shared THEN {remote[call[c].key]} ELSE {}) :
         /\ ReadHit(c, e) \/ ReadLate(c, e) \/ ReadJoins(c, e) \/ ReadLoads(c, e)
         /\ memory' = IF Usable(e) THEN [memory EXCEPT ![call[c].key] = e] ELSE memory
    /\ UNCHANGED <<deployment, remote, healthy>>

\* The provider answers: the value is remembered, whoever shares the loader is served.
ProviderAnswers(c, empty) ==
    LET k == call[c].key
        verdict == Verdict(Stored(empty), FALSE)
        sharing == Sharing(c)
    IN  /\ healthy
        /\ call[c].pc = "loading"
        /\ empty => k \in Histories
        /\ memory' = [memory EXCEPT ![k] = Stored(empty)]
        /\ call' = [w \in Calls |-> IF w = c THEN Goes(c, "writing", Stored(empty), NoCall)
                                    ELSE IF w \in sharing THEN Reply(Stored(empty)) ELSE call[w]]
        /\ circuit' = IF sharing # {} /\ verdict = "failure"
                      THEN Failed(circuit, Cardinality(sharing)) ELSE circuit
        /\ latest' = IF sharing # {} THEN Event(verdict) ELSE latest
        /\ UNCHANGED <<deployment, remote, inflight, healthy>>

\* The provider fails: each of them falls back on what it kept, or throws.
ProviderFails(c) ==
    LET k == call[c].key
        group == {c} \cup Sharing(c)
        failing == {w \in group : Verdict(call[w].entry, FALSE) = "failure"}
    IN  /\ ~ healthy
        /\ call[c].pc = "loading"
        /\ circuit' = IF failing = {} THEN circuit ELSE Failed(circuit, Cardinality(failing))
        /\ latest' = IF failing = {} THEN latest ELSE "failure"
        /\ call' = [w \in Calls |-> IF w \in group THEN Reply(call[w].entry) ELSE call[w]]
        /\ inflight' = IF inflight[k] = c THEN [inflight EXCEPT ![k] = NoCall] ELSE inflight
        /\ UNCHANGED <<deployment, memory, remote, healthy>>

\* The write to Upstash has ended, well or not, and the owner of the loader is served.
Write(c) ==
    LET k == call[c].key
        e == call[c].entry
    IN  /\ call[c].pc = "writing"
        /\ \/ deployment.shared /\ remote' = [remote EXCEPT ![k] = e]
           \/ UNCHANGED remote
        /\ circuit' = Told(circuit, Verdict(e, TRUE))
        /\ latest' = Event(Verdict(e, TRUE))
        /\ call' = [call EXCEPT ![c] = Reply(e)]
        /\ inflight' = IF inflight[k] = c THEN [inflight EXCEPT ![k] = NoCall] ELSE inflight
        /\ UNCHANGED <<deployment, memory, healthy>>

\* An operator's reset-circuit forgets the breaker and makes a new one.
ResetCircuit ==
    /\ circuit' = Closed
    /\ UNCHANGED <<deployment, memory, remote, inflight, call, latest, healthy>>

\* A report on the providers moves an open circuit on as well.
ReadStatus ==
    /\ circuit' = Transition(circuit)
    /\ UNCHANGED <<deployment, memory, remote, inflight, call, latest, healthy>>

\* The registry forgets events after an hour.
ForgetEvents ==
    /\ latest' = "none"
    /\ UNCHANGED <<deployment, circuit, memory, remote, inflight, call, healthy>>

\* Another instance stores what the provider answered to it.
PeerStores(k) ==
    /\ deployment.shared
    /\ remote' = [remote EXCEPT ![k] = Stored(FALSE)]
    /\ UNCHANGED <<deployment, circuit, memory, inflight, call, latest, healthy>>

\* The instance ends, with every request in it, and another one starts.
Restart ==
    /\ circuit' = Closed
    /\ memory' = [k \in CacheKeys |-> NoEntry]
    /\ inflight' = [k \in CacheKeys |-> NoCall]
    /\ call' = [c \in Calls |-> Idle]
    /\ latest' = "none"
    /\ UNCHANGED <<deployment, remote, healthy>>

HealthChanges ==
    /\ healthy' = ~ healthy
    /\ UNCHANGED <<deployment, circuit, memory, remote, inflight, call, latest>>

\* Time passes.  No call outlives MaxCall, and without Upstash only the provider takes time.
TimePasses ==
    /\ \A c \in InFlight : call[c].age < MaxCall
    /\ ~ deployment.shared => \A c \in InFlight : call[c].pc \in {"waiting", "loading"}
    /\ circuit' = [circuit EXCEPT !.retry = IF @ = 0 THEN 0 ELSE @ - 1]
    /\ memory' = [k \in CacheKeys |-> Aged(memory[k])]
    /\ remote' = [k \in CacheKeys |-> Aged(remote[k])]
    /\ call' = [c \in Calls |->
                   IF c \in InFlight
                   THEN [Goes(c, call[c].pc, Aged(call[c].entry), call[c].on) EXCEPT !.age = @ + 1] ELSE call[c]]
    /\ UNCHANGED <<deployment, inflight, latest, healthy>>

Request(c, k) == Refuse(c, k) \/ Hit(c, k) \/ Ask(c, k)
Answer(c) == Read(c) \/ (\E empty \in BOOLEAN : ProviderAnswers(c, empty)) \/ ProviderFails(c) \/ Write(c)

CircuitNext ==
    \/ \E c \in Calls, k \in deployment.keys : Request(c, k)
    \/ \E c \in Calls : Answer(c)
    \/ ResetCircuit \/ ReadStatus \/ ForgetEvents \/ Restart \/ HealthChanges \/ TimePasses
    \/ \E k \in deployment.keys : PeerStores(k)

CircuitSpec == CircuitInit /\ [][CircuitNext]_circuitVars

\* Requests for quotes keep coming, calls end, and time passes.
Asked == \E c \in Calls, k \in Quotes : k \in deployment.keys /\ (Hit(c, k) \/ Ask(c, k))
CircuitWeakFairness == WF_circuitVars(ForgetEvents) /\ \A c \in Calls : WF_circuitVars(Answer(c))
CircuitFairness == CircuitWeakFairness /\ SF_circuitVars(TimePasses) /\ SF_circuitVars(Asked)

CircuitFairSpec == CircuitSpec /\ CircuitFairness

-----------------------------------------------------------------------------
(* Properties *)

Circuits == [state : {"closed", "open", "half-open"}, failures : 0..Threshold, retry : 0..OpenFor,
             probe : BOOLEAN]
CallRows == [pc : Underway \cup {"idle", "served"}, key : CacheKeys \cup {NoKey}, forced : BOOLEAN,
             entry : Entries, mode : {"live", "stale", "none"}, on : Calls \cup {NoCall}, age : 0..MaxCall]
CircuitTypeOK ==
    /\ deployment \in Deployments
    /\ circuit \in Circuits
    /\ memory \in [CacheKeys -> Entries] /\ remote \in [CacheKeys -> Entries]
    /\ inflight \in [CacheKeys -> Calls \cup {NoCall}]
    /\ call \in [Calls -> CallRows]
    /\ latest \in {"none", "success", "failure"} /\ healthy \in BOOLEAN

\* A circuit that is half-open has at most its one probe on the way to the provider,
\* however late the answers of earlier calls come (circuit-breaker.ts:44;
\* its test "admits only one half-open probe").  Calls must not outlast the time a circuit
\* stays open.
OneProbe ==
    circuit.state = "half-open" =>
        \A c, d \in InFlight : c = d /\ call[c].forced

\* Whatever way an answer took through memory, Upstash, a shared loader or the fallback for
\* failures, it is passed off as live only while the value is no older than its cache time
\* (provider-runner.ts:85, CONTRACT.md:12).
LiveIsFresh ==
    \A c \in Calls : call[c].mode = "live" => call[c].entry.life + Fresh >= Life

\* Both: no answer passes for a live one too late, and no second request goes with the probe.
CircuitIsSound == LiveIsFresh /\ OneProbe

\* A probe that was sent and is no longer on its way, but never told the circuit.
ProbeLost ==
    /\ circuit.state = "half-open" /\ circuit.probe
    /\ \A c \in InFlight : ~ call[c].forced

\* A half-open circuit waits for a probe that is on its way: its answer closes the circuit
\* or opens it again (ARCHITECTURE.md:68-69).
ProbeReturns == ~ ProbeLost

\* When the provider is well for good, the circuit is closed again and again: late failures,
\* reports, resets and refused requests do not keep it open (circuit-breaker.ts:37).
CircuitRecovers == <>[]healthy => []<>(circuit.state = "closed" \/ ProbeLost)
=============================================================================
