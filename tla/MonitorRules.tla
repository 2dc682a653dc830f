---------------------------- MODULE MonitorRules ----------------------------
(***************************************************************************)
(* The monitor rules of one user and the monitor runs of the daily         *)
(* maintenance, which may overlap.  A run claims due rules under a lease,  *)
(* judges them portfolio by portfolio, appends a breach for every rule     *)
(* that goes from armed to latched, and sends all breaches of its digest   *)
(* in one message.  Between any two of its calls a rule may be edited,     *)
(* another run may act, a call may fail or the function may be killed.     *)
(***************************************************************************)
EXTENDS Integers, Sequences, FiniteSets, SequencesExt

CONSTANTS
  Rules,        \* rules that may ever be created
  PortfolioOf,  \* Rules -> portfolio
  RuleLimit,    \* MONITOR_RULE_LIMIT
  Runners,        \* overlapping monitor runs
  MaxVersion,   \* bound: versions of one rule
  MaxBreaches,  \* bound: breaches of one rule
  MaxDigests    \* bound: digests

ASSUME MonitorAssumption ==
  /\ RuleLimit \in Nat \ {0} /\ MaxVersion \in Nat \ {0}
  /\ MaxBreaches \in Nat /\ MaxDigests \in Nat

VARIABLES
  rules,     \* monitor_rules: Rules -> [status, version, state, leased]
  waiting,   \* the rules whose next_evaluation_at has come, in its order
  breaches,  \* monitor_breaches: [rule, version, n, digest], n-th of its rule
  digests,   \* monitor_digests: [status, payload, shared]
  mruns,     \* Runners -> what the run is doing, or IdleRun
  notified,  \* history: breached, and since then neither seen clear nor edited
  hit        \* history: rules an edit, a lost answer or a crash met half way

monitorVars == <<rules, waiting, breaches, digests, mruns, notified, hit>>

NoItem == [rule |-> 0, version |-> 0, state |-> "armed"]

IdleRun == [phase |-> "idle", todo |-> {}, observed |-> FALSE, item |-> NoItem,
         outcome |-> "none", appended |-> FALSE, digest |-> 0, list |-> {}]

Exists(r) == rules[r].status \in {"enabled", "disabled"}

InHand(p) == mruns[p].todo \cup ({mruns[p].item} \ {NoItem})

HeldBy(p, r) == \E item \in InHand(p) : item.rule = r

Held(r) == \E p \in Runners : HeldBy(p, r)

-----------------------------------------------------------------------------
(* Their owner.                                                             *)

Saved(r, enabled) ==
  [status |-> IF enabled THEN "enabled" ELSE "disabled",
   version |-> rules[r].version + 1, state |-> "armed", leased |-> rules[r].leased]

KeepsItsPlace(r) ==  \* mutant of Requeued: what was not decided stays first
  IF Contains(waiting, r) THEN waiting ELSE Append(waiting, r)

WaitsAgain(r) == Append(waiting, r)  \* mutant of Requeued: its old place is kept, too

\* next_evaluation_at is set to the present.
Requeued(r) == Append(Remove(waiting, r), r)

\* upsert_monitor_rule.  The lease of a run that judges the old version stays.
Save(r) ==
  /\ rules[r].status # "deleted" /\ rules[r].version < MaxVersion
  /\ \E enabled \in BOOLEAN : rules' = [rules EXCEPT ![r] = Saved(r, enabled)]
  /\ waiting' = Requeued(r)
  /\ notified' = [notified EXCEPT ![r] = FALSE]
  /\ hit' = IF Held(r) THEN hit \cup {r} ELSE hit \ {r}
  /\ UNCHANGED <<breaches, digests, mruns>>

\* delete_monitor_rule, with its breaches.
DeleteRule(r) ==
  /\ Exists(r)
  /\ rules' = [rules EXCEPT ![r] = [status |-> "deleted", version |-> 0,
                                    state |-> "armed", leased |-> FALSE]]
  /\ waiting' = Remove(waiting, r)
  /\ breaches' = {b \in breaches : b.rule # r}
  /\ UNCHANGED <<digests, mruns, notified, hit>>

\* The interval of the rule has passed.
IntervalPasses(r) ==
  /\ Exists(r) /\ ~Contains(waiting, r)
  /\ waiting' = Append(waiting, r)
  /\ UNCHANGED <<rules, breaches, digests, mruns, notified, hit>>

\* Leases last ten minutes, a function sixty seconds.
LeaseExpires(r) ==
  /\ rules[r].leased /\ ~Held(r)
  /\ rules' = [rules EXCEPT ![r].leased = FALSE]
  /\ UNCHANGED <<waiting, breaches, digests, mruns, notified, hit>>

-----------------------------------------------------------------------------
(* A run: claim, then one portfolio after the other.                        *)

Due == {r \in Rules : rules[r].status = "enabled" /\ ~rules[r].leased}
DueAt == {n \in DOMAIN waiting : waiting[n] \in Due}

\* Of those that wait and are due, the first RuleLimit.
Batch == {r \in Due : \E n \in DueAt : waiting[n] = r /\ Cardinality({m \in DueAt : m < n}) < RuleLimit}

Claimed(r) == [rule |-> r, version |-> rules[r].version, state |-> rules[r].state]

\* claim_due_monitor_rules
ClaimRules(p) ==
  /\ mruns[p] = IdleRun /\ Batch # {}
  /\ rules' = [r \in Rules |-> IF r \in Batch THEN [rules[r] EXCEPT !.leased = TRUE] ELSE rules[r]]
  /\ mruns' = [mruns EXCEPT ![p] = [IdleRun EXCEPT !.phase = "portfolios", !.todo = {Claimed(r) : r \in Batch}]]
  /\ UNCHANGED <<waiting, breaches, digests, notified, hit>>

\* The observation of the next portfolio is built, or fails and with it all its rules.
Observe(p) ==
  /\ mruns[p].phase = "portfolios"
  /\ \E first \in mruns[p].todo, observed \in BOOLEAN :
       mruns' = [mruns EXCEPT ![p] = [@ EXCEPT
                   !.phase = "rules", !.item = first, !.observed = observed]]
  /\ UNCHANGED <<rules, waiting, breaches, digests, notified, hit>>

\* No time is left for another portfolio.
StopEarly(p) ==
  /\ mruns[p].phase = "portfolios" /\ mruns[p].todo # {}
  /\ mruns' = [mruns EXCEPT ![p].todo = {}]
  /\ UNCHANGED <<rules, waiting, breaches, digests, notified, hit>>

\* The rule in hand is done with: the next one of its portfolio, or the next portfolio.
NextRule(p) ==
  LET rest == mruns[p].todo \ {mruns[p].item}
      here == {i \in rest : PortfolioOf[i.rule] = PortfolioOf[mruns[p].item.rule]}
      next == [mruns[p] EXCEPT !.todo = rest, !.outcome = "none", !.appended = FALSE]
  IN mruns' = [mruns EXCEPT ![p] =
       IF here = {}
       THEN [next EXCEPT !.phase = "portfolios", !.item = NoItem, !.observed = FALSE]
       ELSE [next EXCEPT !.phase = "rules", !.item = CHOOSE i \in here : TRUE]]

NextBreach(r) == 1 + Cardinality({b \in breaches : b.rule = r})

shouldNotify(state, outcome) == state = "armed" /\ outcome = "breached"

nextState(state, outcome) ==
  IF outcome = "deferred" THEN state
  ELSE IF outcome = "breached" THEN "latched" ELSE "armed"

AllDigests == DOMAIN digests  \* mutant of OpenDigests: any status will do

OpenDigests == {d \in DOMAIN digests : digests[d].status = "open"}

\* Bound: a breach is observed only while there is room for its rows.
Room(p) ==
  /\ NextBreach(mruns[p].item.rule) <= MaxBreaches
  /\ mruns[p].digest # 0 \/ OpenDigests # {} \/ Len(digests) < MaxDigests

\* evaluateRule: what was observed breaches the rule or not, or is not verified.
Evaluate(p) ==
  LET item == mruns[p].item IN
  /\ mruns[p].phase = "rules"
  /\ \/ /\ mruns[p].observed
        /\ \E outcome \in {"breached", "clear", "deferred"} :
             /\ shouldNotify(item.state, outcome) => Room(p)
             /\ mruns' = [mruns EXCEPT ![p] = [@ EXCEPT !.outcome = outcome,
               !.phase = IF ~shouldNotify(item.state, outcome) THEN "record"
                         ELSE IF mruns[p].digest = 0 THEN "find" ELSE "append"]]
     \/ /\ ~mruns[p].observed
        /\ mruns' = [mruns EXCEPT ![p].phase = "error"]
  /\ UNCHANGED <<rules, waiting, breaches, digests, notified, hit>>

-----------------------------------------------------------------------------
(* A breach.                                                                *)

Adopt(p, d) ==
  mruns' = [mruns EXCEPT ![p] = [@ EXCEPT !.phase = "append", !.digest = d]]

\* open_monitor_digest selects an open digest and inserts one when it finds none.
FindDigest(p) ==
  /\ mruns[p].phase = "find"
  /\ \/ \E d \in OpenDigests :
          /\ Adopt(p, d)
          /\ digests' = IF \E q \in Runners \ {p} : mruns[q].digest = d
                        THEN [digests EXCEPT ![d].shared = TRUE] ELSE digests
     \/ /\ OpenDigests = {}
        /\ mruns' = [mruns EXCEPT ![p].phase = "insert"]
        /\ UNCHANGED digests
  /\ UNCHANGED <<rules, waiting, breaches, notified, hit>>

InsertDigest(p) ==
  /\ mruns[p].phase = "insert" /\ Len(digests) < MaxDigests
  /\ digests' = Append(digests, [status |-> "open", payload |-> {}, shared |-> FALSE])
  /\ Adopt(p, Len(digests'))
  /\ UNCHANGED <<rules, waiting, breaches, notified, hit>>

\* append_monitor_breach; its answer may be lost.
AppendBreach(p) ==
  LET item == mruns[p].item IN
  /\ mruns[p].phase = "append" /\ NextBreach(item.rule) <= MaxBreaches
  /\ Exists(item.rule)
  /\ breaches' = breaches \cup {[rule |-> item.rule, version |-> item.version,
                                 n |-> NextBreach(item.rule), digest |-> mruns[p].digest]}
  /\ notified' = [notified EXCEPT ![item.rule] = TRUE]
  /\ \/ /\ mruns' = [mruns EXCEPT ![p] = [@ EXCEPT !.phase = "record", !.appended = TRUE]]
        /\ UNCHANGED hit
     \/ /\ mruns' = [mruns EXCEPT ![p].phase = "error"]
        /\ hit' = hit \cup {item.rule}
  /\ UNCHANGED <<rules, waiting, digests>>

-----------------------------------------------------------------------------
(* What was found is recorded.                                              *)

\* record_monitor_evaluation: nothing is compared with the version that was judged.
Written(r, state, due) ==
  IF Exists(r)
  THEN /\ rules' = [rules EXCEPT ![r] = [@ EXCEPT !.state = state, !.leased = FALSE]]
       /\ waiting' = IF due THEN Requeued(r) ELSE Remove(waiting, r)
  ELSE UNCHANGED <<rules, waiting>>

\* The outcome; the answer may be lost.
Record(p) ==
  LET r == mruns[p].item.rule IN
  /\ mruns[p].phase = "record"
  /\ Written(r, nextState(mruns[p].item.state, mruns[p].outcome),
             mruns[p].outcome = "deferred")
  /\ notified' = [notified EXCEPT ![r] = @ /\ mruns[p].outcome # "clear"]
  /\ \/ NextRule(p) /\ UNCHANGED hit
     \/ /\ mruns' = [mruns EXCEPT ![p].phase = "error"]
        /\ hit' = hit \cup {r}
  /\ UNCHANGED <<breaches, digests>>

StateItHad(p) == mruns[p].item.state  \* mutant of StateAfterError

\* An appended breach must not be forgotten with the failure that followed it.
StateAfterError(p) ==
  IF mruns[p].appended THEN nextState(mruns[p].item.state, mruns[p].outcome)
                       ELSE mruns[p].item.state

RecordError(p) ==
  /\ mruns[p].phase = "error"
  /\ Written(mruns[p].item.rule, StateAfterError(p), TRUE)
  /\ NextRule(p)
  /\ UNCHANGED <<breaches, digests, notified, hit>>

\* A call fails without effect.  When recording the failure fails, too, the lease
\* has to run out.
CallFails(p) ==
  /\ \/ /\ mruns[p].phase \in {"find", "insert", "append", "record"}
        /\ mruns' = [mruns EXCEPT ![p].phase = "error"]
        /\ UNCHANGED hit
     \/ /\ mruns[p].phase = "error"
        /\ NextRule(p)
        /\ hit' = IF mruns[p].appended THEN hit \cup {mruns[p].item.rule} ELSE hit
  /\ UNCHANGED <<rules, waiting, breaches, digests, notified>>

-----------------------------------------------------------------------------
(* The digest, when all portfolios are done or time is up.                  *)

RowsOf(d) == {b \in breaches : b.digest = d}

\* The rows of the digest, those of earlier runs among them; none, no message.
ListBreaches(p) ==
  LET rows == RowsOf(mruns[p].digest) IN
  /\ mruns[p].phase = "portfolios" /\ mruns[p].todo = {}
  /\ mruns' = [mruns EXCEPT ![p] =
       IF rows = {} THEN IdleRun ELSE [@ EXCEPT !.phase = "enqueue", !.list = rows]]
  /\ UNCHANGED <<rules, waiting, breaches, digests, notified, hit>>

\* enqueue_monitor_digest_deliveries: whoever comes first dispatches it.
Enqueue(p) ==
  LET d == mruns[p].digest IN
  /\ mruns[p].phase = "enqueue"
  /\ digests' = IF digests[d].status = "open"
                THEN [digests EXCEPT ![d] = [@ EXCEPT !.status = "dispatched",
                                                      !.payload = mruns[p].list]]
                ELSE digests
  /\ mruns' = [mruns EXCEPT ![p] = IdleRun]
  /\ UNCHANGED <<rules, waiting, breaches, notified, hit>>

\* A call fails while the digest is sent, or the function is killed at any time.
KillRun(p) ==
  /\ mruns[p] # IdleRun
  /\ mruns' = [mruns EXCEPT ![p] = IdleRun]
  /\ hit' = IF mruns[p].appended THEN hit \cup {mruns[p].item.rule} ELSE hit
  /\ UNCHANGED <<rules, waiting, breaches, digests, notified>>

-----------------------------------------------------------------------------

MonitorInit ==
  /\ rules = [r \in Rules |-> [status |-> "none", version |-> 0,
                               state |-> "armed", leased |-> FALSE]]
  /\ waiting = <<>> /\ digests = <<>>
  /\ breaches = {} /\ hit = {}
  /\ mruns = [p \in Runners |-> IdleRun]
  /\ notified = [r \in Rules |-> FALSE]

OwnerActs == \E r \in Rules : Save(r) \/ DeleteRule(r)

Time == \E r \in Rules : IntervalPasses(r) \/ LeaseExpires(r)

Work(p) ==
  \/ Observe(p) \/ Evaluate(p) \/ FindDigest(p) \/ InsertDigest(p) \/ AppendBreach(p)
  \/ Record(p) \/ RecordError(p) \/ CallFails(p) \/ StopEarly(p)
  \/ ListBreaches(p) \/ Enqueue(p)

Conclude(p) == Record(p) \/ RecordError(p)

MonitorNext ==
  \/ OwnerActs \/ Time
  \/ \E p \in Runners : ClaimRules(p) \/ Work(p) \/ KillRun(p)

MonitorSpec == MonitorInit /\ [][MonitorNext]_monitorVars

\* The maintenance comes back every day, a run ends one way or the other, time passes, and
\* of infinitely many runs some get as far as recording what became of a rule: one that
\* killed each run that judges it would keep its place at the head of the queue for ever.
Taken == \E p \in Runners : ClaimRules(p)
Recorded == \E p \in Runners : Conclude(p)
WeakFairness ==
  /\ \A p \in Runners : WF_monitorVars(ClaimRules(p)) /\ WF_monitorVars(Work(p))
  /\ \A r \in Rules : WF_monitorVars(IntervalPasses(r)) /\ WF_monitorVars(LeaseExpires(r))
MonitorFairness == WeakFairness /\ ([]<><<Taken>>_monitorVars => []<><<Recorded>>_monitorVars)

MonitorFairSpec == MonitorSpec /\ MonitorFairness

-----------------------------------------------------------------------------

Items == [rule : Rules, version : 1..MaxVersion, state : {"armed", "latched"}]

Phases == {"idle", "portfolios", "rules", "find", "insert", "append", "record",
           "error", "enqueue"}

Rows == [rule : Rules, version : 1..MaxVersion, n : 1..MaxBreaches,
         digest : 1..MaxDigests]

\* Rows have their shape, no rule waits twice, and only rules that exist wait.
MonitorTypeOK ==
  /\ rules \in [Rules -> [status : {"none", "enabled", "disabled", "deleted"},
                          version : 0..MaxVersion, state : {"armed", "latched"},
                          leased : BOOLEAN]]
  /\ IsInjective(waiting) /\ \A r \in ToSet(waiting) : r \in Rules /\ Exists(r)
  /\ breaches \subseteq Rows
  /\ \A d \in DOMAIN digests :
       digests[d] \in [status : {"open", "dispatched"}, payload : SUBSET Rows,
                       shared : BOOLEAN]
  /\ \A p \in Runners : mruns[p].phase \in Phases /\ InHand(p) \subseteq Items
  /\ notified \in [Rules -> BOOLEAN] /\ hit \subseteq Rules

\* A latched rule has sent its notice, and a rule whose notice stands is latched: it
\* neither notifies twice for one excursion nor is silenced without a notice.  What
\* overlapping runs, failed calls and expired leases do cannot break this; an edit of
\* a rule in the hands of a run, a lost answer and a crash after the append can.
LatchTellsNotice ==
  \A r \in Rules :
    Exists(r) /\ r \notin hit
    /\ (\A p \in Runners : mruns[p].item.rule = r => ~mruns[p].appended)
    => (rules[r].state = "latched" <=> notified[r])

\* A dispatched digest carries every breach attached to it, those of earlier runs
\* whose message failed included, unless two runs were writing to it.
DigestsCarryTheirBreaches ==
  \A d \in DOMAIN digests :
    digests[d].status = "dispatched" /\ ~digests[d].shared
    => RowsOf(d) \subseteq digests[d].payload

\* An enabled rule is taken up again and again, however many rules cannot be decided.
Attended(r) == rules[r].status = "enabled" => Held(r)
EveryRuleIsEvaluated == \A r \in Rules : []<>Attended(r)

-----------------------------------------------------------------------------
(* What the documents say and the code does not keep.                       *)

\* CONTRACT.md:346: "an edited threshold can never be silently suppressed by a latch
\* left over from the previous threshold".
LatchIsOfThisVersion ==
  \A r \in Rules :
    rules[r].state = "latched"
    => \E b \in breaches : b.rule = r /\ b.version = rules[r].version
=============================================================================
