------------------------- MODULE PlanWorkflowProofs -------------------------
(***************************************************************************)
(* What holds of the plans of a portfolio for every number of invocations, *)
(* keys, plans and edits.                                                  *)
(*                                                                         *)
(* The table of plans changes in five ways only: a plan is touched (its    *)
(* validity runs out, its notices go out), moved, dropped with its goal,   *)
(* booked, or inserted.  RunsEffect says so once and for all, and each     *)
(* property of the table is then proved against those five effects.        *)
(***************************************************************************)
EXTENDS PlanWorkflow, TLAPS

Reading  == {"policy", "targets", "portfolio", "ledger", "create"}
Deciding == {"assess", "approved", "expired", "reject", "completed"}

\* What a call carries from its earlier steps.
CallOK(c) ==
  /\ c.step \in Reading => /\ c.request.op = "generate" /\ c.kind \in Kinds
                           /\ c.request.source \in {"manual", "scheduled"}
  /\ c.step \in Deciding => c.request.run \in DOMAIN runs
  /\ c.step = "assess" => c.request.op \in {"approve", "complete"}

\* Versions only grow, so what was read later is at least as new.
ReadsInOrder(c) ==
  /\ c.step \in {"targets", "portfolio", "ledger", "create"} => c.av <= policy
  /\ c.step \in {"portfolio", "ledger", "create"} =>
       c.av <= c.targets /\ c.targets <= policy
  /\ c.step \in {"ledger", "create"} => c.pv <= portfolio.version
  /\ c.step = "create" => c.pv <= c.ledger /\ c.ledger <= portfolio.version

CallsOK == \A p \in Procs : CallOK(calls[p]) /\ ReadsInOrder(calls[p])

Typed == TypeOK /\ CallsOK

-----------------------------------------------------------------------------
(* Sequences in which one row is replaced, or to which one is added.        *)

LEMMA RowReplaced ==
  ASSUME NEW S, NEW s \in Seq(S), NEW r \in DOMAIN s, NEW x \in S
  PROVE  /\ [s EXCEPT ![r] = x] \in Seq(S)
         /\ DOMAIN [s EXCEPT ![r] = x] = DOMAIN s
         /\ Len([s EXCEPT ![r] = x]) = Len(s)
         /\ [s EXCEPT ![r] = x][r] = x
         /\ \A i \in DOMAIN s : i # r => [s EXCEPT ![r] = x][i] = s[i]
OBVIOUS

LEMMA RowAdded ==
  ASSUME NEW S, NEW s \in Seq(S), NEW x \in S
  PROVE  /\ Append(s, x) \in Seq(S)
         /\ Len(Append(s, x)) = Len(s) + 1
         /\ DOMAIN Append(s, x) = DOMAIN s \cup {Len(s) + 1}
         /\ Len(s) + 1 \notin DOMAIN s
         /\ Append(s, x)[Len(s) + 1] = x
         /\ \A i \in DOMAIN s : Append(s, x)[i] = s[i]
OBVIOUS

LEMMA TwoRowsAdded ==
  ASSUME NEW S, NEW s \in Seq(S), NEW x \in S, NEW y \in S
  PROVE  s \o <<x, y>> = Append(Append(s, x), y)
OBVIOUS

-----------------------------------------------------------------------------
(* The shape of rows, events and calls.                                     *)

LEMMA RequestFields ==
  ASSUME NEW op \in Decisions \cup {"generate", "none"}, NEW run \in Nat,
         NEW source \in {"manual", "scheduled", "none"}, NEW g \in Nat,
         NEW cycle \in Nat
  PROVE  Request(op, run, source, g, cycle) \in RequestType
BY DEF Request, RequestType

LEMMA EventFields ==
  ASSUME NEW r \in Nat, NEW name \in EventNames, NEW from \in Statuses \cup {"none"},
         NEW to \in Statuses, NEW key \in AllKeys \cup {NoKey},
         NEW request \in RequestType
  PROVE  Event(r, name, from, to, key, request) \in EventType
BY DEF Event, EventType

LEMMA NoRequestTyped == NoRequest \in RequestType
BY DEF NoRequest, Request, RequestType, Decisions

LEMMA IdleCallTyped == IdleCall \in CallType /\ IdleCall.step = "idle"
BY NoRequestTyped DEF IdleCall, CallType, Steps, Statuses

LEMMA RunMoved ==
  ASSUME runs \in Seq(RunType), NEW r \in DOMAIN runs, NEW status \in Statuses
  PROVE  /\ Moved(r, status) \in Seq(RunType)
         /\ DOMAIN Moved(r, status) = DOMAIN runs
         /\ Len(Moved(r, status)) = Len(runs)
         /\ Moved(r, status)[r] = [runs[r] EXCEPT !.status = status, !.live = FALSE]
         /\ \A i \in DOMAIN runs : i # r => Moved(r, status)[i] = runs[i]
<1> DEFINE x == [runs[r] EXCEPT !.status = status, !.live = FALSE]
<1>1. Moved(r, status) = [runs EXCEPT ![r] = x]
  BY DEF Moved
<1>2. x \in RunType
  <2>1. runs[r] \in RunType
    OBVIOUS
  <2> QED BY <2>1 DEF RunType
<1> HIDE DEF x
<1>3. /\ [runs EXCEPT ![r] = x] \in Seq(RunType)
      /\ DOMAIN [runs EXCEPT ![r] = x] = DOMAIN runs
      /\ Len([runs EXCEPT ![r] = x]) = Len(runs)
      /\ [runs EXCEPT ![r] = x][r] = x
      /\ \A i \in DOMAIN runs : i # r => [runs EXCEPT ![r] = x][i] = runs[i]
  BY <1>2, RowReplaced
<1> QED BY <1>1, <1>3 DEF x

LEMMA NewRunTyped ==
  ASSUME NEW c \in CallType, c.kind \in Kinds,
         c.request.source \in {"manual", "scheduled"},
         Notify \in BOOLEAN
  PROVE  NewRun(c) \in RunType
<1>1. c.request \in RequestType
  BY DEF CallType
<1>2. /\ c.pv \in Nat /\ c.ledger \in Nat /\ c.av \in Nat /\ c.targets \in Nat
      /\ c.gv \in Nat /\ c.request.goal \in Nat /\ c.request.cycle \in Nat
  BY <1>1 DEF CallType, RequestType
<1>3. (Notify /\ c.kind = "rebalance" /\ c.request.source = "scheduled") \in BOOLEAN
  OBVIOUS
<1> QED BY <1>2, <1>3 DEF NewRun, RunType, Statuses

-----------------------------------------------------------------------------
(* The effects a step can have.                                             *)

Touched(r) == \/ runs' = [runs EXCEPT ![r].lapsed = TRUE]
              \/ runs' = [runs EXCEPT ![r].live = FALSE]

MovedOn(r) ==
  /\ IsOpen(runs[r])
  /\ \E to \in {"approved", "rejected", "expired"} :
       /\ to = "approved" => runs[r].status = "pending"
       /\ runs' = Moved(r, to)

Dropped(r) ==
  /\ IsOpen(runs[r]) /\ runs[r].kind = "contribution"
  /\ runs' = [runs EXCEPT ![r].status = "expired"]

Booked(r) ==
  /\ Completable(runs[r])
  /\ runs' = [runs EXCEPT ![r].status = "completed", ![r].booked = portfolio.version]

Inserted ==
  \E p \in Procs : /\ calls[p].step = "create"
                   /\ NothingChanged(calls[p]) /\ InsertRun(calls[p])

RunsEffect ==
  \/ runs' = runs
  \/ \E r \in DOMAIN runs : Touched(r) \/ MovedOn(r) \/ Dropped(r) \/ Booked(r)
  \/ Inserted

\* A keyed event is recorded only under a key no event has.
Recordable(e) ==
  /\ e \in EventType /\ e.run \in DOMAIN runs'
  /\ e.key = NoKey \/ KeyedEvents(e.key) = {}

EventsEffect ==
  \/ events' = events
  \/ \E e \in EventType : Recordable(e) /\ events' = Append(events, e)
  \/ \E x, e \in EventType :
       /\ Recordable(x) /\ x.key = NoKey /\ Recordable(e)
       /\ events' = Append(Append(events, x), e)

CallsEffect ==
  \/ calls' = calls
  \/ \E p \in Procs : Finish(p)
  \/ \E p \in Procs, c \in CallType :
       /\ calls' = [calls EXCEPT ![p] = c]
       /\ CallOK(c) /\ ReadsInOrder(c) /\ UNCHANGED <<data, runs>>

DataEffect ==
  /\ portfolio' \in [active : BOOLEAN, version : Nat]
  /\ portfolio.version <= portfolio'.version
  /\ policy' \in Nat /\ policy <= policy'
  /\ goal' \in [id : Nat, status : GoalStatuses, version : Nat, next : Nat]

Effects == RunsEffect /\ EventsEffect /\ CallsEffect /\ DataEffect

LEMMA GoalRecords ==
  ASSUME goal \in [id : Nat, status : GoalStatuses, version : Nat, next : Nat],
         NEW d \in Nat, NEW status \in GoalStatuses
  PROVE  LET G == [id : Nat, status : GoalStatuses, version : Nat, next : Nat] IN
         /\ [goal EXCEPT !.version = @ + 1, !.next = d] \in G
         /\ [goal EXCEPT !.status = status, !.version = @ + 1, !.next = d] \in G
         /\ [goal EXCEPT !.next = @ + 1] \in G
         /\ [id |-> goal.id + 1, status |-> "active",
             version |-> goal.version + 1, next |-> d] \in G
<1>1. goal.id + 1 \in Nat /\ goal.version + 1 \in Nat /\ goal.next + 1 \in Nat
  OBVIOUS
<1>2. "active" \in GoalStatuses
  BY DEF GoalStatuses
<1> QED BY <1>1, <1>2

LEMMA PortfolioRecords ==
  ASSUME portfolio \in [active : BOOLEAN, version : Nat]
  PROVE  LET P == [active : BOOLEAN, version : Nat] IN
         /\ [portfolio EXCEPT !.version = @ + 1] \in P
         /\ [portfolio EXCEPT !.version = @ + 1].version = portfolio.version + 1
         /\ [active |-> ~portfolio.active, version |-> portfolio.version + 1] \in P
         /\ portfolio.version <= portfolio.version + 1
OBVIOUS

LEMMA DataKept ==
  ASSUME Typed, UNCHANGED data
  PROVE  DataEffect
BY DEF Typed, TypeOK, DataEffect, data

LEMMA GoalChanged ==
  ASSUME Typed, UNCHANGED <<portfolio, policy>>,
         goal' \in [id : Nat, status : GoalStatuses, version : Nat, next : Nat]
  PROVE  DataEffect
BY DEF Typed, TypeOK, DataEffect

LEMMA PortfolioChanged ==
  ASSUME Typed, UNCHANGED <<policy, goal>>,
         portfolio' = [portfolio EXCEPT !.version = @ + 1]
  PROVE  DataEffect
<1>1. portfolio \in [active : BOOLEAN, version : Nat]
  BY DEF Typed, TypeOK
<1>2. portfolio' \in [active : BOOLEAN, version : Nat]
      /\ portfolio.version <= portfolio'.version
  BY <1>1, PortfolioRecords
<1> QED BY <1>2 DEF Typed, TypeOK, DataEffect

LEMMA CallSet ==
  ASSUME Typed, NEW p \in Procs, NEW c \in CallType, CallOK(c), ReadsInOrder(c),
         calls' = [calls EXCEPT ![p] = c], UNCHANGED <<data, runs, events>>
  PROVE  Effects
<1>1. DataEffect
  BY DataKept
<1>2. RunsEffect /\ EventsEffect
  BY DEF RunsEffect, EventsEffect
<1>3. CallsEffect
  BY DEF CallsEffect
<1> QED BY <1>1, <1>2, <1>3 DEF Effects

LEMMA CallFields ==
  ASSUME Typed, NEW p \in Procs
  PROVE  /\ calls[p] \in CallType /\ calls[p].request \in RequestType
         /\ calls[p].key \in AllKeys \cup {NoKey}
         /\ CallOK(calls[p]) /\ ReadsInOrder(calls[p])
<1>1. calls[p] \in CallType
  BY DEF Typed, TypeOK
<1>2. calls[p].request \in RequestType /\ calls[p].key \in AllKeys \cup {NoKey}
  BY <1>1 DEF CallType
<1> QED BY <1>1, <1>2 DEF Typed, CallsOK

\* A call that starts carries nothing yet but its request.
LEMMA StartedTyped ==
  ASSUME NEW kind \in {"rebalance", "contribution"}, NEW key \in AllKeys,
         NEW request \in RequestType, NEW step \in Steps, NEW gv \in Nat,
         NEW status \in Statuses
  PROVE  /\ Started(kind, key, request, step) \in CallType
         /\ [Started(kind, key, request, step) EXCEPT !.gv = gv] \in CallType
         /\ [Started(kind, key, request, step) EXCEPT !.status = status] \in CallType
BY IdleCallTyped DEF Started, CallType

LEMMA BeginRebalanceEffect ==
  ASSUME Typed, PlanAssumption, NEW p \in Procs, BeginRebalance(p)
  PROVE  Effects
<1>1. PICK source \in {"manual", "scheduled"} :
        \E key \in IF source = "manual" THEN Keys ELSE ScanKeys :
          Begin(p, Started("rebalance", key,
                           Request("generate", 0, source, 0, 0), "policy"))
  BY DEF BeginRebalance
<1>2. PICK key \in AllKeys :
        Begin(p, Started("rebalance", key,
                         Request("generate", 0, source, 0, 0), "policy"))
  BY <1>1 DEF AllKeys
<1> DEFINE request == Request("generate", 0, source, 0, 0)
           c == Started("rebalance", key, request, "policy")
<1>3. request \in RequestType /\ request.op = "generate" /\ request.source = source
  BY RequestFields DEF Request
<1>4. c \in CallType /\ c.step = "policy" /\ c.kind = "rebalance" /\ c.request = request
  <2> HIDE DEF request
  <2>1. c \in CallType
    BY <1>3, StartedTyped DEF Steps, Statuses
  <2>2. IdleCall \in CallType
    BY IdleCallTyped
  <2> QED BY <2>1, <2>2 DEF Started, CallType
<1>5. CallOK(c) /\ ReadsInOrder(c)
  <2> HIDE DEF c, request
  <2> QED BY <1>3, <1>4 DEF CallOK, ReadsInOrder, Reading, Deciding, BeginRebalance
<1>6. calls' = [calls EXCEPT ![p] = c] /\ UNCHANGED <<data, runs, events>>
  BY <1>2 DEF Begin
<1> HIDE DEF c, request
<1> QED BY <1>4, <1>5, <1>6, CallSet

LEMMA BeginContributionEffect ==
  ASSUME Typed, PlanAssumption, NEW p \in Procs, BeginContribution(p)
  PROVE  Effects
<1> DEFINE req(source) == Request("generate", 0, source, goal.id,
                                  IF source = "scheduled" THEN goal.next ELSE 0)
           call(source, key) ==
             [Started("contribution", key, req(source), "policy")
                EXCEPT !.gv = goal.version]
<1>1. PICK source \in {"manual", "scheduled"} :
        \E key \in IF source = "manual" THEN Keys
                   ELSE {CycleKey(goal.id, goal.next)} : Begin(p, call(source, key))
  BY DEF BeginContribution
<1>2. goal.id \in Nat /\ goal.next \in Nat /\ goal.version \in Nat
  BY DEF Typed, TypeOK
<1>3. PICK key \in AllKeys : Begin(p, call(source, key))
  <2>1. CycleKey(goal.id, goal.next) \in AllKeys
    BY <1>2 DEF CycleKey, AllKeys
  <2>2. Keys \subseteq AllKeys
    BY DEF AllKeys
  <2> HIDE DEF call, req
  <2> QED BY <1>1, <2>1, <2>2
<1> DEFINE request == req(source)
           c == call(source, key)
<1>4. request \in RequestType /\ request.op = "generate" /\ request.source = source
  BY <1>2, RequestFields DEF Request
<1>5. c \in CallType /\ c.step = "policy" /\ c.kind = "contribution"
      /\ c.request = request
  <2>1. c = [Started("contribution", key, request, "policy") EXCEPT !.gv = goal.version]
    OBVIOUS
  <2> HIDE DEF request, c, req, call
  <2>2. c \in CallType
    BY <1>2, <1>4, <2>1, StartedTyped DEF Steps, Statuses
  <2>3. IdleCall \in CallType
    BY IdleCallTyped
  <2> QED BY <2>1, <2>2, <2>3 DEF Started, CallType
<1>6. CallOK(c) /\ ReadsInOrder(c)
  <2> HIDE DEF c, request, call, req
  <2> QED BY <1>4, <1>5 DEF CallOK, ReadsInOrder, Reading, Deciding, BeginContribution
<1>7. calls' = [calls EXCEPT ![p] = c] /\ UNCHANGED <<data, runs, events>>
  BY <1>3 DEF Begin
<1> HIDE DEF c, request, call, req
<1> QED BY <1>5, <1>6, <1>7, CallSet

LEMMA BeginDecisionEffect ==
  ASSUME Typed, PlanAssumption, NEW p \in Procs, BeginDecision(p)
  PROVE  Effects
<1> DEFINE call(r, op, key) ==
             [Started(runs[r].kind, key, Request(op, r, "none", 0, 0),
                      IF op = "reject" THEN "reject" ELSE "assess")
                EXCEPT !.status = runs[r].status]
<1>1. PICK r \in DOMAIN runs, op \in Decisions, key \in Keys : Begin(p, call(r, op, key))
  BY DEF BeginDecision
<1>2. runs[r] \in RunType /\ r \in Nat
  BY DEF Typed, TypeOK
<1>3. runs[r].kind \in {"rebalance", "contribution"} /\ runs[r].status \in Statuses
  BY <1>2 DEF RunType, PlanAssumption
<1> DEFINE request == Request(op, r, "none", 0, 0)
           step == IF op = "reject" THEN "reject" ELSE "assess"
           c == call(r, op, key)
<1>4. request \in RequestType /\ request.op = op /\ request.run = r
  BY <1>2, RequestFields DEF Request
<1>5. /\ step \in Steps /\ step \in Deciding /\ step \notin Reading
      /\ step = "assess" => op \in {"approve", "complete"}
  BY DEF Steps, Deciding, Reading, Decisions
<1>6. c \in CallType /\ c.step = step /\ c.request = request
  <2>1. c = [Started(runs[r].kind, key, request, step) EXCEPT !.status = runs[r].status]
    OBVIOUS
  <2>2. key \in AllKeys
    BY DEF AllKeys
  <2> HIDE DEF request, step, c, call
  <2>3. c \in CallType
    BY <1>3, <1>4, <1>5, <2>1, <2>2, StartedTyped
  <2>4. IdleCall \in CallType
    BY IdleCallTyped
  <2> QED BY <2>1, <2>3, <2>4 DEF Started, CallType
<1>7. CallOK(c) /\ ReadsInOrder(c)
  <2> HIDE DEF c, request, call, step
  <2> QED BY <1>4, <1>5, <1>6 DEF CallOK, ReadsInOrder, Deciding, Reading
<1>8. calls' = [calls EXCEPT ![p] = c] /\ UNCHANGED <<data, runs, events>>
  BY <1>1 DEF Begin
<1> HIDE DEF c, request, call, step
<1> QED BY <1>6, <1>7, <1>8, CallSet

\* A read moves the call one step on and stores the version it saw.
LEMMA ReadEffect ==
  ASSUME Typed, NEW p \in Procs,
         ReadPolicy(p) \/ ReadTargets(p) \/ ReadPortfolio(p) \/ ReadLedger(p)
  PROVE  Effects
<1> DEFINE c == calls[p]
<1>1. c \in CallType /\ CallOK(c) /\ ReadsInOrder(c)
  BY CallFields
<1>2. policy \in Nat /\ portfolio.version \in Nat
  BY DEF Typed, TypeOK
<1>3. ASSUME NEW d, d \in {[c EXCEPT !.step = "targets", !.av = policy],
                           [c EXCEPT !.step = "portfolio", !.targets = policy],
                           [c EXCEPT !.step = "ledger", !.pv = portfolio.version],
                           [c EXCEPT !.step = "create", !.ledger = portfolio.version]}
      PROVE  d \in CallType /\ d.request = c.request /\ d.kind = c.kind
  <2> HIDE DEF c
  <2> QED BY <1>1, <1>2, <1>3 DEF CallType, Steps
<1>4. CASE ReadPolicy(p)
  <2> DEFINE d == [c EXCEPT !.step = "targets", !.av = policy]
  <2>1. c.step = "policy" /\ Advance(p, d)
    BY <1>4 DEF ReadPolicy
  <2>2. d.step = "targets" /\ d.av = policy
    BY <1>1 DEF CallType
  <2> HIDE DEF c
  <2>3. d \in CallType /\ d.request = c.request /\ d.kind = c.kind
    BY <1>3
  <2> HIDE DEF d
  <2>4. CallOK(d) /\ ReadsInOrder(d)
    BY <1>1, <1>2, <2>1, <2>2, <2>3 DEF CallOK, ReadsInOrder, Reading, Deciding
  <2> QED BY <2>1, <2>3, <2>4, CallSet DEF Advance
<1>5. CASE ReadTargets(p)
  <2> DEFINE d == [c EXCEPT !.step = "portfolio", !.targets = policy]
  <2>1. c.step = "targets" /\ Advance(p, d)
    BY <1>5 DEF ReadTargets
  <2>2. d.step = "portfolio" /\ d.targets = policy /\ d.av = c.av
    BY <1>1 DEF CallType
  <2> HIDE DEF c
  <2>3. d \in CallType /\ d.request = c.request /\ d.kind = c.kind
    BY <1>3
  <2> HIDE DEF d
  <2>4. CallOK(d) /\ ReadsInOrder(d)
    BY <1>1, <1>2, <2>1, <2>2, <2>3 DEF CallOK, ReadsInOrder, Reading, Deciding
  <2> QED BY <2>1, <2>3, <2>4, CallSet DEF Advance
<1>6. CASE ReadPortfolio(p)
  <2> DEFINE d == [c EXCEPT !.step = "ledger", !.pv = portfolio.version]
  <2>1. c.step = "portfolio" /\ Advance(p, d)
    BY <1>6 DEF ReadPortfolio
  <2>2. /\ d.step = "ledger" /\ d.pv = portfolio.version
        /\ d.targets = c.targets /\ d.av = c.av
    BY <1>1 DEF CallType
  <2> HIDE DEF c
  <2>3. d \in CallType /\ d.request = c.request /\ d.kind = c.kind
    BY <1>3
  <2> HIDE DEF d
  <2>4. CallOK(d) /\ ReadsInOrder(d)
    BY <1>1, <1>2, <2>1, <2>2, <2>3 DEF CallOK, ReadsInOrder, Reading, Deciding
  <2> QED BY <2>1, <2>3, <2>4, CallSet DEF Advance
<1>7. CASE ReadLedger(p)
  <2> DEFINE d == [c EXCEPT !.step = "create", !.ledger = portfolio.version]
  <2>1. c.step = "ledger" /\ Advance(p, d)
    BY <1>7 DEF ReadLedger
  <2>2. /\ d.step = "create" /\ d.ledger = portfolio.version
        /\ d.targets = c.targets /\ d.av = c.av /\ d.pv = c.pv
    BY <1>1 DEF CallType
  <2> HIDE DEF c
  <2>3. d \in CallType /\ d.request = c.request /\ d.kind = c.kind
    BY <1>3
  <2> HIDE DEF d
  <2>4. CallOK(d) /\ ReadsInOrder(d)
    BY <1>1, <1>2, <2>1, <2>2, <2>3 DEF CallOK, ReadsInOrder, Reading, Deciding
  <2> QED BY <2>1, <2>3, <2>4, CallSet DEF Advance
<1> QED BY <1>4, <1>5, <1>6, <1>7

LEMMA AssessEffect ==
  ASSUME Typed, NEW p \in Procs, Assess(p)
  PROVE  Effects
<1> DEFINE c == calls[p]
<1>1. c \in CallType /\ CallOK(c) /\ c.step = "assess" /\ c.request \in RequestType
  BY CallFields DEF Assess
<1>2. c.request.op \in {"approve", "complete"} /\ c.request.run \in DOMAIN runs
  BY <1>1 DEF CallOK, Deciding
<1>3. EventOf[c.request.op] \in {"approved", "completed"}
  BY <1>2 DEF EventOf
<1>4. PICK step \in {"approved", "completed", "expired"} :
        Advance(p, [c EXCEPT !.step = step])
  BY <1>3 DEF Assess
<1> DEFINE d == [c EXCEPT !.step = step]
<1>5. d.step = step /\ d.request = c.request /\ d \in CallType
  BY <1>1 DEF CallType, Steps
<1> HIDE DEF c, d
<1>6. CallOK(d) /\ ReadsInOrder(d)
  BY <1>2, <1>5 DEF CallOK, ReadsInOrder, Reading, Deciding
<1>7. Advance(p, d)
  BY <1>4 DEF d
<1> QED BY <1>5, <1>6, <1>7, CallSet DEF Advance

LEMMA SystemExpiryTyped ==
  ASSUME Typed, NEW r \in DOMAIN runs
  PROVE  /\ SystemExpiry(r) \in EventType /\ SystemExpiry(r).key = NoKey
         /\ SystemExpiry(r).run = r
<1>1. runs[r] \in RunType /\ r \in Nat
  BY DEF Typed, TypeOK
<1>2. runs[r].status \in Statuses
  BY <1>1 DEF RunType
<1>3. SystemExpiry(r) \in EventType
  BY <1>1, <1>2, NoRequestTyped, EventFields DEF SystemExpiry, EventNames, Statuses
<1> QED BY <1>3 DEF SystemExpiry, Event

\* A call that finishes leaves the versions as they are.
LEMMA FinishEffect ==
  ASSUME NEW p \in Procs, Finish(p)
  PROVE  CallsEffect
BY DEF CallsEffect

LEMMA InsertEffect ==
  ASSUME Typed, PlanAssumption, NEW p \in Procs, calls[p].step = "create",
         KeyedEvents(calls[p].key) = {}, NothingChanged(calls[p]), InsertRun(calls[p])
  PROVE  RunsEffect /\ EventsEffect
<1> DEFINE c == calls[p]
           n == Len(runs) + 1
           e == CreatedEvent(c, n)
<1>1. /\ c \in CallType /\ c.request \in RequestType /\ c.key \in AllKeys \cup {NoKey}
      /\ c.kind \in Kinds /\ c.request.source \in {"manual", "scheduled"}
  BY CallFields DEF CallOK, Reading
<1>2. NewRun(c) \in RunType
  BY <1>1, NewRunTyped DEF PlanAssumption
<1>3. runs \in Seq(RunType) /\ events \in Seq(EventType)
  BY DEF Typed, TypeOK
<1>4. e \in EventType /\ e.key = c.key /\ e.run = n
  <2>1. n \in Nat
    BY <1>3
  <2> HIDE DEF n, c
  <2>2. e \in EventType
    BY <1>1, <2>1, EventFields DEF CreatedEvent, EventNames, Statuses
  <2> QED BY <2>2 DEF CreatedEvent, Event
<1>5. RunsEffect
  BY DEF RunsEffect, Inserted
<1>6. CASE OpenRuns = {} /\ runs' = Append(runs, NewRun(c)) /\ events' = Append(events, e)
  <2>1. n \in DOMAIN runs'
    <3> HIDE DEF c
    <3> QED BY <1>2, <1>3, <1>6, RowAdded
  <2> HIDE DEF e, n
  <2> QED BY <1>4, <1>5, <1>6, <2>1 DEF EventsEffect, Recordable
<1>7. ASSUME NEW r \in OpenRuns,
             runs' = Append(Moved(r, "expired"), NewRun(c)),
             events' = events \o <<SystemExpiry(r), e>>
      PROVE  EventsEffect
  <2>1. r \in DOMAIN runs
    BY DEF OpenRuns
  <2>2. Moved(r, "expired") \in Seq(RunType) /\ Len(Moved(r, "expired")) = Len(runs)
        /\ DOMAIN Moved(r, "expired") = DOMAIN runs
    <3>1. "expired" \in Statuses
      BY DEF Statuses
    <3> QED BY <1>3, <2>1, <3>1, RunMoved
  <2>3. n \in DOMAIN runs' /\ r \in DOMAIN runs'
    <3> HIDE DEF c
    <3> QED BY <1>2, <1>7, <2>1, <2>2, RowAdded
  <2>4. /\ SystemExpiry(r) \in EventType /\ SystemExpiry(r).key = NoKey
        /\ SystemExpiry(r).run = r
    BY <2>1, SystemExpiryTyped
  <2> DEFINE x == SystemExpiry(r)
  <2> HIDE DEF e, n, x
  <2>5. events' = Append(Append(events, x), e)
    BY <1>3, <1>4, <1>7, <2>4, TwoRowsAdded DEF x
  <2>6. Recordable(x) /\ x.key = NoKey /\ x \in EventType
    BY <2>3, <2>4 DEF Recordable, x
  <2>7. Recordable(e)
    BY <1>4, <2>3 DEF Recordable
  <2> QED BY <1>4, <2>5, <2>6, <2>7 DEF EventsEffect
<1> QED BY <1>5, <1>6, <1>7 DEF InsertRun

LEMMA CreateRebalanceEffect ==
  ASSUME Typed, PlanAssumption, NEW p \in Procs, CreateRebalance(p)
  PROVE  Effects
<1>1. /\ calls[p].step = "create" /\ KeyedEvents(calls[p].key) = {}
      /\ NothingChanged(calls[p]) /\ Finish(p) /\ UNCHANGED data
      /\ InsertRun(calls[p]) \/ UNCHANGED <<runs, events>>
  BY DEF CreateRebalance
<1>2. RunsEffect /\ EventsEffect
  <2>1. CASE InsertRun(calls[p])
    BY <1>1, <2>1, InsertEffect
  <2>2. CASE UNCHANGED <<runs, events>>
    BY <2>2 DEF RunsEffect, EventsEffect
  <2> QED BY <1>1, <2>1, <2>2
<1> QED BY <1>1, <1>2, DataKept, FinishEffect DEF Effects

LEMMA CreateContributionEffect ==
  ASSUME Typed, PlanAssumption, NEW p \in Procs, CreateContribution(p)
  PROVE  Effects
<1>1. /\ calls[p].step = "create" /\ KeyedEvents(calls[p].key) = {}
      /\ Finish(p) /\ UNCHANGED <<portfolio, policy>>
      /\ \/ UNCHANGED <<goal, runs, events>>
         \/ /\ NothingChanged(calls[p]) /\ InsertRun(calls[p])
            /\ goal' = goal \/ goal' = [goal EXCEPT !.next = @ + 1]
  BY DEF CreateContribution
<1>2. RunsEffect /\ EventsEffect
  <2>1. CASE NothingChanged(calls[p]) /\ InsertRun(calls[p])
    BY <1>1, <2>1, InsertEffect
  <2>2. CASE UNCHANGED <<runs, events>>
    BY <2>2 DEF RunsEffect, EventsEffect
  <2> QED BY <1>1, <2>1, <2>2
<1>3. DataEffect
  <2>1. goal' = goal \/ goal' = [goal EXCEPT !.next = @ + 1]
    BY <1>1
  <2> QED BY <1>1, <2>1 DEF DataEffect, Typed, TypeOK
<1> QED BY <1>1, <1>2, <1>3, FinishEffect DEF Effects

\* One event more, about plan r and under the key of the call if under any.
LEMMA OneEventRecorded ==
  ASSUME Typed, NEW r \in DOMAIN runs, r \in DOMAIN runs',
         NEW name \in EventNames, NEW from \in Statuses, NEW to \in Statuses,
         NEW key \in AllKeys \cup {NoKey}, key = NoKey \/ KeyedEvents(key) = {},
         NEW request \in RequestType,
         events' = Append(events, Event(r, name, from, to, key, request))
  PROVE  EventsEffect
<1> DEFINE e == Event(r, name, from, to, key, request)
<1>1. r \in Nat
  BY DEF Typed, TypeOK
<1>2. e \in EventType
  BY <1>1, EventFields
<1>3. e.key = key /\ e.run = r
  BY DEF Event
<1>4. Recordable(e)
  <2> HIDE DEF e
  <2> QED BY <1>2, <1>3 DEF Recordable
<1> HIDE DEF e
<1> QED BY <1>2, <1>4 DEF EventsEffect, e

LEMMA MoveRecorded ==
  ASSUME Typed, NEW p \in Procs, NEW r \in DOMAIN runs, calls[p].request.run = r,
         NEW to \in {"approved", "rejected", "expired"}, Transition(p, r, to),
         IsOpen(runs[r]), to = "approved" => runs[r].status = "pending"
  PROVE  Effects
<1>1. runs' = Moved(r, to) /\ KeyedEvents(calls[p].key) = {} /\ Finish(p)
      /\ UNCHANGED data
      /\ events' = Append(events, Event(r, to, runs[r].status, to, calls[p].key,
                                        calls[p].request))
  BY DEF Transition
<1>2. RunsEffect
  BY <1>1 DEF RunsEffect, MovedOn
<1>3. runs \in Seq(RunType) /\ runs[r] \in RunType /\ runs[r].status \in Statuses
  <2>1. runs \in Seq(RunType) /\ runs[r] \in RunType
    BY DEF Typed, TypeOK
  <2> QED BY <2>1 DEF RunType
<1>4. to \in Statuses /\ to \in EventNames
  BY DEF Statuses, EventNames
<1>5. r \in DOMAIN runs'
  BY <1>1, <1>3, <1>4, RunMoved
<1>6. EventsEffect
  BY <1>1, <1>3, <1>4, <1>5, CallFields, OneEventRecorded
<1> QED BY <1>1, <1>2, <1>6, DataKept, FinishEffect DEF Effects

LEMMA DecideEffect ==
  ASSUME Typed, PlanAssumption, NEW p \in Procs, Approve(p) \/ Reject(p) \/ Expire(p)
  PROVE  Effects
<1> DEFINE r == calls[p].request.run
<1>1. CallOK(calls[p])
  BY CallFields
<1>2. CASE Approve(p)
  <2>1. calls[p].step = "approved" /\ Approvable(runs[r]) /\ Transition(p, r, "approved")
    BY <1>2 DEF Approve
  <2>2. r \in DOMAIN runs /\ runs[r].status = "pending" /\ IsOpen(runs[r])
    BY <1>1, <2>1 DEF CallOK, Deciding, Approvable, IsOpen
  <2> QED BY <2>1, <2>2, MoveRecorded
<1>3. CASE Reject(p)
  <2>1. calls[p].step = "reject" /\ IsOpen(runs[r]) /\ Transition(p, r, "rejected")
    BY <1>3 DEF Reject
  <2>2. r \in DOMAIN runs
    BY <1>1, <2>1 DEF CallOK, Deciding
  <2> QED BY <2>1, <2>2, MoveRecorded
<1>4. CASE Expire(p)
  <2>1. calls[p].step = "expired" /\ IsOpen(runs[r]) /\ Transition(p, r, "expired")
    BY <1>4 DEF Expire
  <2>2. r \in DOMAIN runs
    BY <1>1, <2>1 DEF CallOK, Deciding
  <2> QED BY <2>1, <2>2, MoveRecorded
<1> QED BY <1>2, <1>3, <1>4

\* What one replaced row leaves of the table.
RowBecomes(r, x) ==
  /\ runs' \in Seq(RunType) /\ x \in RunType
  /\ DOMAIN runs' = DOMAIN runs /\ Len(runs') = Len(runs)
  /\ runs'[r] = x
  /\ \A i \in DOMAIN runs : i # r => runs'[i] = runs[i]

LEMMA RowOfEffect ==
  ASSUME Typed, NEW r \in DOMAIN runs
  PROVE  /\ Touched(r) => \/ RowBecomes(r, [runs[r] EXCEPT !.lapsed = TRUE])
                          \/ RowBecomes(r, [runs[r] EXCEPT !.live = FALSE])
         /\ Dropped(r) => RowBecomes(r, [runs[r] EXCEPT !.status = "expired"])
         /\ Booked(r) => RowBecomes(r, [runs[r] EXCEPT !.status = "completed",
                                                       !.booked = portfolio.version])
         /\ \A to \in {"approved", "rejected", "expired"} :
              runs' = Moved(r, to) =>
                RowBecomes(r, [runs[r] EXCEPT !.status = to, !.live = FALSE])
<1>1. runs \in Seq(RunType) /\ runs[r] \in RunType /\ portfolio.version \in Nat
  BY DEF Typed, TypeOK
<1>2. ASSUME NEW x \in RunType, runs' = [runs EXCEPT ![r] = x]
      PROVE  RowBecomes(r, x)
  BY <1>1, <1>2, RowReplaced DEF RowBecomes
<1>3. /\ [runs[r] EXCEPT !.lapsed = TRUE] \in RunType
      /\ [runs[r] EXCEPT !.live = FALSE] \in RunType
      /\ [runs[r] EXCEPT !.status = "expired"] \in RunType
      /\ [runs[r] EXCEPT !.status = "completed", !.booked = portfolio.version] \in RunType
      /\ \A to \in {"approved", "rejected", "expired"} :
           [runs[r] EXCEPT !.status = to, !.live = FALSE] \in RunType
  BY <1>1 DEF RunType, Statuses
<1>4. Touched(r) => \/ RowBecomes(r, [runs[r] EXCEPT !.lapsed = TRUE])
                    \/ RowBecomes(r, [runs[r] EXCEPT !.live = FALSE])
  BY <1>2, <1>3 DEF Touched
<1>5. Dropped(r) => RowBecomes(r, [runs[r] EXCEPT !.status = "expired"])
  BY <1>2, <1>3 DEF Dropped
<1>6. Booked(r) => RowBecomes(r, [runs[r] EXCEPT !.status = "completed",
                                                 !.booked = portfolio.version])
  BY <1>2, <1>3 DEF Booked
<1>7. ASSUME NEW to \in {"approved", "rejected", "expired"}, runs' = Moved(r, to)
      PROVE  RowBecomes(r, [runs[r] EXCEPT !.status = to, !.live = FALSE])
  BY <1>2, <1>3, <1>7 DEF Moved
<1> QED BY <1>4, <1>5, <1>6, <1>7

LEMMA CompleteEffect ==
  ASSUME Typed, PlanAssumption, NEW p \in Procs, Complete(p)
  PROVE  Effects
<1> DEFINE c == calls[p]
           r == c.request.run
<1>1. /\ c.step = "completed" /\ KeyedEvents(c.key) = {} /\ Finish(p)
      /\ Booked(r) /\ UNCHANGED <<policy, goal>>
      /\ portfolio' = [portfolio EXCEPT !.version = @ + 1]
      /\ events' = Append(events, Event(r, "completed", "approved", "completed",
                                        c.key, c.request))
  BY DEF Complete, Booked
<1>2. r \in DOMAIN runs /\ c.request \in RequestType /\ c.key \in AllKeys \cup {NoKey}
  BY <1>1, CallFields DEF CallOK, Deciding
<1>3. RunsEffect
  BY <1>1, <1>2 DEF RunsEffect
<1>4. r \in DOMAIN runs'
  <2> HIDE DEF c, r
  <2> QED BY <1>1, <1>2, RowOfEffect DEF RowBecomes
<1>5. EventsEffect
  <2>1. "completed" \in EventNames /\ "completed" \in Statuses /\ "approved" \in Statuses
    BY DEF EventNames, Statuses
  <2> HIDE DEF c, r
  <2> QED BY <1>1, <1>2, <1>4, <2>1, OneEventRecorded
<1>6. DataEffect
  BY <1>1, PortfolioChanged
<1> QED BY <1>1, <1>3, <1>5, <1>6, FinishEffect DEF Effects

LEMMA AbandonEffect ==
  ASSUME Typed, NEW p \in Procs, Abandon(p)
  PROVE  Effects
<1>1. Finish(p) /\ UNCHANGED <<data, runs, events>>
  BY DEF Abandon
<1> QED BY <1>1, DataKept, FinishEffect DEF Effects, RunsEffect, EventsEffect

LEMMA ExpirySwept ==
  ASSUME Typed, NEW r \in DOMAIN runs, r \in DOMAIN runs',
         events' = Append(events, SystemExpiry(r))
  PROVE  EventsEffect
<1> DEFINE e == SystemExpiry(r)
<1>1. e \in EventType /\ e.key = NoKey /\ e.run = r
  BY SystemExpiryTyped
<1> HIDE DEF e
<1>2. Recordable(e)
  BY <1>1 DEF Recordable
<1> QED BY <1>1, <1>2 DEF EventsEffect, e

LEMMA DropEffect ==
  ASSUME Typed, ExpirePlanOfGoal
  PROVE  RunsEffect /\ EventsEffect
<1>1. CASE UNCHANGED <<runs, events>>
  BY <1>1 DEF RunsEffect, EventsEffect
<1>2. CASE ~UNCHANGED <<runs, events>>
  <2>1. PICK r \in OpenRuns :
          /\ runs[r].kind = "contribution"
          /\ runs' = [runs EXCEPT ![r].status = "expired"]
          /\ events' = Append(events, SystemExpiry(r))
    BY <1>2 DEF ExpirePlanOfGoal
  <2>2. r \in DOMAIN runs /\ Dropped(r)
    BY <2>1 DEF OpenRuns, Dropped
  <2>3. r \in DOMAIN runs'
    BY <2>2, RowOfEffect DEF RowBecomes
  <2> QED BY <2>1, <2>2, <2>3, ExpirySwept DEF RunsEffect
<1> QED BY <1>1, <1>2

LEMMA MoveGoalEffect ==
  ASSUME Typed, PlanAssumption, NEW status \in GoalStatuses, MoveGoal(status)
  PROVE  RunsEffect /\ EventsEffect /\ DataEffect
<1>0. goal.next \in Nat /\ 1..MaxCycle \subseteq Nat
  BY DEF Typed, TypeOK, PlanAssumption
<1>1. PICK next \in Nat :
        /\ goal' = [goal EXCEPT !.status = status, !.version = @ + 1, !.next = next]
        /\ UNCHANGED <<portfolio, policy>>
        /\ UNCHANGED <<runs, events>> \/ ExpirePlanOfGoal
  BY <1>0 DEF MoveGoal
<1>2. goal' \in [id : Nat, status : GoalStatuses, version : Nat, next : Nat]
  <2>1. goal \in [id : Nat, status : GoalStatuses, version : Nat, next : Nat]
    BY DEF Typed, TypeOK
  <2> QED BY <1>1, <2>1, GoalRecords
<1>3. DataEffect
  BY <1>1, <1>2, GoalChanged
<1>4. RunsEffect /\ EventsEffect
  BY <1>1, DropEffect DEF RunsEffect, EventsEffect
<1> QED BY <1>3, <1>4

LEMMA GoalEffect ==
  ASSUME Typed, PlanAssumption,
         \/ \E next \in 1..MaxCycle : SaveGoal(next)
         \/ TransitionGoal
         \/ \E p \in Procs : CompleteFundedGoal(p)
  PROVE  Effects
<1>1. CASE TransitionGoal
  <2>1. PICK status \in GoalStatuses : MoveGoal(status)
    BY <1>1 DEF TransitionGoal
  <2>2. calls' = calls
    BY <1>1 DEF TransitionGoal
  <2> QED BY <2>1, <2>2, MoveGoalEffect DEF Effects, CallsEffect
<1>2. CASE \E p \in Procs : CompleteFundedGoal(p)
  <2>1. PICK p \in Procs : CompleteFundedGoal(p)
    BY <1>2
  <2>2. MoveGoal("completed") /\ Finish(p)
    BY <2>1 DEF CompleteFundedGoal
  <2>3. "completed" \in GoalStatuses
    BY DEF GoalStatuses
  <2> QED BY <2>2, <2>3, MoveGoalEffect, FinishEffect DEF Effects
<1>3. CASE \E next \in 1..MaxCycle : SaveGoal(next)
  <2>1. PICK next \in 1..MaxCycle : SaveGoal(next)
    BY <1>3
  <2>2. next \in Nat
    BY DEF PlanAssumption
  <2>3. /\ UNCHANGED <<portfolio, policy, calls>>
        /\ \/ goal' = [goal EXCEPT !.version = @ + 1, !.next = next] /\ ExpirePlanOfGoal
           \/ /\ goal' = [id |-> goal.id + 1, status |-> "active",
                          version |-> goal.version + 1, next |-> next]
              /\ UNCHANGED <<runs, events>>
    BY <2>1 DEF SaveGoal
  <2>4. DataEffect
    <3>1. /\ goal \in [id : Nat, status : GoalStatuses, version : Nat, next : Nat]
          /\ portfolio \in [active : BOOLEAN, version : Nat] /\ policy \in Nat
      BY DEF Typed, TypeOK
    <3>2. goal' \in [id : Nat, status : GoalStatuses, version : Nat, next : Nat]
      <4>1. CASE goal' = [goal EXCEPT !.version = @ + 1, !.next = next]
        BY <2>2, <3>1, <4>1, GoalRecords
      <4>2. CASE goal' = [id |-> goal.id + 1, status |-> "active",
                          version |-> goal.version + 1, next |-> next]
        BY <2>2, <3>1, <4>2, GoalRecords
      <4> QED BY <2>3, <4>1, <4>2
    <3> QED BY <2>3, <3>2, GoalChanged
  <2>5. RunsEffect /\ EventsEffect
    BY <2>3, DropEffect DEF RunsEffect, EventsEffect
  <2> QED BY <2>3, <2>4, <2>5 DEF Effects, CallsEffect
<1> QED BY <1>1, <1>2, <1>3

LEMMA OwnerEffect ==
  ASSUME Typed, PlanAssumption, WriteLedger \/ SetStatus \/ ReplacePolicy
  PROVE  Effects
<1>1. UNCHANGED <<goal, runs, events, calls>>
  BY DEF WriteLedger, SetStatus, ReplacePolicy
<1>2. portfolio \in [active : BOOLEAN, version : Nat] /\ policy \in Nat
      /\ goal \in [id : Nat, status : GoalStatuses, version : Nat, next : Nat]
  BY DEF Typed, TypeOK
<1>3. \/ policy' = policy /\ portfolio' = [portfolio EXCEPT !.version = @ + 1]
      \/ /\ policy' = policy
         /\ portfolio' = [active |-> ~portfolio.active, version |-> portfolio.version + 1]
      \/ portfolio' = portfolio /\ policy' = policy + 1
  BY DEF WriteLedger, SetStatus, ReplacePolicy
<1>4. portfolio' \in [active : BOOLEAN, version : Nat]
      /\ portfolio.version <= portfolio'.version
  <2>1. CASE portfolio' = [portfolio EXCEPT !.version = @ + 1]
    BY <1>2, <2>1, PortfolioRecords
  <2>2. CASE portfolio' = [active |-> ~portfolio.active,
                           version |-> portfolio.version + 1]
    BY <1>2, <2>2, PortfolioRecords
  <2>3. CASE portfolio' = portfolio
    BY <1>2, <2>3
  <2> QED BY <1>3, <2>1, <2>2, <2>3
<1>5. policy' \in Nat /\ policy <= policy'
  BY <1>2, <1>3
<1>6. DataEffect
  BY <1>1, <1>2, <1>4, <1>5 DEF DataEffect
<1> QED BY <1>1, <1>6 DEF Effects, RunsEffect, EventsEffect, CallsEffect

LEMMA RunEffect ==
  ASSUME Typed, PlanAssumption,
         \/ \E r \in DOMAIN runs : ReverseExecution(r) \/ Lapse(r) \/ Notified(r)
         \/ Sweep
  PROVE  Effects
<1>1. ASSUME NEW r \in DOMAIN runs, ReverseExecution(r) PROVE Effects
  <2>1. /\ portfolio' = [portfolio EXCEPT !.version = @ + 1]
        /\ UNCHANGED <<policy, goal, runs, calls>>
        /\ events' = Append(events, Event(r, "execution_reversed", "completed",
                                          "completed", NoKey, NoRequest))
    BY <1>1 DEF ReverseExecution
  <2>2. "execution_reversed" \in EventNames /\ "completed" \in Statuses
    BY DEF EventNames, Statuses
  <2>3. EventsEffect
    BY <2>1, <2>2, NoRequestTyped, OneEventRecorded
  <2>4. DataEffect
    BY <2>1, PortfolioChanged
  <2> QED BY <2>1, <2>3, <2>4 DEF Effects, RunsEffect, CallsEffect
<1>2. ASSUME NEW r \in DOMAIN runs, Lapse(r) \/ Notified(r) PROVE Effects
  <2>1. Touched(r) /\ UNCHANGED <<data, events, calls>>
    BY <1>2 DEF Lapse, Notified, Touched
  <2> QED BY <2>1, DataKept DEF Effects, RunsEffect, EventsEffect, CallsEffect
<1>3. CASE Sweep
  <2>1. PICK r \in OpenRuns : /\ runs' = Moved(r, "expired")
                              /\ events' = Append(events, SystemExpiry(r))
                              /\ UNCHANGED <<data, calls>>
    BY <1>3 DEF Sweep
  <2>2. r \in DOMAIN runs /\ MovedOn(r)
    BY <2>1 DEF OpenRuns, MovedOn
  <2>3. r \in DOMAIN runs'
    BY <2>1, <2>2, RowOfEffect DEF RowBecomes
  <2> QED BY <2>1, <2>2, <2>3, DataKept, ExpirySwept
          DEF Effects, RunsEffect, CallsEffect
<1> QED BY <1>1, <1>2, <1>3

LEMMA StepEffects ==
  ASSUME Typed, PlanAssumption, [Next]_vars
  PROVE  Effects
<1>1. CASE UNCHANGED vars
  <2>1. UNCHANGED <<data, runs, events, calls>>
    BY <1>1 DEF vars, data
  <2> QED BY <2>1, DataKept DEF Effects, RunsEffect, EventsEffect, CallsEffect
<1>2. ASSUME NEW p \in Procs, Generate(p) PROVE Effects
  BY <1>2, BeginRebalanceEffect, BeginContributionEffect, ReadEffect,
     CreateRebalanceEffect, CreateContributionEffect, GoalEffect DEF Generate
<1>3. ASSUME NEW p \in Procs, Decide(p) PROVE Effects
  BY <1>3, BeginDecisionEffect, AssessEffect, DecideEffect, CompleteEffect DEF Decide
<1>4. ASSUME OwnerEdits PROVE Effects
  BY <1>4, GoalEffect, OwnerEffect, RunEffect DEF OwnerEdits
<1> QED BY <1>1, <1>2, <1>3, <1>4, AbandonEffect, RunEffect DEF Next

-----------------------------------------------------------------------------
(* Every table, event and call keeps its shape.                             *)

\* An insertion adds one row to the table, in which at most one plan closed.
Behind(old) ==
  \/ old = runs /\ OpenRuns = {}
  \/ \E r \in OpenRuns :
       /\ old[r] = [runs[r] EXCEPT !.status = "expired", !.live = FALSE]
       /\ \A i \in DOMAIN runs : i # r => old[i] = runs[i]

LEMMA InsertedRow ==
  ASSUME Typed, PlanAssumption, Inserted
  PROVE  \E p \in Procs, old \in Seq(RunType) :
           /\ calls[p].step = "create" /\ NothingChanged(calls[p])
           /\ NewRun(calls[p]) \in RunType
           /\ runs' = Append(old, NewRun(calls[p]))
           /\ DOMAIN old = DOMAIN runs /\ Len(old) = Len(runs)
           /\ Behind(old)
<1>1. PICK p \in Procs : /\ calls[p].step = "create"
                         /\ NothingChanged(calls[p]) /\ InsertRun(calls[p])
  BY DEF Inserted
<1>2. NewRun(calls[p]) \in RunType
  <2>1. calls[p] \in CallType /\ CallOK(calls[p])
    BY CallFields
  <2> QED BY <1>1, <2>1, NewRunTyped DEF CallOK, Reading, PlanAssumption
<1>3. runs \in Seq(RunType)
  BY DEF Typed, TypeOK
<1>4. CASE OpenRuns = {} /\ runs' = Append(runs, NewRun(calls[p]))
  BY <1>1, <1>2, <1>3, <1>4 DEF Behind
<1>5. ASSUME NEW r \in OpenRuns, runs' = Append(Moved(r, "expired"), NewRun(calls[p]))
      PROVE  \E old \in Seq(RunType) :
               /\ runs' = Append(old, NewRun(calls[p]))
               /\ DOMAIN old = DOMAIN runs /\ Len(old) = Len(runs)
               /\ Behind(old)
  <2> DEFINE old == Moved(r, "expired")
  <2>1. r \in DOMAIN runs /\ "expired" \in Statuses
    BY DEF OpenRuns, Statuses
  <2>2. /\ old \in Seq(RunType)
        /\ DOMAIN old = DOMAIN runs /\ Len(old) = Len(runs)
        /\ old[r] = [runs[r] EXCEPT !.status = "expired", !.live = FALSE]
        /\ \A i \in DOMAIN runs : i # r => old[i] = runs[i]
    BY <1>3, <2>1, RunMoved
  <2> HIDE DEF old
  <2>3. Behind(old)
    BY <2>2 DEF Behind
  <2> QED BY <1>5, <2>2, <2>3 DEF old
<1> QED BY <1>1, <1>2, <1>4, <1>5 DEF InsertRun

LEMMA TableTyped ==
  ASSUME Typed, PlanAssumption, RunsEffect
  PROVE  runs' \in Seq(RunType) /\ DOMAIN runs \subseteq DOMAIN runs'
<1>1. runs \in Seq(RunType)
  BY DEF Typed, TypeOK
<1>2. ASSUME NEW r \in DOMAIN runs, Touched(r) \/ MovedOn(r) \/ Dropped(r) \/ Booked(r)
      PROVE  runs' \in Seq(RunType) /\ DOMAIN runs \subseteq DOMAIN runs'
  BY <1>2, RowOfEffect DEF RowBecomes, MovedOn
<1>3. CASE Inserted
  BY <1>3, InsertedRow, RowAdded
<1> QED BY <1>1, <1>2, <1>3 DEF RunsEffect

LEMMA EventsTyped ==
  ASSUME Typed, PlanAssumption, RunsEffect, EventsEffect
  PROVE  events' \in Seq(EventType) /\ \A i \in DOMAIN events' : events'[i].run \in DOMAIN runs'
<1>1. /\ events \in Seq(EventType) /\ DOMAIN runs \subseteq DOMAIN runs'
      /\ \A i \in DOMAIN events : events[i].run \in DOMAIN runs
  BY TableTyped DEF Typed, TypeOK
<1>2. ASSUME NEW s \in Seq(EventType), NEW e \in EventType, e.run \in DOMAIN runs',
             \A i \in DOMAIN s : s[i].run \in DOMAIN runs'
      PROVE  /\ Append(s, e) \in Seq(EventType)
             /\ \A i \in DOMAIN Append(s, e) : Append(s, e)[i].run \in DOMAIN runs'
  BY <1>2, RowAdded
<1>3. CASE events' = events
  BY <1>1, <1>3
<1>4. CASE \E e \in EventType : Recordable(e) /\ events' = Append(events, e)
  BY <1>1, <1>2, <1>4 DEF Recordable
<1>5. CASE \E x, e \in EventType :
             /\ Recordable(x) /\ Recordable(e)
             /\ events' = Append(Append(events, x), e)
  <2>1. PICK x \in EventType, e \in EventType :
          Recordable(x) /\ Recordable(e) /\ events' = Append(Append(events, x), e)
    BY <1>5
  <2> DEFINE s == Append(events, x)
  <2>2. s \in Seq(EventType) /\ \A i \in DOMAIN s : s[i].run \in DOMAIN runs'
    BY <1>1, <1>2, <2>1 DEF Recordable
  <2> HIDE DEF s
  <2>3. events' = Append(s, e)
    BY <2>1 DEF s
  <2> QED BY <1>2, <2>1, <2>2, <2>3 DEF Recordable
<1> QED BY <1>3, <1>4, <1>5 DEF EventsEffect

\* What a call knows stays true while versions and tables grow.
LEMMA CallKept ==
  ASSUME Typed, DataEffect, DOMAIN runs \subseteq DOMAIN runs',
         NEW c \in CallType, CallOK(c), ReadsInOrder(c)
  PROVE  CallOK(c)' /\ ReadsInOrder(c)'
<1>1. /\ policy \in Nat /\ policy' \in Nat /\ policy <= policy'
      /\ portfolio.version \in Nat /\ portfolio'.version \in Nat
      /\ portfolio.version <= portfolio'.version
  BY DEF Typed, TypeOK, DataEffect
<1>2. CallOK(c)'
  BY DEF CallOK
<1>3. c.av \in Nat /\ c.targets \in Nat /\ c.pv \in Nat /\ c.ledger \in Nat
  BY DEF CallType
<1>4. ReadsInOrder(c)'
  BY <1>1, <1>3 DEF ReadsInOrder
<1> QED BY <1>2, <1>4

LEMMA CallsTyped ==
  ASSUME Typed, CallsEffect, DataEffect, DOMAIN runs \subseteq DOMAIN runs'
  PROVE  calls' \in [Procs -> CallType] /\ CallsOK'
<1>1. calls \in [Procs -> CallType]
  BY DEF Typed, TypeOK
<1>2. ASSUME NEW q \in Procs, NEW c, calls'[q] = c, CallOK(c)', ReadsInOrder(c)'
      PROVE  CallOK(calls[q])' /\ ReadsInOrder(calls[q])'
  BY <1>2 DEF CallOK, ReadsInOrder
<1>3. ASSUME NEW q \in Procs, calls'[q] = calls[q]
      PROVE  CallOK(calls[q])' /\ ReadsInOrder(calls[q])'
  <2>1. calls[q] \in CallType /\ CallOK(calls[q]) /\ ReadsInOrder(calls[q])
    BY CallFields
  <2>2. PICK c \in CallType : c = calls[q]
    BY <2>1
  <2>3. CallOK(c)' /\ ReadsInOrder(c)'
    BY <2>1, <2>2, CallKept
  <2> QED BY <1>2, <1>3, <2>2, <2>3
<1>4. CASE calls' = calls
  BY <1>1, <1>3, <1>4 DEF CallsOK
<1>5. ASSUME NEW p \in Procs, Finish(p)
      PROVE  calls' \in [Procs -> CallType] /\ CallsOK'
  <2>1. CallOK(IdleCall)' /\ ReadsInOrder(IdleCall)'
    BY IdleCallTyped DEF CallOK, ReadsInOrder, Reading, Deciding
  <2>2. calls' = [calls EXCEPT ![p] = IdleCall] /\ IdleCall \in CallType
    BY <1>5, IdleCallTyped DEF Finish
  <2>3. calls'[p] = IdleCall /\ \A q \in Procs : q # p => calls'[q] = calls[q]
    BY <1>1, <2>2
  <2>4. PICK c \in CallType : c = IdleCall
    BY IdleCallTyped
  <2>5. CallOK(calls[p])' /\ ReadsInOrder(calls[p])'
    <3>1. CallOK(c)' /\ ReadsInOrder(c)'
      BY <2>1, <2>4
    <3> QED BY <1>2, <2>3, <2>4, <3>1
  <2> QED BY <1>1, <1>3, <2>2, <2>3, <2>5 DEF CallsOK
<1>6. ASSUME NEW p \in Procs, NEW c \in CallType, calls' = [calls EXCEPT ![p] = c],
             CallOK(c), ReadsInOrder(c), UNCHANGED <<data, runs>>
      PROVE  calls' \in [Procs -> CallType] /\ CallsOK'
  <2>1. CallOK(c)' /\ ReadsInOrder(c)'
    BY <1>6 DEF CallOK, ReadsInOrder, data
  <2>2. calls'[p] = c /\ \A q \in Procs : q # p => calls'[q] = calls[q]
    BY <1>1, <1>6
  <2> QED BY <1>1, <1>2, <1>3, <1>6, <2>1, <2>2 DEF CallsOK
<1> QED BY <1>4, <1>5, <1>6 DEF CallsEffect

\* The shape of the state and the order of the reads survive every step.
LEMMA TypedStep ==
  ASSUME Typed, PlanAssumption, [Next]_vars
  PROVE  Typed'
<1>1. RunsEffect /\ EventsEffect /\ CallsEffect /\ DataEffect
  BY StepEffects DEF Effects
<1>2. runs' \in Seq(RunType) /\ DOMAIN runs \subseteq DOMAIN runs'
  BY <1>1, TableTyped
<1>3. events' \in Seq(EventType) /\ \A i \in DOMAIN events' : events'[i].run \in DOMAIN runs'
  BY <1>1, EventsTyped
<1>4. calls' \in [Procs -> CallType] /\ CallsOK'
  BY <1>1, <1>2, CallsTyped
<1> QED BY <1>1, <1>2, <1>3, <1>4 DEF Typed, TypeOK, DataEffect

LEMMA TypedInit ==
  ASSUME PlanAssumption, Init
  PROVE  Typed
<1>1. /\ portfolio \in [active : BOOLEAN, version : Nat] /\ policy \in Nat
      /\ goal \in [id : Nat, status : GoalStatuses, version : Nat, next : Nat]
  BY DEF Init, GoalStatuses
<1>2. runs \in Seq(RunType) /\ events \in Seq(EventType) /\ DOMAIN events = {}
  BY DEF Init
<1>3. calls \in [Procs -> CallType] /\ \A p \in Procs : calls[p] = IdleCall
  BY IdleCallTyped DEF Init
<1>4. CallsOK
  BY <1>3, IdleCallTyped DEF CallsOK, CallOK, ReadsInOrder, Reading, Deciding
<1> QED BY <1>1, <1>2, <1>3, <1>4 DEF Typed, TypeOK

\* Rows, events and calls keep their shape for every number of plans and calls.
THEOREM TypeCorrect == Spec => []TypeOK
<1>1. Init => Typed
  BY PlanAssumption, TypedInit
<1>2. Typed /\ [Next]_vars => Typed'
  BY PlanAssumption, TypedStep
<1>3. Typed => TypeOK
  BY DEF Typed
<1> QED BY <1>1, <1>2, <1>3, PTL DEF Spec

-----------------------------------------------------------------------------
(* One open plan.                                                           *)

\* What happens to a plan that is there can close it and never opens it.
LEMMA OpenShrinks ==
  ASSUME Typed, NEW r \in DOMAIN runs,
         Touched(r) \/ MovedOn(r) \/ Dropped(r) \/ Booked(r)
  PROVE  OpenRuns' \subseteq OpenRuns
<1>1. PICK x \in RunType : RowBecomes(r, x) /\ (IsOpen(x) => IsOpen(runs[r]))
  <2>1. runs[r] \in RunType
    BY DEF Typed, TypeOK
  <2>2. CASE Touched(r)
    <3> DEFINE x == [runs[r] EXCEPT !.lapsed = TRUE]
               y == [runs[r] EXCEPT !.live = FALSE]
    <3>1. RowBecomes(r, x) \/ RowBecomes(r, y)
      BY <2>2, RowOfEffect
    <3>2. x.status = runs[r].status /\ y.status = runs[r].status
      BY <2>1 DEF RunType
    <3> HIDE DEF x, y
    <3> QED BY <3>1, <3>2 DEF RowBecomes, IsOpen
  <2>3. CASE MovedOn(r)
    <3>1. PICK to \in {"approved", "rejected", "expired"} : runs' = Moved(r, to)
      BY <2>3 DEF MovedOn
    <3>2. RowBecomes(r, [runs[r] EXCEPT !.status = to, !.live = FALSE])
      BY <3>1, RowOfEffect
    <3> QED BY <2>3, <3>2 DEF RowBecomes, MovedOn
  <2>4. CASE Dropped(r)
    BY <2>4, RowOfEffect DEF RowBecomes, Dropped
  <2>5. CASE Booked(r)
    <3>1. IsOpen(runs[r])
      BY <2>5 DEF Booked, Completable, IsOpen
    <3> QED BY <2>5, <3>1, RowOfEffect DEF RowBecomes
  <2> QED BY <2>2, <2>3, <2>4, <2>5
<1> QED BY <1>1 DEF OpenRuns, RowBecomes

LEMMA OneOpenStep ==
  ASSUME Typed, PlanAssumption, OneOpenPlan, [Next]_vars
  PROVE  OneOpenPlan'
<1>1. RunsEffect
  BY StepEffects DEF Effects
<1>2. CASE runs' = runs
  BY <1>2 DEF OneOpenPlan, OpenRuns
<1>3. ASSUME NEW r \in DOMAIN runs, Touched(r) \/ MovedOn(r) \/ Dropped(r) \/ Booked(r)
      PROVE  OneOpenPlan'
  BY <1>3, OpenShrinks DEF OneOpenPlan
<1>4. CASE Inserted
  <2>1. PICK p \in Procs, old \in Seq(RunType) :
          /\ NewRun(calls[p]) \in RunType
          /\ runs' = Append(old, NewRun(calls[p]))
          /\ DOMAIN old = DOMAIN runs /\ Len(old) = Len(runs)
          /\ Behind(old)
    BY <1>4, InsertedRow
  <2>2. /\ DOMAIN runs' = DOMAIN runs \cup {Len(runs) + 1}
        /\ \A i \in DOMAIN runs : runs'[i] = old[i]
    BY <2>1, RowAdded
  <2>3. ASSUME NEW i \in DOMAIN runs PROVE ~IsOpen(old[i])
    <3>1. CASE old = runs /\ OpenRuns = {}
      BY <3>1 DEF OpenRuns
    <3>2. ASSUME NEW r \in OpenRuns,
                 old[r] = [runs[r] EXCEPT !.status = "expired", !.live = FALSE],
                 \A k \in DOMAIN runs : k # r => old[k] = runs[k]
          PROVE  ~IsOpen(old[i])
      <4>1. CASE i = r
        <5>1. runs[r] \in RunType
          BY <4>1 DEF Typed, TypeOK
        <5>2. old[r].status = "expired"
          BY <3>2, <5>1 DEF RunType
        <5> QED BY <4>1, <5>2 DEF IsOpen
      <4>2. CASE i # r
        BY <3>2, <4>2 DEF OneOpenPlan, OpenRuns
      <4> QED BY <4>1, <4>2
    <3> QED BY <2>1, <3>1, <3>2 DEF Behind
  <2>4. \A i \in OpenRuns' : i = Len(runs) + 1
    BY <2>2, <2>3 DEF OpenRuns, IsOpen
  <2> QED BY <2>4 DEF OneOpenPlan
<1> QED BY <1>1, <1>2, <1>3, <1>4 DEF RunsEffect

\* Scans and users may create plans of both kinds at the same time: never are two
\* of them open.
THEOREM OneOpenPlanAlways == Spec => []OneOpenPlan
<1> DEFINE Inv == Typed /\ OneOpenPlan
<1>1. Init => Inv
  <2>1. Init => OneOpenPlan
    BY DEF Init, OneOpenPlan, OpenRuns
  <2> QED BY <2>1, PlanAssumption, TypedInit
<1>2. Inv /\ [Next]_vars => Inv'
  BY PlanAssumption, TypedStep, OneOpenStep
<1>3. Inv => OneOpenPlan
  OBVIOUS
<1> QED BY <1>1, <1>2, <1>3, PTL DEF Spec

-----------------------------------------------------------------------------
(* What a plan rests on, what it booked, and whom it notifies.              *)

\* The inductive invariant of a row.  That only rebalance plans have notices is
\* what makes a plan dropped with its goal, whose notices are left alone, safe.
RowOK(x) ==
  /\ x.targets = x.av /\ x.ledger = x.pv
  /\ x.booked = IF x.status = "completed" THEN x.ledger ELSE 0
  /\ x.live => x.status = "pending" /\ x.kind = "rebalance"

RowsOK == \A r \in DOMAIN runs : RowOK(runs[r])

LEMMA RowOKKept ==
  ASSUME Typed, NEW r \in DOMAIN runs, RowOK(runs[r]),
         Touched(r) \/ MovedOn(r) \/ Dropped(r) \/ Booked(r)
  PROVE  \E x \in RunType : RowBecomes(r, x) /\ RowOK(x)
<1> DEFINE y == runs[r]
<1>1. y \in RunType /\ RowOK(y)
  BY DEF Typed, TypeOK
<1>2. CASE Touched(r)
  <2> DEFINE a == [y EXCEPT !.lapsed = TRUE]
             b == [y EXCEPT !.live = FALSE]
  <2>1. RowBecomes(r, a) \/ RowBecomes(r, b)
    BY <1>2, RowOfEffect
  <2> HIDE DEF y
  <2>2. RowOK(a) /\ RowOK(b)
    BY <1>1 DEF RowOK, RunType
  <2> HIDE DEF a, b
  <2> QED BY <2>1, <2>2 DEF RowBecomes
<1>3. CASE MovedOn(r)
  <2>1. PICK to \in {"approved", "rejected", "expired"} : runs' = Moved(r, to)
    BY <1>3 DEF MovedOn
  <2> DEFINE a == [y EXCEPT !.status = to, !.live = FALSE]
  <2>2. RowBecomes(r, a)
    BY <2>1, RowOfEffect
  <2>3. IsOpen(y)
    BY <1>3 DEF MovedOn
  <2> HIDE DEF y
  <2>4. a.status = to /\ ~a.live /\ a.booked = y.booked /\ a.ledger = y.ledger
        /\ a.pv = y.pv /\ a.targets = y.targets /\ a.av = y.av
    BY <1>1 DEF RunType
  <2> HIDE DEF a
  <2>5. RowOK(a)
    BY <1>1, <2>3, <2>4 DEF RowOK, IsOpen
  <2> QED BY <2>2, <2>5 DEF RowBecomes
<1>4. CASE Dropped(r)
  <2> DEFINE a == [y EXCEPT !.status = "expired"]
  <2>1. RowBecomes(r, a) /\ IsOpen(y) /\ y.kind = "contribution"
    BY <1>4, RowOfEffect DEF Dropped
  <2> HIDE DEF y
  <2>2. RowOK(a)
    BY <1>1, <2>1 DEF RowOK, RunType, IsOpen
  <2> HIDE DEF a
  <2> QED BY <2>1, <2>2 DEF RowBecomes
<1>5. CASE Booked(r)
  <2> DEFINE a == [y EXCEPT !.status = "completed", !.booked = portfolio.version]
  <2>1. RowBecomes(r, a)
    BY <1>5, RowOfEffect
  <2>2. y.status = "approved" /\ y.pv = portfolio.version
    BY <1>5 DEF Booked, Completable, IsCurrent, IsStale
  <2> HIDE DEF y
  <2>3. /\ a.status = "completed" /\ a.booked = portfolio.version
        /\ a.live = y.live /\ a.ledger = y.ledger
        /\ a.pv = y.pv /\ a.targets = y.targets /\ a.av = y.av
    BY <1>1 DEF RunType
  <2> HIDE DEF a
  <2>4. RowOK(a)
    BY <1>1, <2>2, <2>3 DEF RowOK
  <2> QED BY <2>1, <2>4 DEF RowBecomes
<1> QED BY <1>2, <1>3, <1>4, <1>5

\* The versions a plan records were still current when it was stored, so what
\* was read after them was read from those versions.
LEMMA NewRowOK ==
  ASSUME Typed, NEW p \in Procs, calls[p].step = "create", NothingChanged(calls[p])
  PROVE  RowOK(NewRun(calls[p]))
<1> DEFINE c == calls[p]
<1>1. c \in CallType /\ ReadsInOrder(c)
  BY CallFields
<1>2. /\ c.av \in Nat /\ c.targets \in Nat /\ c.pv \in Nat /\ c.ledger \in Nat
      /\ policy \in Nat /\ portfolio.version \in Nat
  BY <1>1 DEF CallType, Typed, TypeOK
<1>3. c.targets = c.av /\ c.ledger = c.pv
  BY <1>1, <1>2 DEF ReadsInOrder, NothingChanged
<1> QED BY <1>3 DEF NewRun, RowOK

LEMMA RowsOKStep ==
  ASSUME Typed, PlanAssumption, RowsOK, [Next]_vars
  PROVE  RowsOK'
<1>1. RunsEffect
  BY StepEffects DEF Effects
<1>2. CASE runs' = runs
  BY <1>2 DEF RowsOK, RowOK
<1>3. ASSUME NEW r \in DOMAIN runs, Touched(r) \/ MovedOn(r) \/ Dropped(r) \/ Booked(r)
      PROVE  RowsOK'
  <2>1. PICK x \in RunType : RowBecomes(r, x) /\ RowOK(x)
    BY <1>3, RowOKKept DEF RowsOK
  <2>2. \A i \in DOMAIN runs' : RowOK(runs'[i])
    BY <2>1 DEF RowBecomes, RowsOK
  <2> QED BY <2>2 DEF RowsOK, RowOK
<1>4. CASE Inserted
  <2>1. PICK p \in Procs, old \in Seq(RunType) :
          /\ calls[p].step = "create" /\ NothingChanged(calls[p])
          /\ NewRun(calls[p]) \in RunType
          /\ runs' = Append(old, NewRun(calls[p]))
          /\ DOMAIN old = DOMAIN runs /\ Len(old) = Len(runs)
          /\ Behind(old)
    BY <1>4, InsertedRow
  <2> DEFINE x == NewRun(calls[p])
  <2>2. RowOK(x)
    BY <2>1, NewRowOK
  <2> HIDE DEF x
  <2>3. /\ DOMAIN runs' = DOMAIN runs \cup {Len(runs) + 1}
        /\ \A i \in DOMAIN runs : runs'[i] = old[i]
        /\ runs'[Len(runs) + 1] = x
    BY <2>1, RowAdded DEF x
  <2>4. ASSUME NEW i \in DOMAIN runs PROVE RowOK(old[i])
    <3>1. RowOK(runs[i]) /\ runs[i] \in RunType
      BY DEF RowsOK, Typed, TypeOK
    <3>2. CASE old[i] = runs[i]
      BY <3>1, <3>2
    <3>3. CASE /\ i \in OpenRuns
               /\ old[i] = [runs[i] EXCEPT !.status = "expired", !.live = FALSE]
      <4> DEFINE y == runs[i]
                 a == [y EXCEPT !.status = "expired", !.live = FALSE]
      <4>1. IsOpen(y) /\ RowOK(y) /\ y \in RunType
        BY <3>1, <3>3 DEF OpenRuns
      <4> HIDE DEF y
      <4>2. a.status = "expired" /\ ~a.live /\ a.booked = y.booked
            /\ a.ledger = y.ledger /\ a.pv = y.pv /\ a.targets = y.targets /\ a.av = y.av
        BY <4>1 DEF RunType
      <4> HIDE DEF a
      <4>3. RowOK(a)
        BY <4>1, <4>2 DEF RowOK, IsOpen
      <4> QED BY <3>3, <4>3 DEF a, y
    <3> QED BY <2>1, <3>2, <3>3 DEF Behind
  <2>5. \A i \in DOMAIN runs' : RowOK(runs'[i])
    BY <2>2, <2>3, <2>4
  <2> QED BY <2>5 DEF RowsOK, RowOK
<1> QED BY <1>1, <1>2, <1>3, <1>4 DEF RunsEffect

LEMMA RowsAlwaysOK == Spec => [](Typed /\ RowsOK)
<1> DEFINE Inv == Typed /\ RowsOK
<1>1. Init => Inv
  <2>1. Init => RowsOK
    BY DEF Init, RowsOK
  <2> QED BY <2>1, PlanAssumption, TypedInit
<1>2. Inv /\ [Next]_vars => Inv'
  BY PlanAssumption, TypedStep, RowsOKStep
<1> QED BY <1>1, <1>2, PTL DEF Spec

\* However its reads interleave with edits, a plan that is stored was computed
\* from the targets and the ledger of the versions it records.
THEOREM PlansRestOnOneStateAlways == Spec => []PlansRestOnOneState
<1>1. Typed /\ RowsOK => PlansRestOnOneState
  BY DEF RowsOK, RowOK, PlansRestOnOneState
<1> QED BY <1>1, RowsAlwaysOK, PTL

\* Fills are booked onto the ledger the plan was computed from, and onto no other.
THEOREM FillsFollowThePlannedLedgerAlways == Spec => []FillsFollowThePlannedLedger
<1>1. Typed /\ RowsOK => FillsFollowThePlannedLedger
  BY DEF RowsOK, RowOK, FillsFollowThePlannedLedger
<1> QED BY <1>1, RowsAlwaysOK, PTL

\* No notice of a plan is sent after it was decided, expired or dropped.
THEOREM NoticesOnlyWhilePendingAlways == Spec => []NoticesOnlyWhilePending
<1>1. Typed /\ RowsOK => NoticesOnlyWhilePending
  BY DEF RowsOK, RowOK, NoticesOnlyWhilePending
<1> QED BY <1>1, RowsAlwaysOK, PTL

-----------------------------------------------------------------------------
(* Keys.                                                                    *)

LEMMA KeyStep ==
  ASSUME Typed, PlanAssumption, KeyRecordsOneEvent, [Next]_vars
  PROVE  KeyRecordsOneEvent'
<1>1. EventsEffect /\ events \in Seq(EventType)
  BY StepEffects DEF Effects, Typed, TypeOK
<1> DEFINE Once(s) == \A i, j \in DOMAIN s :
                        s[i].key # NoKey /\ s[i].key = s[j].key => i = j
<1>2. ASSUME NEW s \in Seq(EventType), NEW e \in EventType, Once(s),
             e.key = NoKey \/ \A i \in DOMAIN s : s[i].key # e.key
      PROVE  Once(Append(s, e))
  BY <1>2, RowAdded
<1>3. CASE events' = events
  BY <1>3 DEF KeyRecordsOneEvent
<1>4. CASE \E e \in EventType : Recordable(e) /\ events' = Append(events, e)
  <2>1. PICK e \in EventType : Recordable(e) /\ events' = Append(events, e)
    BY <1>4
  <2>2. e.key = NoKey \/ \A i \in DOMAIN events : events[i].key # e.key
    BY <2>1 DEF Recordable, KeyedEvents
  <2>3. Once(events)
    BY DEF KeyRecordsOneEvent
  <2> HIDE DEF Once
  <2>4. Once(events')
    BY <1>1, <1>2, <2>1, <2>2, <2>3
  <2> QED BY <2>4 DEF KeyRecordsOneEvent, Once
<1>5. CASE \E x, e \in EventType :
             /\ Recordable(x) /\ x.key = NoKey /\ Recordable(e)
             /\ events' = Append(Append(events, x), e)
  <2>1. PICK x \in EventType, e \in EventType :
          /\ x.key = NoKey /\ Recordable(e)
          /\ events' = Append(Append(events, x), e)
    BY <1>5
  <2> DEFINE s == Append(events, x)
  <2>2. s \in Seq(EventType)
        /\ (e.key = NoKey \/ \A i \in DOMAIN s : s[i].key # e.key)
    <3>1. e.key = NoKey \/ \A i \in DOMAIN events : events[i].key # e.key
      BY <2>1 DEF Recordable, KeyedEvents
    <3> QED BY <1>1, <2>1, <3>1, RowAdded
  <2>3. Once(events)
    BY DEF KeyRecordsOneEvent
  <2> HIDE DEF Once
  <2>4. Once(s)
    BY <1>1, <1>2, <2>1, <2>3
  <2>5. events' = Append(s, e)
    BY <2>1
  <2> HIDE DEF s
  <2>6. Once(events')
    BY <1>2, <2>2, <2>4, <2>5
  <2> QED BY <2>6 DEF KeyRecordsOneEvent, Once
<1> QED BY <1>1, <1>3, <1>4, <1>5 DEF EventsEffect

\* Whatever is sent twice, and whichever kind of plan it is sent for, one key
\* has at most one effect.
THEOREM KeyRecordsOneEventAlways == Spec => []KeyRecordsOneEvent
<1> DEFINE Inv == Typed /\ KeyRecordsOneEvent
<1>1. Init => Inv
  <2>1. Init => KeyRecordsOneEvent
    BY DEF Init, KeyRecordsOneEvent
  <2> QED BY <2>1, PlanAssumption, TypedInit
<1>2. Inv /\ [Next]_vars => Inv'
  BY PlanAssumption, TypedStep, KeyStep
<1>3. Inv => KeyRecordsOneEvent
  OBVIOUS
<1> QED BY <1>1, <1>2, <1>3, PTL DEF Spec

-----------------------------------------------------------------------------
(* The trail of a plan.                                                      *)

About(es, r) == {i \in DOMAIN es : es[i].run = r}

Adjoining(es, r, i, j) == i < j /\ \A k \in About(es, r) : k <= i \/ j <= k

\* The events of a plan tell its life up to its status.
Trail(es, r, status) ==
  /\ About(es, r) # {}
  /\ \A j \in About(es, r) :
       /\ (\A i \in About(es, r) : j <= i) => es[j].from = "none"
       /\ (\A i \in About(es, r) : i <= j) => es[j].to = status
       /\ \A i \in About(es, r) : Adjoining(es, r, i, j) => es[j].from = es[i].to

Trails(es, rs) == \A r \in DOMAIN rs : Trail(es, r, rs[r].status)

AddedEvent(es, e, r, fs) ==
  /\ fs \in Seq(EventType) /\ fs[Len(es) + 1] = e
  /\ \A i \in About(es, r) : i \in Nat /\ i < Len(es) + 1 /\ fs[i] = es[i]
  /\ About(fs, r) = IF e.run = r THEN About(es, r) \cup {Len(es) + 1} ELSE About(es, r)

LEMMA AboutAdded ==
  ASSUME NEW es \in Seq(EventType), NEW e \in EventType, NEW r
  PROVE  AddedEvent(es, e, r, Append(es, e))
<1>1. /\ Append(es, e) \in Seq(EventType) /\ Append(es, e)[Len(es) + 1] = e
      /\ DOMAIN Append(es, e) = DOMAIN es \cup {Len(es) + 1} /\ Len(es) + 1 \notin DOMAIN es
      /\ \A i \in DOMAIN es : Append(es, e)[i] = es[i]
  BY RowAdded
<1>2. \A i \in DOMAIN es : i \in Nat /\ i < Len(es) + 1
  OBVIOUS
<1>. DEFINE fs == Append(es, e)
<1>. HIDE DEF fs
<1>3. About(fs, r) = IF e.run = r THEN About(es, r) \cup {Len(es) + 1} ELSE About(es, r)
  BY <1>1 DEF About, fs
<1>4. /\ fs \in Seq(EventType) /\ fs[Len(es) + 1] = e
      /\ \A i \in About(es, r) : i \in Nat /\ i < Len(es) + 1 /\ fs[i] = es[i]
  BY <1>1, <1>2 DEF About, fs
<1>5. AddedEvent(es, e, r, fs)
  BY <1>3, <1>4 DEF AddedEvent
<1>. QED  BY <1>5 DEF fs

\* An event of another plan changes nothing.
LEMMA TrailUnmoved ==
  ASSUME NEW es \in Seq(EventType), NEW e \in EventType, NEW r, e.run # r, NEW status, Trail(es, r, status)
  PROVE  Trail(Append(es, e), r, status)
<1>. DEFINE fs == Append(es, e)
<1>1. About(fs, r) = About(es, r) /\ \A i \in About(es, r) : fs[i] = es[i]
  <2>1. AddedEvent(es, e, r, fs)
    BY AboutAdded
  <2>. HIDE DEF fs
  <2>. QED  BY <2>1 DEF AddedEvent
<1>. HIDE DEF fs
<1>2. Trail(fs, r, status)
  BY <1>1 DEF Trail, Adjoining
<1>. QED  BY <1>2 DEF fs

\* An event that starts where the trail ended makes it longer.
LEMMA TrailExtended ==
  ASSUME NEW es \in Seq(EventType), NEW e \in EventType, NEW r, e.run = r, Trail(es, r, e.from)
  PROVE  Trail(Append(es, e), r, e.to)
<1>. DEFINE fs == Append(es, e)
            n == Len(es) + 1
            old == About(es, r)
<1>1. /\ About(fs, r) = old \cup {n} /\ fs[n] = e /\ n \in Nat
      /\ \A i \in old : i \in Nat /\ i < n /\ fs[i] = es[i]
  <2>1. AddedEvent(es, e, r, fs)
    BY AboutAdded
  <2>2. n \in Nat
    OBVIOUS
  <2>. HIDE DEF fs
  <2>. QED  BY <2>1, <2>2 DEF AddedEvent
<1>2. old # {}
  BY DEF Trail
<1>. HIDE DEF fs, n, old
<1>3. ASSUME NEW j \in old
      PROVE  /\ (\A i \in old : j <= i) => fs[j].from = "none"
             /\ ~ \A i \in old \cup {n} : i <= j
             /\ \A i \in old : i < j /\ (\A k \in old : k <= i \/ j <= k) => fs[j].from = fs[i].to
  <2>1. fs[j] = es[j] /\ j < n /\ j \in Nat
    BY <1>1
  <2>2. \A i \in old : i < j /\ (\A k \in old : k <= i \/ j <= k) => es[j].from = es[i].to
    BY DEF Trail, Adjoining, old
  <2>3. (\A i \in old : j <= i) => es[j].from = "none"
    BY DEF Trail, old
  <2>4. (\A i \in old : j <= i) => fs[j].from = "none"
    BY <2>1, <2>3
  <2>5. ~ \A i \in old \cup {n} : i <= j
    BY <1>1, <2>1
  <2>6. ASSUME NEW i \in old, i < j, \A k \in old : k <= i \/ j <= k PROVE fs[j].from = fs[i].to
    <3>1. fs[i] = es[i]
      BY <1>1
    <3>. QED  BY <2>1, <2>2, <2>6, <3>1
  <2>. QED  BY <2>4, <2>5, <2>6
<1>4. /\ ~ \A i \in old \cup {n} : n <= i
      /\ \A i \in old : (\A k \in old \cup {n} : k <= i \/ n <= k) => e.from = fs[i].to
  <2>1. \A i \in old : (\A k \in old : k <= i) => es[i].to = e.from
    BY DEF Trail, old
  <2>2. ASSUME NEW i \in old, \A k \in old \cup {n} : k <= i \/ n <= k PROVE \A k \in old : k <= i
    BY <1>1, <2>2
  <2>3. ASSUME NEW i \in old, \A k \in old \cup {n} : k <= i \/ n <= k PROVE e.from = fs[i].to
    <3>1. fs[i] = es[i]
      BY <1>1
    <3>. QED  BY <2>1, <2>2, <2>3, <3>1
  <2>4. ~ \A i \in old \cup {n} : n <= i
    <3>1. PICK i \in old : TRUE
      BY <1>2
    <3>. QED  BY <1>1, <3>1
  <2>. QED  BY <2>3, <2>4
<1>5. ASSUME NEW j \in old \cup {n}
      PROVE  /\ (\A i \in old \cup {n} : j <= i) => fs[j].from = "none"
             /\ (\A i \in old \cup {n} : i <= j) => fs[j].to = e.to
             /\ \A i \in old \cup {n} : Adjoining(fs, r, i, j) => fs[j].from = fs[i].to
  <2>1. CASE j \in old
    <3>1. ~ n < j
      BY <1>1, <2>1
    <3>. QED  BY <1>1, <1>3, <2>1, <3>1 DEF Adjoining
  <2>2. CASE j = n
    <3>1. ~ n < n
      BY <1>1
    <3>. QED  BY <1>1, <1>4, <2>2, <3>1 DEF Adjoining
  <2>. QED  BY <2>1, <2>2
<1>6. Trail(fs, r, e.to)
  BY <1>1, <1>5 DEF Trail
<1>. QED  BY <1>6 DEF fs

\* The first event of a plan.
LEMMA TrailStarted ==
  ASSUME NEW es \in Seq(EventType), NEW e \in EventType, NEW r, e.run = r, About(es, r) = {}, e.from = "none"
  PROVE  Trail(Append(es, e), r, e.to)
<1>. DEFINE fs == Append(es, e)
            n == Len(es) + 1
<1>1. About(fs, r) = {n} /\ fs[n] = e /\ n \in Nat
  <2>1. AddedEvent(es, e, r, fs)
    BY AboutAdded
  <2>2. n \in Nat
    OBVIOUS
  <2>. HIDE DEF fs
  <2>. QED  BY <2>1, <2>2 DEF AddedEvent
<1>. HIDE DEF fs, n
<1>2. \A i, j \in {n} : ~ Adjoining(fs, r, i, j)
  BY <1>1 DEF Adjoining
<1>3. Trail(fs, r, e.to)
  BY <1>1, <1>2 DEF Trail
<1>. QED  BY <1>3 DEF fs

\* The step of one plan, and the event that tells it.
Recorded(rs, r, e, new) ==
  /\ r \in DOMAIN rs /\ DOMAIN new = DOMAIN rs /\ e \in EventType
  /\ e.run = r /\ e.from = rs[r].status /\ new[r].status = e.to
  /\ \A i \in DOMAIN rs : i # r => new[i].status = rs[i].status

SameStatus(rs, new) == DOMAIN new = DOMAIN rs /\ \A i \in DOMAIN rs : new[i].status = rs[i].status

LEMMA TrailsRest ==
  ASSUME NEW es, NEW rs, NEW new, Trails(es, rs), SameStatus(rs, new)
  PROVE  Trails(es, new)
BY DEF Trails, SameStatus

LEMMA TrailsMoved ==
  ASSUME NEW es \in Seq(EventType), NEW rs, NEW r, NEW e, NEW new, Trails(es, rs), Recorded(rs, r, e, new)
  PROVE  Trails(Append(es, e), new)
<1>1. ASSUME NEW i \in DOMAIN new PROVE Trail(Append(es, e), i, new[i].status)
  <2>1. i \in DOMAIN rs /\ e \in EventType /\ Trail(es, i, rs[i].status)
    BY DEF Recorded, Trails
  <2>2. CASE i = r
    <3>1. e.run = i /\ e.from = rs[i].status /\ new[i].status = e.to
      BY <2>2 DEF Recorded
    <3>. QED  BY <2>1, <3>1, TrailExtended
  <2>3. CASE i # r
    <3>1. e.run # i /\ new[i].status = rs[i].status
      BY <2>1, <2>3 DEF Recorded
    <3>. QED  BY <2>1, <3>1, TrailUnmoved
  <2>. QED  BY <2>2, <2>3
<1>. QED  BY <1>1 DEF Trails

\* A plan more, with its first event.
LEMMA TrailsInserted ==
  ASSUME NEW es \in Seq(EventType), NEW rs \in Seq(RunType), NEW x \in RunType, NEW e \in EventType,
         Trails(es, rs), \A i \in DOMAIN es : es[i].run \in DOMAIN rs,
         e.run = Len(rs) + 1, e.from = "none", e.to = x.status
  PROVE  Trails(Append(es, e), Append(rs, x))
<1>. DEFINE n == Len(rs) + 1
            new == Append(rs, x)
<1>1. DOMAIN new = DOMAIN rs \cup {n} /\ n \notin DOMAIN rs /\ new[n] = x /\ \A i \in DOMAIN rs : new[i] = rs[i]
  BY RowAdded
<1>. HIDE DEF new, n
<1>2. About(es, n) = {}
  BY <1>1 DEF About
<1>3. e.run = n
  BY DEF n
<1>4. ASSUME NEW i \in DOMAIN rs PROVE Trail(Append(es, e), i, new[i].status)
  <2>1. Trail(es, i, rs[i].status) /\ e.run # i /\ new[i] = rs[i]
    BY <1>1, <1>3 DEF Trails
  <2>. QED  BY <2>1, TrailUnmoved
<1>5. Trail(Append(es, e), n, x.status)
  BY <1>2, <1>3, TrailStarted
<1>. QED  BY <1>1, <1>4, <1>5 DEF Trails, new

\* A step leaves the trail alone, adds to it what it did to one plan, or inserts.
TrailEffect ==
  \/ events' = events /\ SameStatus(runs, runs')
  \/ \E r \in DOMAIN runs, e \in EventType :
       events' = Append(events, e) /\ Recorded(runs, r, e, runs')
  \/ \E p \in Procs : calls[p].step = "create" /\ InsertRun(calls[p])

LEMMA StatusRecorded ==
  ASSUME Typed, NEW r \in DOMAIN runs, NEW x \in RunType, RowBecomes(r, x),
         NEW name \in EventNames, NEW from \in Statuses, from = runs[r].status,
         NEW key \in AllKeys \cup {NoKey}, NEW request \in RequestType,
         events' = Append(events, Event(r, name, from, x.status, key, request))
  PROVE  TrailEffect
<1>. DEFINE e == Event(r, name, from, x.status, key, request)
<1>1. r \in Nat /\ x.status \in Statuses
  <2>1. runs \in Seq(RunType)
    BY DEF Typed, TypeOK
  <2>2. r \in Nat
    BY <2>1
  <2>3. x.status \in Statuses
    BY DEF RunType
  <2>. QED  BY <2>2, <2>3
<1>2. e \in EventType
  BY <1>1, EventFields
<1>3. e.run = r /\ e.from = from /\ e.to = x.status
  BY DEF Event
<1>. HIDE DEF e
<1>4. Recorded(runs, r, e, runs')
  BY <1>2, <1>3 DEF Recorded, RowBecomes
<1>5. events' = Append(events, e)
  BY DEF e
<1>. QED  BY <1>2, <1>4, <1>5 DEF TrailEffect

LEMMA StatusBefore ==
  ASSUME Typed, NEW r \in DOMAIN runs
  PROVE  runs[r] \in RunType /\ runs[r].status \in Statuses
<1>1. runs[r] \in RunType
  BY DEF Typed, TypeOK
<1>. QED  BY <1>1 DEF RunType

LEMMA RowMoved ==
  ASSUME Typed, NEW r \in DOMAIN runs, NEW to \in {"approved", "rejected", "expired"},
         runs' = Moved(r, to) \/ (to = "expired" /\ Dropped(r))
  PROVE  \E x \in RunType : RowBecomes(r, x) /\ x.status = to
<1>1. runs[r] \in RunType
  BY StatusBefore
<1>. DEFINE x == [runs[r] EXCEPT !.status = to, !.live = FALSE]
            y == [runs[r] EXCEPT !.status = "expired"]
<1>2. x.status = to /\ y.status = "expired"
  BY <1>1 DEF RunType
<1>3. RowBecomes(r, x) \/ (to = "expired" /\ RowBecomes(r, y))
  BY RowOfEffect
<1>. HIDE DEF x, y
<1>. QED  BY <1>2, <1>3 DEF RowBecomes

LEMMA TransitionRecorded ==
  ASSUME Typed, NEW p \in Procs, NEW r \in DOMAIN runs,
         NEW to \in {"approved", "rejected", "expired"}, Transition(p, r, to)
  PROVE  TrailEffect
<1>1. PICK x \in RunType : RowBecomes(r, x) /\ x.status = to
  BY RowMoved DEF Transition
<1>2. events' = Append(events, Event(r, to, runs[r].status, x.status, calls[p].key,
                                     calls[p].request))
  BY <1>1 DEF Transition
<1>3. to \in EventNames
  BY DEF EventNames, Statuses
<1>. QED  BY <1>1, <1>2, <1>3, StatusBefore, CallFields, StatusRecorded

LEMMA ExpiryRecorded ==
  ASSUME Typed, NEW r \in DOMAIN runs, runs' = Moved(r, "expired") \/ Dropped(r),
         events' = Append(events, SystemExpiry(r))
  PROVE  TrailEffect
<1>1. PICK x \in RunType : RowBecomes(r, x) /\ x.status = "expired"
  BY RowMoved
<1>2. events' = Append(events, Event(r, "expired", runs[r].status, x.status, NoKey, NoRequest))
  BY <1>1 DEF SystemExpiry
<1>3. "expired" \in EventNames
  BY DEF EventNames, Statuses
<1>. QED  BY <1>1, <1>2, <1>3, StatusBefore, NoRequestTyped, StatusRecorded

LEMMA GoalRecorded ==
  ASSUME Typed, ExpirePlanOfGoal
  PROVE  TrailEffect
<1>1. CASE UNCHANGED <<runs, events>>
  BY <1>1 DEF TrailEffect, SameStatus
<1>2. ASSUME NEW r \in OpenRuns, runs[r].kind = "contribution",
             runs' = [runs EXCEPT ![r].status = "expired"],
             events' = Append(events, SystemExpiry(r))
      PROVE  TrailEffect
  BY <1>2, ExpiryRecorded DEF OpenRuns, Dropped
<1>. QED  BY <1>1, <1>2 DEF ExpirePlanOfGoal

LEMMA CompletionRecorded ==
  ASSUME Typed, NEW p \in Procs, Complete(p)
  PROVE  TrailEffect
<1>. DEFINE c == calls[p]
            r == c.request.run
            x == [runs[r] EXCEPT !.status = "completed", !.booked = portfolio.version]
<1>1. /\ c.step = "completed" /\ Booked(r) /\ runs[r].status = "approved"
      /\ events' = Append(events, Event(r, "completed", "approved", "completed",
                                        c.key, c.request))
  BY DEF Complete, Booked, Completable
<1>2. r \in DOMAIN runs /\ c.request \in RequestType /\ c.key \in AllKeys \cup {NoKey}
  BY <1>1, CallFields DEF CallOK, Deciding
<1>3. RowBecomes(r, x)
  BY <1>1, <1>2, RowOfEffect
<1>4. x \in RunType
  BY <1>3 DEF RowBecomes
<1>5. x.status = "completed"
  BY <1>2, StatusBefore DEF RunType
<1>6. "completed" \in EventNames /\ "approved" \in Statuses
  BY DEF EventNames, Statuses
<1>7. events' = Append(events, Event(r, "completed", "approved", x.status, c.key, c.request))
  BY <1>1, <1>5
<1>. HIDE DEF x, r, c
<1>. QED  BY <1>1, <1>2, <1>3, <1>4, <1>6, <1>7, StatusRecorded

\* Only a completed plan has transactions that can be reversed.
LEMMA ReversalRecorded ==
  ASSUME Typed, RowsOK, NEW r \in DOMAIN runs, ReverseExecution(r)
  PROVE  TrailEffect
<1>1. runs[r] \in RunType /\ runs[r].booked > 0 /\ RowOK(runs[r]) /\ runs' = runs
  BY StatusBefore DEF ReverseExecution, RowsOK
<1>2. runs[r].status = "completed"
  BY <1>1 DEF RowOK
<1>3. RowBecomes(r, runs[r])
  BY <1>1 DEF RowBecomes, Typed, TypeOK
<1>4. events' = Append(events, Event(r, "execution_reversed", "completed", runs[r].status,
                                     NoKey, NoRequest))
  BY <1>2 DEF ReverseExecution
<1>5. "execution_reversed" \in EventNames /\ "completed" \in Statuses
  BY DEF EventNames, Statuses
<1>. QED  BY <1>1, <1>2, <1>3, <1>4, <1>5, NoRequestTyped, StatusRecorded

LEMMA TouchRests ==
  ASSUME Typed, NEW r \in DOMAIN runs, Touched(r), events' = events
  PROVE  TrailEffect
<1>. DEFINE x == [runs[r] EXCEPT !.lapsed = TRUE]
            y == [runs[r] EXCEPT !.live = FALSE]
<1>1. x.status = runs[r].status /\ y.status = runs[r].status
  BY StatusBefore DEF RunType
<1>2. RowBecomes(r, x) \/ RowBecomes(r, y)
  BY RowOfEffect
<1>. HIDE DEF x, y
<1>3. SameStatus(runs, runs')
  BY <1>1, <1>2 DEF RowBecomes, SameStatus
<1>. QED  BY <1>3 DEF TrailEffect

LEMMA StepRecorded ==
  ASSUME Typed, RowsOK, [Next]_vars
  PROVE  TrailEffect
<1>1. CASE UNCHANGED <<runs, events>>
  BY <1>1 DEF TrailEffect, SameStatus
<1>2. ASSUME NEW p \in Procs, Generate(p) PROVE TrailEffect
  <2>1. CASE CreateRebalance(p) \/ CreateContribution(p)
    BY <1>1, <2>1 DEF CreateRebalance, CreateContribution, TrailEffect
  <2>2. CASE CompleteFundedGoal(p)
    BY <1>1, <2>2, GoalRecorded DEF CompleteFundedGoal, MoveGoal
  <2>3. CASE BeginRebalance(p) \/ BeginContribution(p)
    BY <1>1, <2>3 DEF BeginRebalance, BeginContribution, Begin
  <2>4. CASE ReadPolicy(p) \/ ReadTargets(p) \/ ReadPortfolio(p) \/ ReadLedger(p)
    BY <1>1, <2>4 DEF ReadPolicy, ReadTargets, ReadPortfolio, ReadLedger, Advance
  <2>. QED  BY <1>2, <2>1, <2>2, <2>3, <2>4 DEF Generate
<1>3. ASSUME NEW p \in Procs, Decide(p) PROVE TrailEffect
  <2>. DEFINE r == calls[p].request.run
  <2>1. CallOK(calls[p])
    BY CallFields
  <2>2. CASE BeginDecision(p) \/ Assess(p)
    BY <1>1, <2>2 DEF BeginDecision, Begin, Assess, Advance
  <2>3. CASE Approve(p) \/ Reject(p) \/ Expire(p)
    <3>1. PICK to \in {"approved", "rejected", "expired"} : Transition(p, r, to)
      BY <2>3 DEF Approve, Reject, Expire
    <3>2. r \in DOMAIN runs
      BY <2>1, <2>3 DEF CallOK, Deciding, Approve, Reject, Expire
    <3>. QED  BY <3>1, <3>2, TransitionRecorded
  <2>4. CASE Complete(p)
    BY <2>4, CompletionRecorded
  <2>. QED  BY <1>3, <2>2, <2>3, <2>4 DEF Decide
<1>4. ASSUME OwnerEdits PROVE TrailEffect
  <2>1. CASE \E next \in 1..MaxCycle : SaveGoal(next)
    BY <1>1, <2>1, GoalRecorded DEF SaveGoal
  <2>2. CASE TransitionGoal
    BY <1>1, <2>2, GoalRecorded DEF TransitionGoal, MoveGoal
  <2>3. CASE WriteLedger \/ SetStatus \/ ReplacePolicy
    BY <1>1, <2>3 DEF WriteLedger, SetStatus, ReplacePolicy
  <2>. QED  BY <1>4, <2>1, <2>2, <2>3, ReversalRecorded DEF OwnerEdits
<1>5. ASSUME NEW r \in DOMAIN runs, Lapse(r) \/ Notified(r) PROVE TrailEffect
  BY <1>5, TouchRests DEF Lapse, Notified, Touched
<1>6. CASE Sweep
  BY <1>6, ExpiryRecorded DEF Sweep, OpenRuns
<1>7. CASE UNCHANGED vars
  BY <1>1, <1>7 DEF vars
<1>8. ASSUME NEW p \in Procs, Abandon(p) PROVE TrailEffect
  BY <1>1, <1>8 DEF Abandon
<1>. QED  BY <1>2, <1>3, <1>4, <1>5, <1>6, <1>7, <1>8 DEF Next

LEMMA InsertedTrails ==
  ASSUME Typed, PlanAssumption, Trails(events, runs), NEW p \in Procs,
         calls[p].step = "create", InsertRun(calls[p])
  PROVE  Trails(events', runs')
<1>. DEFINE c == calls[p]
            n == Len(runs) + 1
            x == NewRun(c)
            e == CreatedEvent(c, n)
<1>1. /\ c \in CallType /\ c.request \in RequestType /\ c.key \in AllKeys \cup {NoKey}
      /\ c.kind \in Kinds /\ c.request.source \in {"manual", "scheduled"}
  BY CallFields DEF CallOK, Reading
<1>2. x \in RunType /\ x.status = "pending"
  BY <1>1, NewRunTyped DEF PlanAssumption, NewRun
<1>3. /\ runs \in Seq(RunType) /\ events \in Seq(EventType)
      /\ \A i \in DOMAIN events : events[i].run \in DOMAIN runs
  BY DEF Typed, TypeOK
<1>4. e \in EventType /\ e.run = n /\ e.from = "none" /\ e.to = "pending"
  <2>1. n \in Nat
    BY <1>3
  <2>. HIDE DEF n, c
  <2>2. e \in EventType
    BY <1>1, <2>1, EventFields DEF CreatedEvent, EventNames, Statuses
  <2>. QED  BY <2>2 DEF CreatedEvent, Event
<1>5. CASE runs' = Append(runs, x) /\ events' = Append(events, e)
  <2>1. e.run = Len(runs) + 1
    BY <1>4
  <2>. HIDE DEF x, e, n
  <2>. QED  BY <1>2, <1>3, <1>4, <1>5, <2>1, TrailsInserted
<1>6. ASSUME NEW r \in OpenRuns,
             runs' = Append(Moved(r, "expired"), x),
             events' = events \o <<SystemExpiry(r), e>>
      PROVE  Trails(events', runs')
  <2>. DEFINE old == Moved(r, "expired")
              d == SystemExpiry(r)
              mid == Append(events, d)
  <2>1. r \in DOMAIN runs /\ runs[r] \in RunType
    BY StatusBefore DEF OpenRuns
  <2>2. /\ old \in Seq(RunType) /\ Len(old) = Len(runs) /\ DOMAIN old = DOMAIN runs
        /\ old[r] = [runs[r] EXCEPT !.status = "expired", !.live = FALSE]
        /\ \A i \in DOMAIN runs : i # r => old[i] = runs[i]
    <3>1. "expired" \in Statuses
      BY DEF Statuses
    <3>. QED  BY <1>3, <2>1, <3>1, RunMoved
  <2>3. old[r].status = "expired"
    BY <2>1, <2>2 DEF RunType
  <2>4. d \in EventType /\ d.run = r /\ d.from = runs[r].status /\ d.to = "expired"
    BY <2>1, SystemExpiryTyped DEF SystemExpiry, Event
  <2>5. events' = Append(mid, e)
    <3>. HIDE DEF d, e
    <3>. QED  BY <1>3, <1>4, <1>6, <2>4, TwoRowsAdded DEF d
  <2>6. Recorded(runs, r, d, old)
    <3>. HIDE DEF d, old
    <3>. QED  BY <2>1, <2>2, <2>3, <2>4 DEF Recorded
  <2>7. Trails(mid, old)
    <3>. HIDE DEF d, old
    <3>. QED  BY <1>3, <2>6, TrailsMoved
  <2>8. mid \in Seq(EventType) /\ \A i \in DOMAIN mid : mid[i].run \in DOMAIN old
    <3>. HIDE DEF d, old
    <3>1. /\ mid \in Seq(EventType) /\ DOMAIN mid = DOMAIN events \cup {Len(events) + 1}
          /\ mid[Len(events) + 1] = d /\ \A i \in DOMAIN events : mid[i] = events[i]
      BY <1>3, <2>4, RowAdded
    <3>. HIDE DEF mid
    <3>. QED  BY <1>3, <2>1, <2>2, <2>4, <3>1
  <2>9. e.run = Len(old) + 1
    BY <1>4, <2>2
  <2>10. runs' = Append(old, x)
    BY <1>6
  <2>. HIDE DEF old, d, mid, x, e, n, c
  <2>. QED  BY <1>2, <1>4, <2>2, <2>5, <2>7, <2>8, <2>9, <2>10, TrailsInserted
<1>. QED  BY <1>5, <1>6 DEF InsertRun

LEMMA TrailsStep ==
  ASSUME Typed, PlanAssumption, RowsOK, Trails(events, runs), [Next]_vars
  PROVE  Trails(events, runs)'
<1>1. TrailEffect
  BY StepRecorded
<1>2. events \in Seq(EventType)
  BY DEF Typed, TypeOK
<1>3. Trails(events', runs')
  BY <1>1, <1>2, TrailsRest, TrailsMoved, InsertedTrails DEF TrailEffect
<1>. QED  BY <1>3

LEMMA TrailsTell == Trails(events, runs) <=> AuditTellsStatus
<1>1. \A r : EventsOf(r) = About(events, r)
  BY DEF EventsOf, About
<1>2. ASSUME NEW r, NEW i \in About(events, r), NEW j
      PROVE  Consecutive(i, j) <=> Adjoining(events, r, i, j)
  BY <1>1, <1>2 DEF Consecutive, Adjoining, About
<1>. QED  BY <1>1, <1>2 DEF Trails, Trail, AuditTellsStatus

-----------------------------------------------------------------------------
(* The plan and its goal.                                                   *)

\* Plans that are open after a step were open before it, for the same goal.
OpenKept ==
  \A i \in OpenRuns' :
    /\ i \in OpenRuns
    /\ runs'[i].kind = runs[i].kind /\ runs'[i].goal = runs[i].goal /\ runs'[i].gv = runs[i].gv

GoalKept == goal'.id = goal.id /\ goal'.status = goal.status /\ goal'.version = goal.version

NoContributionOpen == \A r \in OpenRuns : runs[r].kind # "contribution"

GoalAndPlan ==
  \/ GoalKept /\ OpenKept
  \/ NoContributionOpen'
  \/ \E p \in Procs :
       /\ GoalKept /\ calls[p].step = "create" /\ InsertRun(calls[p])
       /\ calls[p].kind = "contribution" => GoalUnchanged(calls[p])

LEMMA OpenRowKept ==
  ASSUME Typed, NEW r \in DOMAIN runs,
         Touched(r) \/ MovedOn(r) \/ Dropped(r) \/ Booked(r)
  PROVE  OpenKept
<1>1. OpenRuns' \subseteq OpenRuns
  BY OpenShrinks
<1>2. runs[r] \in RunType
  BY StatusBefore
<1>3. PICK x \in RunType : /\ RowBecomes(r, x)
                           /\ x.kind = runs[r].kind /\ x.goal = runs[r].goal /\ x.gv = runs[r].gv
  <2>. DEFINE y == runs[r]
              same(z) == z.kind = y.kind /\ z.goal = y.goal /\ z.gv = y.gv
  <2>1. CASE Touched(r)
    <3>. DEFINE a == [y EXCEPT !.lapsed = TRUE]
                b == [y EXCEPT !.live = FALSE]
    <3>1. RowBecomes(r, a) \/ RowBecomes(r, b)
      BY <2>1, RowOfEffect
    <3>2. same(a) /\ same(b)
      BY <1>2 DEF RunType
    <3>. HIDE DEF a, b, y
    <3>. QED  BY <3>1, <3>2 DEF RowBecomes, y
  <2>2. CASE MovedOn(r)
    <3>1. PICK to \in {"approved", "rejected", "expired"} : runs' = Moved(r, to)
      BY <2>2 DEF MovedOn
    <3>. DEFINE a == [y EXCEPT !.status = to, !.live = FALSE]
    <3>2. RowBecomes(r, a)
      BY <3>1, RowOfEffect
    <3>3. same(a)
      BY <1>2 DEF RunType
    <3>. HIDE DEF a, y
    <3>. QED  BY <3>2, <3>3 DEF RowBecomes, y
  <2>3. CASE Dropped(r)
    <3>. DEFINE a == [y EXCEPT !.status = "expired"]
    <3>1. RowBecomes(r, a)
      BY <2>3, RowOfEffect
    <3>2. same(a)
      BY <1>2 DEF RunType
    <3>. HIDE DEF a, y
    <3>. QED  BY <3>1, <3>2 DEF RowBecomes, y
  <2>4. CASE Booked(r)
    <3>. DEFINE a == [y EXCEPT !.status = "completed", !.booked = portfolio.version]
    <3>1. RowBecomes(r, a)
      BY <2>4, RowOfEffect
    <3>2. same(a)
      BY <1>2 DEF RunType
    <3>. HIDE DEF a, y
    <3>. QED  BY <3>1, <3>2 DEF RowBecomes, y
  <2>. QED  BY <2>1, <2>2, <2>3, <2>4
<1>4. ASSUME NEW i \in OpenRuns
      PROVE  runs'[i].kind = runs[i].kind /\ runs'[i].goal = runs[i].goal /\ runs'[i].gv = runs[i].gv
  BY <1>3 DEF RowBecomes, OpenRuns
<1>. QED  BY <1>1, <1>4 DEF OpenKept

LEMMA RestKeepsGoal ==
  ASSUME runs' = runs, goal' = goal
  PROVE  GoalAndPlan
BY DEF GoalAndPlan, GoalKept, OpenKept, OpenRuns

LEMMA MoveKeepsGoal ==
  ASSUME Typed, NEW r \in DOMAIN runs, goal' = goal,
         Touched(r) \/ MovedOn(r) \/ Dropped(r) \/ Booked(r)
  PROVE  GoalAndPlan
<1>1. OpenKept
  BY OpenRowKept
<1>. QED  BY <1>1 DEF GoalAndPlan, GoalKept

\* The one open plan, if it is the goal's, goes with it.
LEMMA GoalTakesItsPlan ==
  ASSUME Typed, OneOpenPlan, PlanFollowsGoal, ExpirePlanOfGoal
  PROVE  NoContributionOpen'
<1>1. CASE {r \in OpenRuns : runs[r].kind = "contribution" /\ runs[r].goal = goal.id} = {}
           /\ runs' = runs
  BY <1>1 DEF PlanFollowsGoal, NoContributionOpen, OpenRuns
<1>2. ASSUME NEW r \in OpenRuns, runs[r].kind = "contribution",
             runs' = [runs EXCEPT ![r].status = "expired"]
      PROVE  NoContributionOpen'
  <2>1. r \in DOMAIN runs /\ Dropped(r) /\ runs[r] \in RunType
    BY <1>2, StatusBefore DEF OpenRuns, Dropped
  <2>. DEFINE x == [runs[r] EXCEPT !.status = "expired"]
  <2>2. RowBecomes(r, x)
    BY <2>1, RowOfEffect
  <2>3. x.status = "expired"
    BY <2>1 DEF RunType
  <2>4. OpenRuns' \subseteq OpenRuns
    BY <2>1, OpenShrinks
  <2>. HIDE DEF x
  <2>5. r \notin OpenRuns'
    BY <2>2, <2>3 DEF OpenRuns, IsOpen, RowBecomes
  <2>6. OpenRuns' = {}
    BY <2>4, <2>5 DEF OneOpenPlan
  <2>. QED  BY <2>6 DEF NoContributionOpen
<1>. QED  BY <1>1, <1>2 DEF ExpirePlanOfGoal

LEMMA MovedGoal ==
  ASSUME Typed, OneOpenPlan, PlanFollowsGoal, NEW status \in GoalStatuses, MoveGoal(status)
  PROVE  NoContributionOpen'
<1>1. CASE status = "active"
  <2>1. goal.status = "paused" /\ runs' = runs
    BY <1>1 DEF MoveGoal, GoalMoves
  <2>. QED  BY <2>1 DEF PlanFollowsGoal, NoContributionOpen, OpenRuns
<1>2. CASE status # "active"
  BY <1>2, GoalTakesItsPlan DEF MoveGoal
<1>. QED  BY <1>1, <1>2

LEMMA SavedGoal ==
  ASSUME Typed, OneOpenPlan, PlanFollowsGoal, NEW next, SaveGoal(next)
  PROVE  NoContributionOpen'
<1>1. CASE ExpirePlanOfGoal
  BY <1>1, GoalTakesItsPlan
<1>2. CASE goal.status \notin {"active", "paused"} /\ runs' = runs
  BY <1>2 DEF PlanFollowsGoal, NoContributionOpen, OpenRuns
<1>. QED  BY <1>1, <1>2 DEF SaveGoal

LEMMA PlanCreated ==
  ASSUME Typed, NEW p \in Procs, CreateRebalance(p) \/ CreateContribution(p)
  PROVE  GoalAndPlan
<1>1. CASE runs' = runs /\ goal' = goal
  BY <1>1, RestKeepsGoal
<1>2. CASE CreateRebalance(p) /\ InsertRun(calls[p])
  BY <1>2 DEF CreateRebalance, GoalAndPlan, GoalKept, data
<1>3. CASE CreateContribution(p) /\ GoalUnchanged(calls[p]) /\ InsertRun(calls[p])
           /\ (goal' = [goal EXCEPT !.next = @ + 1] \/ goal' = goal)
  <2>1. GoalKept
    BY <1>3 DEF GoalKept, Typed, TypeOK
  <2>. QED  BY <1>3, <2>1 DEF CreateContribution, GoalAndPlan
<1>. QED  BY <1>1, <1>2, <1>3 DEF CreateRebalance, CreateContribution, data

LEMMA StepOfGoalAndPlan ==
  ASSUME Typed, OneOpenPlan, PlanFollowsGoal, [Next]_vars
  PROVE  GoalAndPlan
<1>. USE DEF data
<1>1. ASSUME NEW p \in Procs, Generate(p) PROVE GoalAndPlan
  <2>1. CASE CompleteFundedGoal(p)
    <3>1. "completed" \in GoalStatuses
      BY DEF GoalStatuses
    <3>. QED  BY <2>1, <3>1, MovedGoal DEF CompleteFundedGoal, GoalAndPlan
  <2>2. CASE BeginRebalance(p) \/ BeginContribution(p)
    BY <2>2, RestKeepsGoal DEF BeginRebalance, BeginContribution, Begin
  <2>3. CASE ReadPolicy(p) \/ ReadTargets(p) \/ ReadPortfolio(p) \/ ReadLedger(p)
    BY <2>3, RestKeepsGoal DEF ReadPolicy, ReadTargets, ReadPortfolio, ReadLedger, Advance
  <2>. QED  BY <1>1, <2>1, <2>2, <2>3, PlanCreated DEF Generate
<1>2. ASSUME NEW p \in Procs, Decide(p) PROVE GoalAndPlan
  <2>. DEFINE r == calls[p].request.run
  <2>1. CallOK(calls[p])
    BY CallFields
  <2>2. CASE BeginDecision(p) \/ Assess(p)
    BY <2>2, RestKeepsGoal DEF BeginDecision, Begin, Assess, Advance
  <2>3. CASE Approve(p) \/ Reject(p) \/ Expire(p)
    <3>1. r \in DOMAIN runs
      BY <2>1, <2>3 DEF CallOK, Deciding, Approve, Reject, Expire
    <3>2. MovedOn(r) /\ goal' = goal
      BY <2>3 DEF Approve, Reject, Expire, Transition, MovedOn, Approvable, IsOpen
    <3>. QED  BY <3>1, <3>2, MoveKeepsGoal
  <2>4. CASE Complete(p)
    <3>1. r \in DOMAIN runs
      BY <2>1, <2>4 DEF CallOK, Deciding, Complete
    <3>2. Booked(r) /\ goal' = goal
      BY <2>4 DEF Complete, Booked
    <3>. QED  BY <3>1, <3>2, MoveKeepsGoal
  <2>. QED  BY <1>2, <2>2, <2>3, <2>4 DEF Decide
<1>3. ASSUME OwnerEdits PROVE GoalAndPlan
  <2>1. CASE \E next \in 1..MaxCycle : SaveGoal(next)
    BY <2>1, SavedGoal DEF GoalAndPlan
  <2>2. CASE TransitionGoal
    BY <2>2, MovedGoal DEF TransitionGoal, GoalAndPlan
  <2>3. CASE WriteLedger \/ SetStatus \/ ReplacePolicy \/ \E r \in DOMAIN runs : ReverseExecution(r)
    BY <2>3, RestKeepsGoal DEF WriteLedger, SetStatus, ReplacePolicy, ReverseExecution
  <2>. QED  BY <1>3, <2>1, <2>2, <2>3 DEF OwnerEdits
<1>4. ASSUME NEW r \in DOMAIN runs, Lapse(r) \/ Notified(r) PROVE GoalAndPlan
  BY <1>4, MoveKeepsGoal DEF Lapse, Notified, Touched
<1>5. CASE Sweep
  <2>1. PICK r \in OpenRuns : runs' = Moved(r, "expired") /\ goal' = goal
    BY <1>5 DEF Sweep
  <2>2. r \in DOMAIN runs /\ MovedOn(r)
    BY <2>1 DEF OpenRuns, MovedOn
  <2>. QED  BY <2>1, <2>2, MoveKeepsGoal
<1>6. CASE UNCHANGED vars
  BY <1>6, RestKeepsGoal DEF vars
<1>7. ASSUME NEW p \in Procs, Abandon(p) PROVE GoalAndPlan
  BY <1>7, RestKeepsGoal DEF Abandon
<1>. QED  BY <1>1, <1>2, <1>3, <1>4, <1>5, <1>6, <1>7 DEF Next

\* A plan that is inserted is the open one, and was made for the goal as it is.
LEMMA InsertedFollowsGoal ==
  ASSUME Typed, PlanAssumption, OneOpenPlan', NEW p \in Procs, calls[p].step = "create",
         InsertRun(calls[p]), GoalKept,
         calls[p].kind = "contribution" => GoalUnchanged(calls[p])
  PROVE  PlanFollowsGoal'
<1>. DEFINE c == calls[p]
            x == NewRun(c)
            n == Len(runs) + 1
<1>1. x \in RunType
  <2>1. c \in CallType /\ CallOK(c)
    BY CallFields
  <2>. QED  BY <2>1, NewRunTyped DEF CallOK, Reading, PlanAssumption
<1>2. x.status = "pending" /\ x.kind = c.kind /\ x.goal = c.request.goal /\ x.gv = c.gv
  BY DEF NewRun
<1>3. runs \in Seq(RunType)
  BY DEF Typed, TypeOK
<1>4. n \in DOMAIN runs' /\ runs'[n] = x
  <2>1. CASE runs' = Append(runs, x)
    <3>. HIDE DEF x
    <3>. QED  BY <1>1, <1>3, <2>1, RowAdded
  <2>2. ASSUME NEW r \in OpenRuns, runs' = Append(Moved(r, "expired"), x)
        PROVE  n \in DOMAIN runs' /\ runs'[n] = x
    <3>1. r \in DOMAIN runs /\ "expired" \in Statuses
      BY DEF OpenRuns, Statuses
    <3>2. Moved(r, "expired") \in Seq(RunType) /\ Len(Moved(r, "expired")) = Len(runs)
      BY <1>3, <3>1, RunMoved
    <3>. HIDE DEF x
    <3>. QED  BY <1>1, <2>2, <3>2, RowAdded
  <2>. QED  BY <2>1, <2>2 DEF InsertRun
<1>5. \A r \in OpenRuns' : r = n
  <2>1. n \in OpenRuns'
    BY <1>2, <1>4 DEF OpenRuns, IsOpen
  <2>. QED  BY <2>1 DEF OneOpenPlan
<1>. HIDE DEF x, n
<1>. QED  BY <1>2, <1>4, <1>5 DEF PlanFollowsGoal, GoalKept, GoalUnchanged

LEMMA PlanFollowsGoalStep ==
  ASSUME Typed, PlanAssumption, OneOpenPlan, PlanFollowsGoal, [Next]_vars
  PROVE  PlanFollowsGoal'
<1>1. GoalAndPlan /\ OneOpenPlan'
  BY StepOfGoalAndPlan, OneOpenStep
<1>2. CASE GoalKept /\ OpenKept
  BY <1>2 DEF GoalKept, OpenKept, PlanFollowsGoal
<1>3. CASE NoContributionOpen'
  BY <1>3 DEF NoContributionOpen, PlanFollowsGoal
<1>. QED  BY <1>1, <1>2, <1>3, InsertedFollowsGoal DEF GoalAndPlan

\* However decisions, scans, sweeps and edits of the goal interleave, the events
\* of every plan tell its whole life up to its status, and no plan stays open for
\* a goal that was changed, paused or closed since.
THEOREM PlansAreAccountedForAlways == Spec => []PlansAreAccountedFor
<1>. DEFINE Inv == /\ Typed /\ RowsOK /\ OneOpenPlan
                   /\ Trails(events, runs) /\ PlanFollowsGoal
<1>1. Init => Inv
  <2>1. Init => RowsOK /\ OneOpenPlan /\ Trails(events, runs) /\ PlanFollowsGoal
    BY DEF Init, RowsOK, OneOpenPlan, Trails, PlanFollowsGoal, OpenRuns
  <2>. QED  BY <2>1, PlanAssumption, TypedInit
<1>2. Inv /\ [Next]_vars => Inv'
  BY PlanAssumption, TypedStep, RowsOKStep, OneOpenStep, TrailsStep, PlanFollowsGoalStep
<1>3. Inv => PlansAreAccountedFor
  BY TrailsTell DEF PlansAreAccountedFor
<1>. QED  BY <1>1, <1>2, <1>3, PTL DEF Spec

-----------------------------------------------------------------------------
(* The workflow implements the life cycle its owner is promised.            *)

Plans  == [r \in DOMAIN runs |-> runs[r].status]
Carried == {r \in DOMAIN runs : runs[r].booked # 0}

\* Version 0 is never used, so that a booked plan shows.
Visible == portfolio.version > 0

Refining == Typed /\ OneOpenPlan /\ RowsOK /\ Visible

LEMMA PlansTyped ==
  ASSUME Typed
  PROVE  Plans \in Seq(Statuses) /\ DOMAIN Plans = DOMAIN runs /\ Len(Plans) = Len(runs)
<1>1. runs \in Seq(RunType) /\ \A r \in DOMAIN runs : runs[r].status \in Statuses
  <2>1. runs \in Seq(RunType) /\ \A r \in DOMAIN runs : runs[r] \in RunType
    BY DEF Typed, TypeOK
  <2> QED BY <2>1 DEF RunType
<1>2. DOMAIN runs = 1..Len(runs) /\ Len(runs) \in Nat
  BY <1>1
<1> QED BY <1>1, <1>2 DEF Plans

\* The life cycle sees of a replaced row its status and whether it is booked.
LEMMA RowSeen ==
  ASSUME Typed, NEW r \in DOMAIN runs, NEW x \in RunType, RowBecomes(r, x)
  PROVE  /\ Plans' = [Plans EXCEPT ![r] = x.status]
         /\ (x.booked # 0 <=> runs[r].booked # 0) => Carried' = Carried
         /\ x.booked # 0 => Carried' = Carried \cup {r}
<1>1. /\ DOMAIN runs' = DOMAIN runs /\ runs'[r] = x
      /\ \A i \in DOMAIN runs : i # r => runs'[i] = runs[i]
  BY DEF RowBecomes
<1>2. Plans' = [Plans EXCEPT ![r] = x.status]
  BY <1>1 DEF Plans
<1>3. (x.booked # 0 <=> runs[r].booked # 0) => Carried' = Carried
  BY <1>1 DEF Carried
<1>4. x.booked # 0 => Carried' = Carried \cup {r}
  BY <1>1 DEF Carried
<1> QED BY <1>2, <1>3, <1>4

LEMMA LifecycleInit ==
  ASSUME Init
  PROVE  Lifecycle!Init
BY DEF Init, Lifecycle!Init

LEMMA LifecycleStep ==
  ASSUME Refining, PlanAssumption, [Next]_vars
  PROVE  [Lifecycle!Next]_(Lifecycle!vars)
<1>1. RunsEffect /\ Typed
  BY StepEffects DEF Effects, Refining
<1>2. CASE UNCHANGED <<Plans, Carried>>
  BY <1>2 DEF Plans, Carried, Lifecycle!vars
<1>3. ASSUME NEW r \in DOMAIN runs, NEW status \in {"approved", "rejected", "expired"},
             IsOpen(runs[r]), status = "approved" => runs[r].status = "pending",
             Plans' = [Plans EXCEPT ![r] = status], Carried' = Carried
      PROVE  Lifecycle!Next
  <2>1. Plans[r] = runs[r].status /\ r \in DOMAIN Plans
    BY DEF Plans
  <2>2. CASE status = "approved"
    <3>1. Lifecycle!Approve(r)
      BY <1>3, <2>1, <2>2 DEF Lifecycle!Approve, Plans, Carried
    <3> QED BY <2>1, <3>1 DEF Lifecycle!Next, Plans
  <2>3. CASE status # "approved"
    <3>1. Lifecycle!Open(r)
      BY <1>3 DEF Lifecycle!Open, IsOpen
    <3>2. Lifecycle!Close(r)
      BY <1>3, <2>3, <3>1 DEF Lifecycle!Close, Plans, Carried
    <3> QED BY <2>1, <3>2 DEF Lifecycle!Next, Plans
  <2> QED BY <2>2, <2>3
<1>4. ASSUME NEW r \in DOMAIN runs, Touched(r)
      PROVE  UNCHANGED <<Plans, Carried>>
  <2> DEFINE y == runs[r]
             a == [y EXCEPT !.lapsed = TRUE]
             b == [y EXCEPT !.live = FALSE]
  <2>1. y \in RunType
    BY <1>1 DEF Typed, TypeOK
  <2>2. RowBecomes(r, a) \/ RowBecomes(r, b)
    BY <1>1, <1>4, RowOfEffect
  <2> HIDE DEF y
  <2>3. /\ a \in RunType /\ a.status = y.status /\ a.booked = y.booked
        /\ b \in RunType /\ b.status = y.status /\ b.booked = y.booked
    BY <2>1 DEF RunType
  <2> HIDE DEF a, b
  <2>4. Plans' = [Plans EXCEPT ![r] = y.status] /\ Carried' = Carried
    BY <1>1, <2>2, <2>3, RowSeen DEF y
  <2> QED BY <2>4 DEF Plans, y
<1>5. ASSUME NEW r \in DOMAIN runs, MovedOn(r) PROVE Lifecycle!Next
  <2>1. PICK to \in {"approved", "rejected", "expired"} :
          (to = "approved" => runs[r].status = "pending") /\ runs' = Moved(r, to)
    BY <1>5 DEF MovedOn
  <2> DEFINE y == runs[r]
             a == [y EXCEPT !.status = to, !.live = FALSE]
  <2>0. y \in RunType /\ IsOpen(y)
    BY <1>1, <1>5 DEF Typed, TypeOK, MovedOn
  <2>2. RowBecomes(r, a) /\ y \in RunType /\ IsOpen(y)
    BY <1>1, <2>0, <2>1, RowOfEffect
  <2> HIDE DEF y
  <2>3. a \in RunType /\ a.status = to /\ a.booked = y.booked
    BY <2>2 DEF RowBecomes, RunType
  <2> HIDE DEF a
  <2>4. Plans' = [Plans EXCEPT ![r] = to] /\ Carried' = Carried
    BY <1>1, <2>2, <2>3, RowSeen DEF y
  <2> QED BY <1>3, <2>1, <2>2, <2>4 DEF y
<1>6. ASSUME NEW r \in DOMAIN runs, Dropped(r) PROVE Lifecycle!Next
  <2> DEFINE y == runs[r]
             a == [y EXCEPT !.status = "expired"]
  <2>0. y \in RunType /\ IsOpen(y)
    BY <1>1, <1>6 DEF Typed, TypeOK, Dropped
  <2>1. RowBecomes(r, a) /\ y \in RunType /\ IsOpen(y)
    BY <1>1, <1>6, <2>0, RowOfEffect
  <2> HIDE DEF y
  <2>2. a \in RunType /\ a.status = "expired" /\ a.booked = y.booked
    BY <2>1 DEF RowBecomes, RunType
  <2> HIDE DEF a
  <2>3. Plans' = [Plans EXCEPT ![r] = "expired"] /\ Carried' = Carried
    BY <1>1, <2>1, <2>2, RowSeen DEF y
  <2> QED BY <1>3, <2>1, <2>3 DEF y
<1>7. ASSUME NEW r \in DOMAIN runs, Booked(r) PROVE Lifecycle!Next
  <2> DEFINE y == runs[r]
             a == [y EXCEPT !.status = "completed", !.booked = portfolio.version]
  <2>0. y \in RunType /\ y.status = "approved"
    BY <1>1, <1>7 DEF Typed, TypeOK, Booked, Completable
  <2>1. RowBecomes(r, a) /\ y \in RunType /\ y.status = "approved"
    BY <1>1, <1>7, <2>0, RowOfEffect
  <2>2. y.booked = 0 /\ portfolio.version # 0
    BY <1>1, <2>1 DEF Refining, RowsOK, RowOK, Visible, Typed, TypeOK
  <2> HIDE DEF y
  <2>3. a \in RunType /\ a.status = "completed" /\ a.booked # 0
    BY <2>1, <2>2 DEF RowBecomes, RunType
  <2> HIDE DEF a
  <2>4. Plans' = [Plans EXCEPT ![r] = "completed"] /\ Carried' = Carried \cup {r}
    BY <1>1, <2>1, <2>3, RowSeen
  <2>5. r \in DOMAIN Plans /\ Plans[r] = "approved" /\ r \notin Carried
    BY <2>1, <2>2 DEF Plans, Carried, y
  <2>6. Lifecycle!CarryOut(r)
    BY <2>4, <2>5 DEF Lifecycle!CarryOut, Plans, Carried
  <2> QED BY <2>5, <2>6 DEF Lifecycle!Next, Plans
<1>8. CASE Inserted
  <2>1. PICK p \in Procs, old \in Seq(RunType) :
          /\ NewRun(calls[p]) \in RunType
          /\ runs' = Append(old, NewRun(calls[p]))
          /\ DOMAIN old = DOMAIN runs /\ Len(old) = Len(runs)
          /\ Behind(old)
    BY <1>1, <1>8, InsertedRow
  <2> DEFINE x == NewRun(calls[p])
             n == Len(runs) + 1
  <2>2. x.status = "pending" /\ x.booked = 0
    BY DEF NewRun
  <2>3. /\ DOMAIN runs' = DOMAIN runs \cup {n} /\ n \notin DOMAIN runs
        /\ \A i \in DOMAIN runs : runs'[i] = old[i]
        /\ runs'[n] = x
    BY <2>1, RowAdded
  <2> HIDE DEF x
  <2>4. /\ Plans \in Seq(Statuses) /\ DOMAIN Plans = DOMAIN runs
        /\ Len(Plans) = Len(runs) /\ "pending" \in Statuses /\ "expired" \in Statuses
    BY <1>1, PlansTyped DEF Statuses
  <2>5. ASSUME NEW s \in Seq(Statuses), DOMAIN s = DOMAIN runs, Len(s) = Len(runs),
               \A i \in DOMAIN runs : s[i] = old[i].status
        PROVE  Plans' = Append(s, "pending")
    <3>1. /\ DOMAIN Append(s, "pending") = DOMAIN runs \cup {n}
          /\ Append(s, "pending")[n] = "pending"
          /\ \A i \in DOMAIN runs : Append(s, "pending")[i] = s[i]
      BY <2>4, <2>5, RowAdded
    <3>2. /\ DOMAIN Plans' = DOMAIN runs \cup {n} /\ Plans'[n] = "pending"
          /\ \A i \in DOMAIN runs : Plans'[i] = s[i]
      BY <2>2, <2>3, <2>5 DEF Plans
    <3>3. Append(s, "pending") = [i \in DOMAIN runs \cup {n} |-> Append(s, "pending")[i]]
      <4> DEFINE t == Append(s, "pending")
      <4>1. t \in Seq(Statuses)
        BY <2>4, <2>5, RowAdded
      <4> HIDE DEF t
      <4>2. t \in [1..Len(t) -> Statuses] /\ DOMAIN t = 1..Len(t)
        BY <4>1
      <4>3. t = [i \in DOMAIN t |-> t[i]]
        BY <4>2
      <4> QED BY <3>1, <4>3 DEF t
    <3>4. Plans' = [i \in DOMAIN runs \cup {n} |-> Plans'[i]]
      BY <3>2 DEF Plans
    <3> QED BY <3>1, <3>2, <3>3, <3>4
  <2>6. (\A i \in DOMAIN runs : old[i].booked = runs[i].booked) => Carried' = Carried
    BY <2>2, <2>3 DEF Carried
  <2>7. CASE old = runs /\ OpenRuns = {}
    <3>1. Plans' = Append(Plans, "pending")
      <4>1. \A i \in DOMAIN runs : Plans[i] = old[i].status
        BY <2>7 DEF Plans
      <4> QED BY <2>4, <2>5, <4>1
    <3>2. Carried' = Carried
      BY <2>6, <2>7
    <3>3. \A r \in DOMAIN Plans : Plans[r] \notin {"pending", "approved"}
      BY <2>7 DEF Plans, OpenRuns, IsOpen
    <3>4. Lifecycle!Propose
      BY <3>1, <3>2, <3>3 DEF Lifecycle!Propose, Lifecycle!Open, Plans, Carried
    <3> QED BY <3>4 DEF Lifecycle!Next
  <2>8. ASSUME NEW r \in OpenRuns,
               old[r] = [runs[r] EXCEPT !.status = "expired", !.live = FALSE],
               \A i \in DOMAIN runs : i # r => old[i] = runs[i]
        PROVE  Lifecycle!Next
    <3> DEFINE s == [Plans EXCEPT ![r] = "expired"]
    <3>1. r \in DOMAIN runs /\ runs[r] \in RunType
      BY <1>1 DEF OpenRuns, Typed, TypeOK
    <3>2. old[r].status = "expired" /\ old[r].booked = runs[r].booked
      BY <2>8, <3>1 DEF RunType
    <3>3. /\ s \in Seq(Statuses) /\ DOMAIN s = DOMAIN runs /\ Len(s) = Len(runs)
          /\ s[r] = "expired" /\ \A i \in DOMAIN runs : i # r => s[i] = Plans[i]
      BY <2>4, <3>1, RowReplaced
    <3> HIDE DEF s
    <3>4. \A i \in DOMAIN runs : s[i] = old[i].status
      <4>1. \A i \in DOMAIN runs : Plans[i] = runs[i].status
        BY DEF Plans
      <4> QED BY <2>8, <3>2, <3>3, <4>1
    <3>5. Plans' = Append(s, "pending")
      BY <2>5, <3>3, <3>4
    <3>6. Carried' = Carried
      BY <2>6, <2>8, <3>2
    <3>7. /\ Plans[r] \in {"pending", "approved"}
          /\ \A i \in DOMAIN Plans : Plans[i] \in {"pending", "approved"} => i = r
      BY <3>1 DEF Plans, OpenRuns, IsOpen, OneOpenPlan, Refining
    <3>8. Lifecycle!Propose
      BY <3>1, <3>5, <3>6, <3>7
         DEF Lifecycle!Propose, Lifecycle!Open, Plans, Carried, s
    <3> QED BY <3>8 DEF Lifecycle!Next
  <2> QED BY <2>1, <2>7, <2>8 DEF Behind
<1>9. CASE runs' = runs
  <2>1. UNCHANGED <<Plans, Carried>>
    BY <1>9 DEF Plans, Carried
  <2> QED BY <1>2, <2>1
<1> QED BY <1>1, <1>2, <1>4, <1>5, <1>6, <1>7, <1>8, <1>9 DEF RunsEffect

\* No interleaving of scans, decisions and edits shows the owner anything but the
\* life cycle: a plan is carried out once, after he approved it, and a closed plan
\* stays closed.
THEOREM LifecycleImplemented == Spec => LifecycleKept
<1>1. Init => Refining
  <2>1. Init => OneOpenPlan /\ RowsOK /\ Visible
    BY DEF Init, OneOpenPlan, OpenRuns, RowsOK, Visible
  <2> QED BY <2>1, PlanAssumption, TypedInit DEF Refining
<1>2. Refining /\ [Next]_vars => Refining'
  <2>1. ASSUME Refining, [Next]_vars PROVE Visible'
    <3>1. DataEffect
      BY <2>1, PlanAssumption, StepEffects DEF Refining, Effects
    <3> QED BY <2>1, <3>1 DEF Refining, Visible, DataEffect, Typed, TypeOK
  <2> QED BY <2>1, PlanAssumption, TypedStep, OneOpenStep, RowsOKStep DEF Refining
<1>3. Init => Lifecycle!Init
  BY LifecycleInit
<1>4. Refining /\ [Next]_vars => [Lifecycle!Next]_(Lifecycle!vars)
  BY PlanAssumption, LifecycleStep
<1> QED BY <1>1, <1>2, <1>3, <1>4, PTL DEF Spec, LifecycleKept, Lifecycle!Spec

=============================================================================
