----------------------------- MODULE PanelForms -----------------------------
(***************************************************************************)
(* The forms of the portfolio page and what the server makes of them: the goal,  *)
(* the target allocation, a monitor rule, and the fills of an approved plan.  A   *)
(* form is opened on what is stored, or on its defaults, edited field by field     *)
(* and submitted; the form, the route and the database each check it.              *)
(* Numbers are tenths of a cent, of a percent, of a day or of an hour; shares are   *)
(* hundredths of a percent; a name is its length, and so is a symbol: the theses    *)
(* with a rule editor of their own are about a symbol of length 1.                  *)
(***************************************************************************)
EXTENDS Integers, Sequences, FiniteSets

CONSTANTS
  Kinds,          \* forms used
  Typed,          \* what is typed into each field
  Blank, None,
  Panels,         \* what a rule editor is opened for: a thesis, or None for the whole portfolio
  MaxAmount, MaxName, MaxShocks,
  Minute, Day,    \* in units of the clock
  MaxTyped,       \* per form, how many fields are typed over before it is closed
  MaxClock, MaxVersion

VARIABLES
  followed,    \* the form a behaviour is about
  stored,      \* the goal, the policy and one rule, or None
  version,     \* how often it was stored: the goal's updatedAt
  shownVersion,\* the goal's updatedAt as the page last read it
  form,        \* the open form, or None
  request,     \* the request on its way, or None
  approvedAt,  \* when the plan to be executed was approved
  clock

formVars == <<followed, stored, version, shownVersion, form, request, approvedAt, clock>>

Units(n) == 10 * n
WholeNumber(v) == v % 10 = 0
Number(v) == IF v = Blank THEN 0 ELSE v
Date(t) == t \div Day
localDateTime(t) == (t \div Minute) * Minute

-----------------------------------------------------------------------------
(* The goal. *)

DefaultGoal == [name |-> 1, target |-> Units(100), date |-> 1, return |-> Units(7), amount |-> Units(1), day |-> Units(1)]

Money(v) == v > 0 /\ v <= MaxAmount /\ WholeNumber(v)

GoalForm(f) ==
    /\ f.name \in 1..MaxName
    /\ Money(Number(f.target)) /\ Money(Number(f.amount))
    /\ f.date # Blank /\ f.date >= Date(clock)
    /\ Number(f.return) \in -Units(50)..Units(50)
    /\ WholeNumber(Number(f.day)) /\ Number(f.day) \in Units(1)..Units(28)

\* The route's schema, and upsert_portfolio_goal.
GoalServed(f, of) ==
    /\ f.name \in 1..MaxName
    /\ \A v \in {f.target, f.amount} : v >= Units(1) /\ v <= MaxAmount /\ WholeNumber(v)
    /\ f.date >= Date(clock)
    /\ f.return \in -Units(50)..Units(50)
    /\ WholeNumber(f.day) /\ f.day \in Units(1)..Units(28)
    /\ stored["goal"] = None \/ of = version

-----------------------------------------------------------------------------
(* The target allocation: two targets, their symbols the same or not, and the cost policy. *)

DefaultPolicy == [shareA |-> 6000, shareB |-> 4000, twin |-> FALSE, drift |-> Units(5), minTrade |-> Units(100),
                  fixed |-> 0, bps |-> Units(5), tax |-> 0]

validateAllocationTargets(f) ==
    /\ ~f.twin
    /\ \A share \in {Number(f.shareA), Number(f.shareB)} : share > 0 /\ share <= 10000
    /\ Number(f.shareA) + Number(f.shareB) \in 9999..10001

\* An empty drift or minimum counts as 0, an empty cost is refused.
PolicyForm(f) ==
    /\ validateAllocationTargets(f)
    /\ Number(f.drift) > 0 /\ Number(f.drift) <= Units(100)
    /\ Number(f.minTrade) >= 0
    /\ \A cost \in {f.fixed, f.bps, f.tax} : cost # Blank /\ cost >= 0
    /\ f.fixed <= MaxAmount /\ f.bps <= Units(10000) /\ f.tax <= Units(100)

PolicyServed(f) ==
    /\ validateAllocationTargets(f)
    /\ f.drift > 0 /\ f.drift <= Units(100)
    /\ f.minTrade >= 0 /\ f.minTrade <= MaxAmount
    /\ f.fixed >= 0 /\ f.fixed <= MaxAmount /\ WholeNumber(f.fixed)
    /\ f.bps >= 0 /\ f.bps <= Units(10000)
    /\ f.tax >= 0 /\ f.tax <= Units(100)

-----------------------------------------------------------------------------
(* A monitor rule: the drafts of its three kinds, and what they have in common. *)

Percents == {"drawdown_from_entry_pct", "weight_above_pct"}
PricesOf == {"price_below", "price_above"}

\* MONITOR_KINDS_THESIS, MONITOR_KINDS_RISK, and the symbol of the panel.
allowedKinds(panel) == IF panel = None THEN {"risk_threshold", "stress_scenario"} ELSE {"thesis_invalidation"}
firstKind(panel) == IF panel = None THEN "risk_threshold" ELSE "thesis_invalidation"
symbolOf(panel) == IF panel = None THEN 0 ELSE 1

defaultIntervalHours(kind) == Units(IF kind = "stress_scenario" THEN 168 ELSE 24)
DefaultShock == [to |-> "all", by |-> Units(-15)]

DefaultRule(kind, panel) ==
    [rule |-> kind, condition |-> "price_below", symbol |-> symbolOf(panel), value |-> Blank, comparison |-> "above", level |-> Blank,
     shocks |-> <<DefaultShock>>, loss |-> Units(10), enabled |-> TRUE, thesis |-> panel,
     interval |-> defaultIntervalHours(kind)]

\* What a rule of this kind stores: the drafts of the other kinds are not sent.
specOf(f) ==
    LET fresh == DefaultRule(f.rule, f.thesis)
        common == [fresh EXCEPT !.enabled = f.enabled, !.interval = f.interval] IN
    CASE f.rule = "thesis_invalidation" -> [common EXCEPT !.condition = f.condition, !.symbol = f.symbol, !.value = f.value]
      [] f.rule = "risk_threshold" -> [common EXCEPT !.comparison = f.comparison, !.level = f.level]
      [] f.rule = "stress_scenario" -> [common EXCEPT !.shocks = f.shocks, !.loss = f.loss]

\* Mutant: the bounds of the route's schema, which lets a threshold of 0 percent through.
ThesisFormOfTheSchema(f) ==
    /\ f.symbol \in 1..MaxName /\ f.value # Blank
    /\ f.condition \in PricesOf => f.value > 0
    /\ f.condition \in Percents => f.value >= 0 /\ f.value <= Units(1000)
    /\ f.condition = "no_verified_price_days" => WholeNumber(f.value) /\ f.value \in Units(1)..Units(365)

ThesisForm(f) ==
    /\ f.symbol \in 1..MaxName /\ f.value # Blank
    /\ f.condition \in PricesOf => f.value > 0
    /\ f.condition \in Percents => f.value > 0 /\ f.value <= Units(1000)
    /\ f.condition = "no_verified_price_days" => WholeNumber(f.value) /\ f.value \in Units(1)..Units(365)

RuleForm(f) ==
    /\ CASE f.rule = "thesis_invalidation" -> ThesisForm(f)
         [] f.rule = "risk_threshold" -> f.level # Blank /\ f.level \in -Units(1000)..Units(1000)
         [] f.rule = "stress_scenario" ->
              /\ Len(f.shocks) \in 1..MaxShocks
              /\ \A i \in DOMAIN f.shocks : /\ f.shocks[i].to # "blank" /\ f.shocks[i].by # Blank
                                            /\ f.shocks[i].by \in -Units(100)..Units(1000)
              /\ f.loss # Blank /\ f.loss > 0 /\ f.loss <= Units(1000)
    /\ f.interval # Blank /\ WholeNumber(f.interval) /\ f.interval \in Units(1)..Units(8760)

\* parseMonitorRuleSpec, resolveRuleSymbol and the route's schema.
RuleParsed(f) ==
    /\ CASE f.rule = "thesis_invalidation" ->
              /\ f.symbol \in 1..MaxName
              /\ f.condition \in PricesOf => f.value > 0
              /\ f.condition \in Percents => f.value >= 0 /\ f.value <= Units(1000)
              /\ f.condition = "no_verified_price_days" => WholeNumber(f.value) /\ f.value \in Units(1)..Units(365)
         [] f.rule = "risk_threshold" -> f.level \in -Units(1000)..Units(1000)
         [] f.rule = "stress_scenario" ->
              /\ Len(f.shocks) \in 1..MaxShocks
              /\ \A i \in DOMAIN f.shocks : f.shocks[i].to # "blank" /\ f.shocks[i].by \in -Units(100)..Units(1000)
              /\ f.loss > 0 /\ f.loss <= Units(1000)
    /\ WholeNumber(f.interval) /\ f.interval \in Units(1)..Units(8760)

\* upsert_monitor_rule: a threshold of a thesis must be positive; a rule keeps its kind.
RuleServed(f, editing) ==
    /\ RuleParsed(f)
    /\ f.rule = "thesis_invalidation" => f.value > 0
    /\ editing => stored["rule"] # None /\ stored["rule"].rule = f.rule

-----------------------------------------------------------------------------
(* The fills of an approved plan: one order, and the deposit's time with a contribution. *)

Planned == [quantity |-> Units(2), price |-> Units(10), minimum |-> Units(10)]

\* The draft of a plan's execution: what was planned, at this minute.
Offered == [quantity |-> Planned.quantity, price |-> Planned.price, fees |-> 0, tradeAt |-> localDateTime(clock)]

ExecutionForm(f) ==
    /\ f.quantity # Blank /\ f.quantity > 0 /\ f.quantity <= Planned.quantity
    /\ f.price # Blank /\ f.price > 0
    /\ Number(f.fees) >= 0
    /\ f.tradeAt # Blank

\* The checks of the completing function that concern a fill by itself.
ExecutionServed(f) ==
    /\ f.quantity > 0 /\ f.quantity <= Planned.quantity
    /\ f.quantity * f.price >= 10 * Planned.minimum
    /\ f.price > 0 /\ 100 * f.price \in 97 * Planned.price..103 * Planned.price
    /\ f.fees >= 0
    /\ f.tradeAt >= approvedAt /\ f.tradeAt <= clock + 5 * Minute

-----------------------------------------------------------------------------

accepts(kind, f) ==
    CASE kind = "goal" -> GoalForm(f)
      [] kind = "policy" -> PolicyForm(f)
      [] kind = "rule" -> RuleForm(f)
      [] kind = "execution" -> ExecutionForm(f)

\* What is sent: numbers for what was typed, and of a rule its own kind's draft.
bodyOf(kind, f) ==
    CASE kind = "rule" -> specOf(f)
      [] kind = "goal" -> [f EXCEPT !.return = Number(@)]
      [] kind = "policy" -> [f EXCEPT !.minTrade = Number(@)]
      [] kind = "execution" -> [f EXCEPT !.fees = Number(@)]

served(r) ==
    CASE r.kind = "goal" -> GoalServed(r.body, r.version)
      [] r.kind = "policy" -> PolicyServed(r.body)
      [] r.kind = "rule" -> RuleServed(r.body, r.from # None)
      [] r.kind = "execution" -> ExecutionServed(r.body)

Init ==
    /\ followed \in Kinds
    /\ stored = [goal |-> None, policy |-> None, rule |-> None]
    /\ version = 0 /\ shownVersion = 0
    /\ form = None /\ request = None
    /\ approvedAt \in (IF followed = "execution" THEN 0..1 ELSE {0}) /\ clock = approvedAt

\* Time passes where it matters: for the goal's date and the trade's time.
Tick ==
    /\ followed \in {"goal", "execution"} /\ clock < MaxClock
    /\ clock' = clock + 1
    /\ UNCHANGED <<followed, stored, version, shownVersion, form, request, approvedAt>>

\* Mutant: the thesis is that of the panel, not that of the rule.
loadForEditHere(rule, panel) == [DefaultRule(rule.rule, panel) EXCEPT
    !.condition = rule.condition, !.symbol = rule.symbol, !.value = rule.value, !.comparison = rule.comparison,
    !.level = rule.level, !.shocks = rule.shocks, !.loss = rule.loss, !.enabled = rule.enabled,
    !.interval = rule.interval]

\* The stored rule fills the draft of its kind.
loadForEdit(rule, panel) == [DefaultRule(rule.rule, panel) EXCEPT
    !.condition = rule.condition, !.symbol = rule.symbol, !.value = rule.value, !.comparison = rule.comparison,
    !.level = rule.level, !.shocks = rule.shocks, !.loss = rule.loss, !.enabled = rule.enabled,
    !.interval = rule.interval, !.thesis = rule.thesis]

\* A form opens on what is stored, or on its defaults.
Opened(kind, panel) ==
    CASE kind = "execution" -> Offered
      [] kind = "goal" -> IF stored["goal"] = None THEN DefaultGoal ELSE stored["goal"]
      [] kind = "policy" -> IF stored["policy"] = None THEN DefaultPolicy ELSE stored["policy"]
      [] kind = "rule" -> IF stored["rule"] = None THEN DefaultRule(firstKind(panel), panel)
                          ELSE loadForEdit(stored["rule"], panel)

RuleKinds == {"thesis_invalidation", "risk_threshold", "stress_scenario"}

\* visibleRules: an editor lists the rules of its kinds, that of a thesis those of its symbol.
visible(rule, panel) == rule.rule \in allowedKinds(panel) /\ rule.symbol = symbolOf(panel)

Open(kind, panel) ==
    /\ form = None /\ request = None /\ kind = followed
    /\ kind = "rule" /\ stored["rule"] # None => visible(stored["rule"], panel)
    /\ form' = [kind |-> kind, fields |-> Opened(kind, panel), typed |-> 0,
                from |-> IF kind = "execution" THEN None ELSE stored[kind], at |-> clock]
    /\ UNCHANGED <<followed, stored, version, shownVersion, request, approvedAt, clock>>

\* The fields on the screen: of a rule, those of its kind.
fieldsShown ==
    IF form.kind # "rule" THEN DOMAIN form.fields
    ELSE {"enabled", "interval"} \cup
         CASE form.fields.rule = "thesis_invalidation" -> {"condition", "symbol", "value"}
           [] form.fields.rule = "risk_threshold" -> {"comparison", "level"}
           [] form.fields.rule = "stress_scenario" -> {"shocks", "loss"}

Type(field, v) ==
    /\ form # None /\ request = None /\ form.typed < MaxTyped[form.kind]
    /\ field \in fieldsShown /\ v # form.fields[field]
    /\ form' = [form EXCEPT !.fields[field] = v, !.typed = @ + 1]
    /\ UNCHANGED <<followed, stored, version, shownVersion, request, approvedAt, clock>>

\* The kind of a stored rule stays; a new rule takes the interval of its kind.
changeKind(kind) ==
    /\ form # None /\ request = None /\ form.kind = "rule" /\ form.from = None
    /\ kind \in allowedKinds(form.fields.thesis) \ {form.fields.rule}
    /\ form' = [form EXCEPT !.fields.rule = kind, !.fields.interval = defaultIntervalHours(kind)]
    /\ UNCHANGED <<followed, stored, version, shownVersion, request, approvedAt, clock>>

\* addShock, removeShock.
ChangeShocks ==
    /\ form # None /\ request = None /\ form.kind = "rule" /\ form.fields.rule = "stress_scenario"
    /\ form.typed < MaxTyped["rule"]
    /\ LET shocks == form.fields.shocks IN
       \/ Len(shocks) < MaxShocks
          /\ form' = [form EXCEPT !.fields.shocks = Append(shocks, DefaultShock), !.typed = @ + 1]
       \/ Len(shocks) > 1
          /\ form' = [form EXCEPT !.fields.shocks = Tail(shocks), !.typed = @ + 1]
    /\ UNCHANGED <<followed, stored, version, shownVersion, request, approvedAt, clock>>

Close ==
    /\ form # None /\ request = None /\ form' = None
    /\ UNCHANGED <<followed, stored, version, shownVersion, request, approvedAt, clock>>

\* The form is checked and sent, a goal with the version the page shows by now.
submit ==
    /\ form # None /\ request = None
    /\ accepts(form.kind, form.fields) /\ version < MaxVersion
    /\ request' = [kind |-> form.kind, body |-> bodyOf(form.kind, form.fields), from |-> form.from, typed |-> form.typed,
                   version |-> shownVersion, opened |-> form.at, sent |-> clock]
    /\ UNCHANGED <<followed, stored, version, shownVersion, form, approvedAt, clock>>

\* The server stores what it accepts and the form closes; what it refuses stays in the form.
Served ==
    /\ request # None
    /\ IF served(request)
       THEN /\ form' = None
            /\ IF request.kind = "execution" THEN UNCHANGED <<stored, version, shownVersion>>
               ELSE /\ stored' = [stored EXCEPT ![request.kind] = request.body]
                    /\ version' = version + 1
                    /\ shownVersion' = version'
       ELSE UNCHANGED <<stored, version, shownVersion, form>>
    /\ request' = None
    /\ UNCHANGED <<followed, approvedAt, clock>>

\* Another device, or another tab, changes one field of what is stored; a rule may also be deleted.
Elsewhere(kind) ==
    /\ version < MaxVersion /\ version' = version + 1
    /\ stored[kind] # None
    /\ \/ kind = "goal" /\ stored' = [stored EXCEPT ![kind].day = Units(2)]
       \/ kind = "policy" /\ stored' = [stored EXCEPT ![kind].drift = Units(6)]
       \/ kind = "rule" /\ stored' = [stored EXCEPT ![kind].enabled = ~@]
       \/ kind = "rule" /\ stored' = [stored EXCEPT ![kind] = None]
    /\ UNCHANGED <<followed, shownVersion, form, request, approvedAt, clock>>

\* The page reads the goal again while a form is open.
Poll ==
    /\ followed = "goal" /\ shownVersion # version /\ shownVersion' = version
    /\ UNCHANGED <<followed, stored, version, form, request, approvedAt, clock>>

\* The rule is deleted here: a form that edits it starts anew.
removeRule ==
    /\ request = None /\ stored["rule"] # None
    /\ stored' = [stored EXCEPT !["rule"] = None]
    /\ form' = IF form # None /\ form.kind = "rule" THEN None ELSE form
    /\ UNCHANGED <<followed, version, shownVersion, request, approvedAt, clock>>

Next ==
    \/ Tick \/ Poll \/ Close \/ submit \/ Served \/ removeRule \/ ChangeShocks
    \/ \E kind \in Kinds, panel \in Panels : Open(kind, panel)
    \/ \E kind \in RuleKinds : changeKind(kind)
    \/ \E field \in DOMAIN Typed : \E v \in Typed[field] : Type(field, v)
    \/ \E kind \in Kinds \ {"execution"} : Elsewhere(kind)

Spec == Init /\ [][Next]_formVars

-----------------------------------------------------------------------------

\* What no form checks: the goal or rule may have changed or a day have passed; a fixed fee in parts of a cent, a
\* minimum beyond any amount; a quantity or price away from the plan's, a time before the approval or ahead of the
\* clock.
Unchecked(r) ==
    CASE r.kind = "goal" -> r.version # version \/ Date(clock) > Date(r.sent)
      [] r.kind = "policy" -> ~WholeNumber(r.body.fixed) \/ r.body.minTrade > MaxAmount
      [] r.kind = "rule" -> r.from # None /\ stored["rule"] = None
      [] r.kind = "execution" -> \/ r.body.quantity # Planned.quantity \/ r.body.price # Planned.price
                                 \/ r.body.tradeAt # localDateTime(r.opened)
                                 \/ localDateTime(r.opened) < approvedAt

\* A form that lets its fields through is refused only for what it cannot or does not check; in particular a plan's
\* execution is booked as offered, if the form was opened in a later minute than that of the approval.
FormsAgree == request # None /\ ~served(request) => Unchecked(request)

\* Opening a form on what is stored and saving it as it is changes nothing.
UnchangedEditKeeps ==
    Served /\ request.typed = 0 /\ request.from # None /\ request.from = stored[request.kind]
      => stored' = stored

=============================================================================
