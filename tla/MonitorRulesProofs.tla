------------------------- MODULE MonitorRulesProofs -------------------------
(***************************************************************************)
(* Safety of the monitor rules for any rules and any number of overlapping   *)
(* runs: a latch tells of a notice, and a message carries all its breaches.  *)
(***************************************************************************)
EXTENDS MonitorRules, FiniteSetTheorems, TLAPS

RuleRows == [status : {"none", "enabled", "disabled", "deleted"}, version : 0..MaxVersion,
             state : {"armed", "latched"}, leased : BOOLEAN]
RunRows == [phase : Phases, todo : SUBSET Items, observed : BOOLEAN, item : Items \cup {NoItem},
            outcome : {"none", "breached", "clear", "deferred"}, appended : BOOLEAN,
            digest : 0..MaxDigests, list : SUBSET Rows]
DigestRows == [status : {"open", "dispatched"}, payload : SUBSET Rows, shared : BOOLEAN]

\* Everything has its shape; a rule that exists has a version.
Typed ==
  /\ rules \in [Rules -> RuleRows] /\ \A r \in Rules : Exists(r) => rules[r].version >= 1
  /\ breaches \in SUBSET Rows /\ IsFiniteSet(breaches)
  /\ digests \in Seq(DigestRows) /\ Len(digests) <= MaxDigests
  /\ mruns \in [Runners -> RunRows]
  /\ notified \in [Rules -> BOOLEAN] /\ hit \in SUBSET Rules

Judging == {"rules", "find", "insert", "append", "record", "error"}

\* A run judges an item of those it has claimed, one for each rule.
HandsInOrder ==
  \A p \in Runners :
    /\ mruns[p].phase \in Judging => mruns[p].item \in mruns[p].todo
    /\ mruns[p].phase \notin Judging => mruns[p].item = NoItem
    /\ \A i, j \in mruns[p].todo : i.rule = j.rule => i = j

\* A run that appends or sends has a digest, one that exists.
DigestInHand ==
  \A p \in Runners :
    /\ mruns[p].digest # 0 => mruns[p].digest \in DOMAIN digests
    /\ mruns[p].phase \in {"append", "enqueue"} => mruns[p].digest # 0
    /\ mruns[p].phase \in {"find", "insert", "idle"} => mruns[p].digest = 0

RunsInv == Typed /\ HandsInOrder /\ DigestInHand

\* What a run has found out so far agrees with where it is.
FoundOut(g) ==
  /\ g.appended => /\ g.phase \in {"record", "error"}
                   /\ g.outcome = "breached" /\ g.item.state = "armed"
  /\ g.phase \in {"find", "insert", "append"} => g.outcome = "breached" /\ g.item.state = "armed"
  /\ g.phase = "record" => /\ g.outcome # "none"
                           /\ ~ g.appended => ~ shouldNotify(g.item.state, g.outcome)

Findings == \A p \in Runners : FoundOut(mruns[p])

\* No edit, no lost answer and no crash met the rule half way.
Untouched(r) == Exists(r) /\ r \notin hit

\* The run has appended a breach of the rule and not recorded it yet.
Owes(p, r) == mruns[p].appended /\ mruns[p].item.rule = r

\* A rule that is claimed is leased, by one run alone, and as it was when it was claimed.
HeldAlone(r) ==
  \A p \in Runners : \A i \in mruns[p].todo : i.rule = r =>
    /\ rules[r].leased /\ rules[r].state = i.state
    /\ \A q \in Runners : q # p => \A j \in mruns[q].todo : j.rule # r

OwedIsNotified(r) == \A p \in Runners : Owes(p, r) => notified[r]

LatchTells(r) == (\A p \in Runners : ~ Owes(p, r)) => (rules[r].state = "latched" <=> notified[r])

Kept(r) == Untouched(r) => HeldAlone(r) /\ OwedIsNotified(r) /\ LatchTells(r)

LatchInv == RunsInv /\ Findings /\ \A r \in Rules : Kept(r)

\* A digest that is not shared has one run at most, and none once it is dispatched.
OwnedByOne(d) ==
  /\ \A p, q \in Runners : mruns[p].digest = d /\ mruns[q].digest = d => p = q
  /\ digests[d].status = "dispatched" => \A p \in Runners : mruns[p].digest # d

\* What a run is about to send is all there is, and so is what was sent.
ListComplete(d) ==
  \A p \in Runners : mruns[p].phase = "enqueue" /\ mruns[p].digest = d => RowsOf(d) \subseteq mruns[p].list

Complete(d) == digests[d].status = "dispatched" => RowsOf(d) \subseteq digests[d].payload

Carried(d) == ~ digests[d].shared => OwnedByOne(d) /\ ListComplete(d) /\ Complete(d)

RowsAttached == \A b \in breaches : b.digest \in DOMAIN digests

DigestInv == RunsInv /\ RowsAttached /\ \A d \in DOMAIN digests : Carried(d)

-----------------------------------------------------------------------------
(* The row of a run, field by field.                                         *)

IsRun(g, phase, todo, observed, item, outcome, appended, digest, list) ==
  /\ g \in RunRows
  /\ g.phase = phase /\ g.todo = todo /\ g.observed = observed /\ g.item = item
  /\ g.outcome = outcome /\ g.appended = appended /\ g.digest = digest /\ g.list = list

LEMMA IdleIsRun == IsRun(IdleRun, "idle", {}, FALSE, NoItem, "none", FALSE, 0, {})
BY MonitorAssumption DEF MonitorAssumption, IsRun, IdleRun, RunRows, Phases

LEMMA SetPhase ==
  ASSUME NEW f \in RunRows, NEW phase \in Phases, NEW g, g = [f EXCEPT !.phase = phase]
  PROVE  IsRun(g, phase, f.todo, f.observed, f.item, f.outcome, f.appended, f.digest, f.list)
BY DEF IsRun, RunRows

LEMMA SetTodo ==
  ASSUME NEW f \in RunRows, NEW todo \in SUBSET Items, NEW g, g = [f EXCEPT !.todo = todo]
  PROVE  IsRun(g, f.phase, todo, f.observed, f.item, f.outcome, f.appended, f.digest, f.list)
BY DEF IsRun, RunRows

LEMMA SetItem ==
  ASSUME NEW f \in RunRows, NEW item \in Items \cup {NoItem}, NEW g, g = [f EXCEPT !.item = item]
  PROVE  IsRun(g, f.phase, f.todo, f.observed, item, f.outcome, f.appended, f.digest, f.list)
BY DEF IsRun, RunRows

LEMMA SetObserved ==
  ASSUME NEW f \in RunRows, NEW observed \in BOOLEAN, NEW g, g = [f EXCEPT !.observed = observed]
  PROVE  IsRun(g, f.phase, f.todo, observed, f.item, f.outcome, f.appended, f.digest, f.list)
BY DEF IsRun, RunRows

LEMMA SetOutcome ==
  ASSUME NEW f \in RunRows, NEW outcome \in {"none", "breached", "clear", "deferred"}, NEW g,
         g = [f EXCEPT !.outcome = outcome]
  PROVE  IsRun(g, f.phase, f.todo, f.observed, f.item, outcome, f.appended, f.digest, f.list)
BY DEF IsRun, RunRows

LEMMA SetUnobserved ==
  ASSUME NEW f \in RunRows, NEW g, g = [f EXCEPT !.observed = FALSE]
  PROVE  IsRun(g, f.phase, f.todo, FALSE, f.item, f.outcome, f.appended, f.digest, f.list)
BY DEF IsRun, RunRows

LEMMA SetAppended ==
  ASSUME NEW f \in RunRows, NEW g, g = [f EXCEPT !.appended = TRUE]
  PROVE  IsRun(g, f.phase, f.todo, f.observed, f.item, f.outcome, TRUE, f.digest, f.list)
BY DEF IsRun, RunRows

LEMMA SetNotAppended ==
  ASSUME NEW f \in RunRows, NEW g, g = [f EXCEPT !.appended = FALSE]
  PROVE  IsRun(g, f.phase, f.todo, f.observed, f.item, f.outcome, FALSE, f.digest, f.list)
BY DEF IsRun, RunRows

LEMMA SetDigest ==
  ASSUME NEW f \in RunRows, NEW digest \in 0..MaxDigests, NEW g, g = [f EXCEPT !.digest = digest]
  PROVE  IsRun(g, f.phase, f.todo, f.observed, f.item, f.outcome, f.appended, digest, f.list)
BY DEF IsRun, RunRows

LEMMA SetList ==
  ASSUME NEW f \in RunRows, NEW list \in SUBSET Rows, NEW g, g = [f EXCEPT !.list = list]
  PROVE  IsRun(g, f.phase, f.todo, f.observed, f.item, f.outcome, f.appended, f.digest, list)
BY DEF IsRun, RunRows

\* A step of a run leaves the rows of the others alone.
OnlyRun(p) == mruns' \in [Runners -> RunRows] /\ \A q \in Runners : q # p => mruns'[q] = mruns[q]

LEMMA RunBecomes ==
  ASSUME mruns \in [Runners -> RunRows], NEW p \in Runners, NEW g \in RunRows, mruns' = [mruns EXCEPT ![p] = g]
  PROVE  OnlyRun(p) /\ mruns'[p] = g
BY DEF OnlyRun

\* A run that is where it was, or has let go of its rule: the next one of its portfolio or none.
MovesOn(p) ==
  /\ OnlyRun(p)
  /\ \E item \in Items \cup {NoItem}, observed \in BOOLEAN :
       /\ IsRun(mruns'[p], IF item = NoItem THEN "portfolios" ELSE "rules", mruns[p].todo \ {mruns[p].item},
                observed, item, "none", FALSE, mruns[p].digest, mruns[p].list)
       /\ item # NoItem => item \in mruns[p].todo \ {mruns[p].item}

LEMMA NoItemIsNone == NoItem \notin Items
BY DEF NoItem, Items

LEMMA NextRuleMovesOn ==
  ASSUME mruns \in [Runners -> RunRows], NEW p \in Runners, NextRule(p)
  PROVE  MovesOn(p)
<1>. DEFINE f == mruns[p]
            rest == f.todo \ {f.item}
            here == {i \in rest : PortfolioOf[i.rule] = PortfolioOf[f.item.rule]}
            first == CHOOSE i \in here : TRUE
            a == [f EXCEPT !.todo = rest]
            b == [a EXCEPT !.outcome = "none"]
            c == [b EXCEPT !.appended = FALSE]
            next == [f EXCEPT !.todo = rest, !.outcome = "none", !.appended = FALSE]
            row == IF here = {} THEN [next EXCEPT !.phase = "portfolios", !.item = NoItem, !.observed = FALSE]
                   ELSE [next EXCEPT !.phase = "rules", !.item = first]
<1>1. f \in RunRows /\ rest \in SUBSET Items
  BY DEF RunRows
<1>2. next = c
  OBVIOUS
<1>3. mruns' = [mruns EXCEPT ![p] = row]
  BY DEF NextRule
<1>4. IsRun(next, f.phase, rest, f.observed, f.item, "none", FALSE, f.digest, f.list)
  <2>1. IsRun(a, f.phase, rest, f.observed, f.item, f.outcome, f.appended, f.digest, f.list)
    BY <1>1, SetTodo
  <2>2. IsRun(b, f.phase, rest, f.observed, f.item, "none", f.appended, f.digest, f.list)
    <3>. HIDE DEF a, rest
    <3>. QED  BY <2>1, SetOutcome DEF IsRun
  <2>3. IsRun(c, f.phase, rest, f.observed, f.item, "none", FALSE, f.digest, f.list)
    <3>. HIDE DEF b, rest
    <3>. QED  BY <2>2, SetNotAppended DEF IsRun
  <2>. QED  BY <1>2, <2>3
<1>. HIDE DEF next, rest, a, b, c
<1>5. CASE here = {}
  <2>. DEFINE x == [next EXCEPT !.phase = "portfolios"]
              y == [x EXCEPT !.item = NoItem]
              z == [y EXCEPT !.observed = FALSE]
  <2>1. IsRun(x, "portfolios", rest, f.observed, f.item, "none", FALSE, f.digest, f.list)
    BY <1>4, SetPhase DEF IsRun, Phases
  <2>2. IsRun(y, "portfolios", rest, f.observed, NoItem, "none", FALSE, f.digest, f.list)
    <3>. HIDE DEF x
    <3>. QED  BY <2>1, SetItem DEF IsRun
  <2>3. IsRun(z, "portfolios", rest, FALSE, NoItem, "none", FALSE, f.digest, f.list)
    <3>. HIDE DEF y
    <3>. QED  BY <2>2, SetUnobserved DEF IsRun
  <2>. DEFINE zz == [next EXCEPT !.phase = "portfolios", !.item = NoItem, !.observed = FALSE]
  <2>4. row = z
    <3>1. zz = z
      OBVIOUS
    <3>2. row = zz
      <4>. HIDE DEF here, z
      <4>. QED  BY <1>5
    <3>. QED  BY <3>1, <3>2
  <2>. HIDE DEF row, z
  <2>5. OnlyRun(p) /\ mruns'[p] = z
    BY <1>3, <2>3, <2>4, RunBecomes DEF IsRun
  <2>. QED  BY <2>3, <2>5 DEF MovesOn, rest
<1>6. CASE here # {}
  <2>. DEFINE x == [next EXCEPT !.phase = "rules"]
              y == [x EXCEPT !.item = first]
  <2>0. first \in rest /\ first \in Items
    <3>1. first \in here
      BY <1>6
    <3>2. here \subseteq rest
      OBVIOUS
    <3>. HIDE DEF here, first
    <3>. QED  BY <1>1, <3>1, <3>2
  <2>. HIDE DEF first, here
  <2>1. IsRun(x, "rules", rest, f.observed, f.item, "none", FALSE, f.digest, f.list)
    BY <1>4, SetPhase DEF IsRun, Phases
  <2>2. IsRun(y, "rules", rest, f.observed, first, "none", FALSE, f.digest, f.list)
    <3>. HIDE DEF x
    <3>. QED  BY <2>0, <2>1, SetItem DEF IsRun
  <2>. DEFINE yy == [next EXCEPT !.phase = "rules", !.item = first]
  <2>3. row = y
    <3>1. yy = y
      OBVIOUS
    <3>2. row = yy
      <4>. HIDE DEF y
      <4>. QED  BY <1>6
    <3>. QED  BY <3>1, <3>2
  <2>. HIDE DEF row, y
  <2>4. OnlyRun(p) /\ mruns'[p] = y
    BY <1>3, <2>2, <2>3, RunBecomes DEF IsRun
  <2>5. first # NoItem /\ f.observed \in BOOLEAN
    BY <1>1, <2>0, NoItemIsNone DEF RunRows
  <2>. QED  BY <2>0, <2>2, <2>4, <2>5 DEF MovesOn, rest
<1>. QED  BY <1>5, <1>6

-----------------------------------------------------------------------------
(* What the steps of a run do to its row.                                    *)

LEMMA PhaseBecomes ==
  ASSUME mruns \in [Runners -> RunRows], NEW p \in Runners, NEW phase \in Phases,
         mruns' = [mruns EXCEPT ![p].phase = phase]
  PROVE  /\ OnlyRun(p)
         /\ IsRun(mruns'[p], phase, mruns[p].todo, mruns[p].observed, mruns[p].item, mruns[p].outcome,
                  mruns[p].appended, mruns[p].digest, mruns[p].list)
<1>. DEFINE g == [mruns[p] EXCEPT !.phase = phase]
<1>1. IsRun(g, phase, mruns[p].todo, mruns[p].observed, mruns[p].item, mruns[p].outcome,
            mruns[p].appended, mruns[p].digest, mruns[p].list)
  BY SetPhase
<1>2. mruns' = [mruns EXCEPT ![p] = g]
  OBVIOUS
<1>. HIDE DEF g
<1>. QED  BY <1>1, <1>2, RunBecomes DEF IsRun

LEMMA ObserveBecomes ==
  ASSUME mruns \in [Runners -> RunRows], NEW p \in Runners, Observe(p)
  PROVE  /\ OnlyRun(p)
         /\ \E item \in mruns[p].todo, observed \in BOOLEAN :
              IsRun(mruns'[p], "rules", mruns[p].todo, observed, item, mruns[p].outcome,
                    mruns[p].appended, mruns[p].digest, mruns[p].list)
<1>. DEFINE f == mruns[p]
<1>1. PICK item \in f.todo, observed \in BOOLEAN :
        mruns' = [mruns EXCEPT ![p] = [@ EXCEPT !.phase = "rules", !.item = item, !.observed = observed]]
  BY DEF Observe
<1>. DEFINE x == [f EXCEPT !.phase = "rules"]
            y == [x EXCEPT !.item = item]
            z == [y EXCEPT !.observed = observed]
<1>2. f \in RunRows /\ item \in Items
  BY DEF RunRows
<1>3. IsRun(x, "rules", f.todo, f.observed, f.item, f.outcome, f.appended, f.digest, f.list)
  BY <1>2, SetPhase DEF Phases
<1>4. IsRun(y, "rules", f.todo, f.observed, item, f.outcome, f.appended, f.digest, f.list)
  <2>. HIDE DEF x
  <2>. QED  BY <1>2, <1>3, SetItem DEF IsRun
<1>5. IsRun(z, "rules", f.todo, observed, item, f.outcome, f.appended, f.digest, f.list)
  <2>. HIDE DEF y
  <2>. QED  BY <1>4, SetObserved DEF IsRun
<1>6. mruns' = [mruns EXCEPT ![p] = z]
  BY <1>1
<1>. HIDE DEF z
<1>7. OnlyRun(p) /\ mruns'[p] = z
  BY <1>5, <1>6, RunBecomes DEF IsRun
<1>. QED  BY <1>5, <1>7

LEMMA OutcomeBecomes ==
  ASSUME mruns \in [Runners -> RunRows], NEW p \in Runners,
         NEW outcome \in {"none", "breached", "clear", "deferred"}, NEW phase \in Phases,
         mruns' = [mruns EXCEPT ![p] = [@ EXCEPT !.outcome = outcome, !.phase = phase]]
  PROVE  /\ OnlyRun(p)
         /\ IsRun(mruns'[p], phase, mruns[p].todo, mruns[p].observed, mruns[p].item, outcome,
                  mruns[p].appended, mruns[p].digest, mruns[p].list)
<1>. DEFINE f == mruns[p]
            x == [f EXCEPT !.outcome = outcome]
            y == [x EXCEPT !.phase = phase]
<1>1. IsRun(x, f.phase, f.todo, f.observed, f.item, outcome, f.appended, f.digest, f.list)
  BY SetOutcome
<1>2. IsRun(y, phase, f.todo, f.observed, f.item, outcome, f.appended, f.digest, f.list)
  <2>. HIDE DEF x
  <2>. QED  BY <1>1, SetPhase DEF IsRun
<1>3. mruns' = [mruns EXCEPT ![p] = y]
  OBVIOUS
<1>. HIDE DEF y
<1>4. OnlyRun(p) /\ mruns'[p] = y
  BY <1>2, <1>3, RunBecomes DEF IsRun
<1>. QED  BY <1>2, <1>4

LEMMA AdoptBecomes ==
  ASSUME mruns \in [Runners -> RunRows], NEW p \in Runners, NEW d \in 0..MaxDigests, Adopt(p, d)
  PROVE  /\ OnlyRun(p)
         /\ IsRun(mruns'[p], "append", mruns[p].todo, mruns[p].observed, mruns[p].item, mruns[p].outcome,
                  mruns[p].appended, d, mruns[p].list)
<1>. DEFINE f == mruns[p]
            x == [f EXCEPT !.phase = "append"]
            y == [x EXCEPT !.digest = d]
<1>1. IsRun(x, "append", f.todo, f.observed, f.item, f.outcome, f.appended, f.digest, f.list)
  BY SetPhase DEF Phases
<1>2. IsRun(y, "append", f.todo, f.observed, f.item, f.outcome, f.appended, d, f.list)
  <2>. HIDE DEF x
  <2>. QED  BY <1>1, SetDigest DEF IsRun
<1>3. mruns' = [mruns EXCEPT ![p] = y]
  BY DEF Adopt
<1>. HIDE DEF y
<1>4. OnlyRun(p) /\ mruns'[p] = y
  BY <1>2, <1>3, RunBecomes DEF IsRun
<1>. QED  BY <1>2, <1>4

LEMMA AppendedBecomes ==
  ASSUME mruns \in [Runners -> RunRows], NEW p \in Runners,
         mruns' = [mruns EXCEPT ![p] = [@ EXCEPT !.phase = "record", !.appended = TRUE]]
  PROVE  /\ OnlyRun(p)
         /\ IsRun(mruns'[p], "record", mruns[p].todo, mruns[p].observed, mruns[p].item, mruns[p].outcome,
                  TRUE, mruns[p].digest, mruns[p].list)
<1>. DEFINE f == mruns[p]
            x == [f EXCEPT !.phase = "record"]
            y == [x EXCEPT !.appended = TRUE]
<1>1. IsRun(x, "record", f.todo, f.observed, f.item, f.outcome, f.appended, f.digest, f.list)
  BY SetPhase DEF Phases
<1>2. IsRun(y, "record", f.todo, f.observed, f.item, f.outcome, TRUE, f.digest, f.list)
  <2>. HIDE DEF x
  <2>. QED  BY <1>1, SetAppended DEF IsRun
<1>3. mruns' = [mruns EXCEPT ![p] = y]
  OBVIOUS
<1>. HIDE DEF y
<1>4. OnlyRun(p) /\ mruns'[p] = y
  BY <1>2, <1>3, RunBecomes DEF IsRun
<1>. QED  BY <1>2, <1>4

LEMMA ListBecomes ==
  ASSUME mruns \in [Runners -> RunRows], NEW p \in Runners, NEW list \in SUBSET Rows,
         mruns' = [mruns EXCEPT ![p] = [@ EXCEPT !.phase = "enqueue", !.list = list]]
  PROVE  /\ OnlyRun(p)
         /\ IsRun(mruns'[p], "enqueue", mruns[p].todo, mruns[p].observed, mruns[p].item, mruns[p].outcome,
                  mruns[p].appended, mruns[p].digest, list)
<1>. DEFINE f == mruns[p]
            x == [f EXCEPT !.phase = "enqueue"]
            y == [x EXCEPT !.list = list]
<1>1. IsRun(x, "enqueue", f.todo, f.observed, f.item, f.outcome, f.appended, f.digest, f.list)
  BY SetPhase DEF Phases
<1>2. IsRun(y, "enqueue", f.todo, f.observed, f.item, f.outcome, f.appended, f.digest, list)
  <2>. HIDE DEF x
  <2>. QED  BY <1>1, SetList DEF IsRun
<1>3. mruns' = [mruns EXCEPT ![p] = y]
  OBVIOUS
<1>. HIDE DEF y
<1>4. OnlyRun(p) /\ mruns'[p] = y
  BY <1>2, <1>3, RunBecomes DEF IsRun
<1>. QED  BY <1>2, <1>4

LEMMA TodoBecomes ==
  ASSUME mruns \in [Runners -> RunRows], NEW p \in Runners, StopEarly(p)
  PROVE  /\ OnlyRun(p)
         /\ IsRun(mruns'[p], mruns[p].phase, {}, mruns[p].observed, mruns[p].item, mruns[p].outcome,
                  mruns[p].appended, mruns[p].digest, mruns[p].list)
<1>. DEFINE g == [mruns[p] EXCEPT !.todo = {}]
<1>1. IsRun(g, mruns[p].phase, {}, mruns[p].observed, mruns[p].item, mruns[p].outcome,
            mruns[p].appended, mruns[p].digest, mruns[p].list)
  BY SetTodo
<1>2. mruns' = [mruns EXCEPT ![p] = g]
  BY DEF StopEarly
<1>. HIDE DEF g
<1>. QED  BY <1>1, <1>2, RunBecomes DEF IsRun

LEMMA IdleBecomes ==
  ASSUME mruns \in [Runners -> RunRows], NEW p \in Runners, mruns' = [mruns EXCEPT ![p] = IdleRun]
  PROVE  OnlyRun(p) /\ IsRun(mruns'[p], "idle", {}, FALSE, NoItem, "none", FALSE, 0, {})
BY IdleIsRun, RunBecomes DEF IsRun

LEMMA ClaimBecomes ==
  ASSUME Typed, NEW p \in Runners, ClaimRules(p)
  PROVE  /\ OnlyRun(p)
         /\ IsRun(mruns'[p], "portfolios", {Claimed(r) : r \in Batch}, FALSE, NoItem, "none", FALSE, 0, {})
<1>. DEFINE todo == {Claimed(r) : r \in Batch}
            x == [IdleRun EXCEPT !.phase = "portfolios"]
            y == [x EXCEPT !.todo = todo]
<1>1. todo \in SUBSET Items
  <2>1. \A r \in Batch : r \in Rules /\ rules[r].version \in 1..MaxVersion /\ rules[r].state \in {"armed", "latched"}
    BY MonitorAssumption DEF MonitorAssumption, Batch, Due, Typed, Exists, RuleRows
  <2>. QED  BY <2>1 DEF Claimed, Items
<1>2. IsRun(x, "portfolios", {}, FALSE, NoItem, "none", FALSE, 0, {})
  BY IdleIsRun, SetPhase DEF IsRun, Phases
<1>3. IsRun(y, "portfolios", todo, FALSE, NoItem, "none", FALSE, 0, {})
  <2>. HIDE DEF x, todo
  <2>. QED  BY <1>1, <1>2, SetTodo DEF IsRun
<1>4. mruns' = [mruns EXCEPT ![p] = y]
  BY DEF ClaimRules
<1>. HIDE DEF y
<1>5. OnlyRun(p) /\ mruns'[p] = y
  BY <1>3, <1>4, RunBecomes DEF IsRun, Typed
<1>. QED  BY <1>3, <1>5

-----------------------------------------------------------------------------
(* Rows of rules and digests.                                                *)

\* What record_monitor_evaluation leaves of the rules.
LEMMA WrittenBecomes ==
  ASSUME Typed, NEW r \in Rules, NEW state \in {"armed", "latched"}, NEW due, Written(r, state, due)
  PROVE  /\ rules' \in [Rules -> RuleRows]
         /\ \A q \in Rules : q # r => rules'[q] = rules[q]
         /\ rules'[r].status = rules[r].status /\ rules'[r].version = rules[r].version
         /\ Exists(r) => rules'[r].state = state /\ rules'[r].leased = FALSE
<1>1. CASE Exists(r)
  <2>. DEFINE x == [rules[r] EXCEPT !.state = state]
              y == [x EXCEPT !.leased = FALSE]
  <2>1. x \in RuleRows /\ x.status = rules[r].status /\ x.version = rules[r].version /\ x.state = state
    BY DEF Typed, RuleRows
  <2>2. y \in RuleRows /\ y.status = rules[r].status /\ y.version = rules[r].version /\ y.state = state
        /\ y.leased = FALSE
    <3>. HIDE DEF x
    <3>. QED  BY <2>1 DEF RuleRows
  <2>3. rules' = [rules EXCEPT ![r] = y]
    BY <1>1 DEF Written
  <2>. HIDE DEF y
  <2>. QED  BY <2>2, <2>3 DEF Typed
<1>2. CASE ~ Exists(r)
  BY <1>2 DEF Written, Typed
<1>. QED  BY <1>1, <1>2

\* The rule that a run judges, and what it would write of it.
LEMMA JudgedIsRule ==
  ASSUME RunsInv, NEW p \in Runners, mruns[p].phase \in Judging
  PROVE  /\ mruns[p].item \in mruns[p].todo /\ mruns[p].item \in Items /\ mruns[p].item.rule \in Rules
         /\ nextState(mruns[p].item.state, mruns[p].outcome) \in {"armed", "latched"}
         /\ StateAfterError(p) \in {"armed", "latched"}
<1>1. mruns[p].item \in mruns[p].todo /\ mruns[p].item \in Items
  BY DEF RunsInv, HandsInOrder, Typed, RunRows
<1>2. mruns[p].item.rule \in Rules /\ mruns[p].item.state \in {"armed", "latched"}
  BY <1>1 DEF Items
<1>. QED  BY <1>1, <1>2 DEF nextState, StateAfterError

\* The row that append_monitor_breach adds.
LEMMA BreachTyped ==
  ASSUME RunsInv, NEW p \in Runners, AppendBreach(p)
  PROVE  [rule |-> mruns[p].item.rule, version |-> mruns[p].item.version,
          n |-> NextBreach(mruns[p].item.rule), digest |-> mruns[p].digest] \in Rows
<1>1. mruns[p].item.rule \in Rules /\ mruns[p].item.version \in 1..MaxVersion
  BY JudgedIsRule DEF AppendBreach, Judging, Items
<1>2. mruns[p].digest \in 1..MaxDigests
  BY MonitorAssumption DEF MonitorAssumption, RunsInv, DigestInHand, AppendBreach, Typed, RunRows
<1>3. NextBreach(mruns[p].item.rule) \in 1..MaxBreaches
  <2>. DEFINE own == {b \in breaches : b.rule = mruns[p].item.rule}
  <2>1. Cardinality(own) \in Nat
    BY FS_Subset, FS_CardinalityType DEF RunsInv, Typed
  <2>2. NextBreach(mruns[p].item.rule) = 1 + Cardinality(own) /\ NextBreach(mruns[p].item.rule) <= MaxBreaches
    BY DEF NextBreach, AppendBreach
  <2>. HIDE DEF own
  <2>. QED  BY <2>1, <2>2, MonitorAssumption DEF MonitorAssumption
<1>. QED  BY <1>1, <1>2, <1>3 DEF Rows

-----------------------------------------------------------------------------
(* Runs keep their order.                                                    *)

\* A step that changes no run, no digest and no breach.
LEMMA RunsRest ==
  ASSUME RunsInv, UNCHANGED <<digests, mruns>>, rules' \in [Rules -> RuleRows],
         (\A r \in Rules : Exists(r) => rules[r].version >= 1)',
         breaches' \in SUBSET breaches, notified' \in [Rules -> BOOLEAN], hit' \in SUBSET Rules
  PROVE  RunsInv'
BY FS_Subset DEF RunsInv, Typed, HandsInOrder, DigestInHand

\* A step that changes nothing but runs keeps the rest typed.
RestUnchanged == UNCHANGED <<rules, digests, breaches>> /\ notified' \in [Rules -> BOOLEAN] /\ hit' \in SUBSET Rules

LEMMA MarkTyped ==
  ASSUME NEW f \in [Rules -> BOOLEAN], NEW r \in Rules, NEW b \in BOOLEAN
  PROVE  [f EXCEPT ![r] = b] \in [Rules -> BOOLEAN]
OBVIOUS

LEMMA RestingTyped ==
  ASSUME RunsInv, notified' = notified, hit' = hit
  PROVE  notified' \in [Rules -> BOOLEAN] /\ hit' \in SUBSET Rules
<1>. notified \in [Rules -> BOOLEAN] /\ hit \in SUBSET Rules
  BY DEF RunsInv, Typed
<1>. QED  BY Zenon

LEMMA RestTyped ==
  ASSUME RunsInv, RestUnchanged
  PROVE  rules' \in [Rules -> RuleRows] /\ (\A r \in Rules : Exists(r) => rules[r].version >= 1)'
         /\ digests' = digests /\ breaches' = breaches
BY DEF RestUnchanged, RunsInv, Typed, Exists

\* A step of one run that keeps to what it has claimed and to its digest.
LEMMA RunKeeps ==
  ASSUME RunsInv, NEW p \in Runners, OnlyRun(p), digests' = digests, breaches' = breaches,
         rules' \in [Rules -> RuleRows], (\A r \in Rules : Exists(r) => rules[r].version >= 1)',
         notified' \in [Rules -> BOOLEAN], hit' \in SUBSET Rules,
         mruns'[p].todo \in SUBSET mruns[p].todo,
         mruns'[p].phase \in Judging => mruns'[p].item \in mruns'[p].todo,
         mruns'[p].phase \notin Judging => mruns'[p].item = NoItem,
         mruns'[p].digest = mruns[p].digest \/ mruns'[p].digest = 0,
         mruns'[p].phase \in {"append", "enqueue"} => mruns'[p].digest # 0,
         mruns'[p].phase \in {"find", "insert", "idle"} => mruns'[p].digest = 0
  PROVE  RunsInv'
<1>1. Typed'
  BY DEF RunsInv, Typed, OnlyRun
<1>2. HandsInOrder'
  BY DEF RunsInv, HandsInOrder, OnlyRun
<1>3. DigestInHand'
  BY DEF RunsInv, DigestInHand, OnlyRun
<1>. QED  BY <1>1, <1>2, <1>3 DEF RunsInv

LEMMA RulesTyped ==
  ASSUME RunsInv
  PROVE  /\ mruns \in [Runners -> RunRows] /\ rules \in [Rules -> RuleRows]
         /\ \A q \in Rules : Exists(q) => rules[q].version >= 1
         /\ breaches \in SUBSET Rows /\ IsFiniteSet(breaches)
BY DEF RunsInv, Typed

LEMMA MarksTyped == ASSUME RunsInv PROVE notified \in [Rules -> BOOLEAN] /\ hit \in SUBSET Rules
BY DEF RunsInv, Typed

LEMMA SaveRuns == ASSUME RunsInv, NEW r \in Rules, Save(r) PROVE RunsInv'
<1>1. PICK enabled \in BOOLEAN : rules' = [rules EXCEPT ![r] = Saved(r, enabled)]
  BY DEF Save
<1>2. Saved(r, enabled) \in RuleRows /\ Saved(r, enabled).version >= 1
  BY RulesTyped, MonitorAssumption DEF MonitorAssumption, Save, Saved, RuleRows
<1>3. rules' \in [Rules -> RuleRows] /\ (\A q \in Rules : Exists(q) => rules[q].version >= 1)'
  <2>. HIDE DEF Saved
  <2>. QED  BY <1>1, <1>2, RulesTyped DEF Exists
<1>4. UNCHANGED <<digests, mruns>> /\ breaches' \in SUBSET breaches /\ hit' \in SUBSET Rules
  <2>1. hit \in SUBSET Rules
    BY MarksTyped
  <2>. QED  BY <2>1 DEF Save
<1>5. notified' \in [Rules -> BOOLEAN]
  <2>1. notified' = [notified EXCEPT ![r] = FALSE] /\ notified \in [Rules -> BOOLEAN]
    BY MarksTyped DEF Save
  <2>. QED  BY <2>1, MarkTyped, Zenon
<1>. QED  BY <1>3, <1>4, <1>5, RunsRest

LEMMA DeleteRuns == ASSUME RunsInv, NEW r \in Rules, DeleteRule(r) PROVE RunsInv'
<1>1. rules' \in [Rules -> RuleRows] /\ (\A q \in Rules : Exists(q) => rules[q].version >= 1)'
  BY RulesTyped, MonitorAssumption DEF MonitorAssumption, DeleteRule, RuleRows, Exists
<1>2. breaches' \in SUBSET breaches
  BY DEF DeleteRule
<1>3. UNCHANGED <<digests, mruns>> /\ notified' \in [Rules -> BOOLEAN] /\ hit' \in SUBSET Rules
  BY RestingTyped DEF DeleteRule
<1>. QED  BY <1>1, <1>2, <1>3, RunsRest

LEMMA TimeRuns == ASSUME RunsInv, NEW r \in Rules, IntervalPasses(r) \/ LeaseExpires(r) PROVE RunsInv'
<1>1. rules' \in [Rules -> RuleRows] /\ (\A q \in Rules : Exists(q) => rules[q].version >= 1)'
  <2>1. CASE IntervalPasses(r)
    <3>1. rules' = rules
      BY <2>1 DEF IntervalPasses
    <3>. QED  BY <3>1, RulesTyped DEF Exists
  <2>2. CASE LeaseExpires(r)
    <3>1. rules' = [rules EXCEPT ![r].leased = FALSE] /\ rules \in [Rules -> RuleRows]
      BY <2>2, RulesTyped DEF LeaseExpires
    <3>2. rules' \in [Rules -> RuleRows]
      BY <3>1 DEF RuleRows
    <3>3. \A q \in Rules : rules'[q].status = rules[q].status /\ rules'[q].version = rules[q].version
      BY <3>1 DEF RuleRows
    <3>. QED  BY <3>2, <3>3, RulesTyped DEF Exists
  <2>. QED  BY <2>1, <2>2
<1>2. UNCHANGED <<digests, mruns>> /\ breaches' \in SUBSET breaches
      /\ notified' \in [Rules -> BOOLEAN] /\ hit' \in SUBSET Rules
  BY RestingTyped DEF IntervalPasses, LeaseExpires
<1>. QED  BY <1>1, <1>2, RunsRest

\* What claim_due_monitor_rules leaves of the rules.
LEMMA ClaimedRules ==
  ASSUME RunsInv, NEW p \in Runners, ClaimRules(p)
  PROVE  /\ rules' \in [Rules -> RuleRows]
         /\ \A r \in Rules : /\ rules'[r].status = rules[r].status /\ rules'[r].version = rules[r].version
                             /\ rules'[r].state = rules[r].state
                             /\ r \in Batch => rules'[r].leased = TRUE /\ ~ rules[r].leased /\ Exists(r)
                             /\ r \notin Batch => rules'[r] = rules[r]
<1>1. \A r \in Batch : ~ rules[r].leased /\ Exists(r)
  BY DEF Batch, Due, Exists
<1>2. rules' = [r \in Rules |-> IF r \in Batch THEN [rules[r] EXCEPT !.leased = TRUE] ELSE rules[r]]
  BY DEF ClaimRules
<1>. QED  BY <1>1, <1>2, RulesTyped DEF RuleRows

LEMMA ClaimRuns == ASSUME RunsInv, NEW p \in Runners, ClaimRules(p) PROVE RunsInv'
<1>1. Typed
  BY DEF RunsInv
<1>2. Typed'
  <2>1. (\A r \in Rules : Exists(r) => rules[r].version >= 1)'
    BY ClaimedRules, RulesTyped DEF Exists
  <2>. QED  BY <1>1, <2>1, ClaimBecomes, ClaimedRules DEF Typed, ClaimRules, OnlyRun
<1>3. HandsInOrder'
  <2>1. \A i, j \in {Claimed(r) : r \in Batch} : i.rule = j.rule => i = j
    BY DEF Claimed
  <2>. QED  BY <1>1, <2>1, ClaimBecomes DEF HandsInOrder, RunsInv, OnlyRun, IsRun, Judging
<1>4. DigestInHand'
  BY <1>1, ClaimBecomes DEF DigestInHand, RunsInv, OnlyRun, IsRun, ClaimRules
<1>. QED  BY <1>2, <1>3, <1>4 DEF RunsInv

LEMMA ObserveRuns == ASSUME RunsInv, NEW p \in Runners, Observe(p) PROVE RunsInv'
<1>1. mruns[p].phase = "portfolios"
  BY DEF Observe
<1>2. RestUnchanged
  BY RestingTyped DEF Observe, RestUnchanged
<1>3. PICK item \in mruns[p].todo, observed \in BOOLEAN :
        IsRun(mruns'[p], "rules", mruns[p].todo, observed, item, mruns[p].outcome,
              mruns[p].appended, mruns[p].digest, mruns[p].list)
  BY RulesTyped, ObserveBecomes
<1>4. OnlyRun(p) /\ mruns'[p].todo \in SUBSET mruns[p].todo /\ mruns'[p].phase = "rules"
      /\ mruns'[p].item \in mruns'[p].todo /\ mruns'[p].digest = mruns[p].digest
  BY <1>3, RulesTyped, ObserveBecomes DEF IsRun
<1>. QED  BY <1>2, <1>4, RestTyped, RunKeeps DEF RestUnchanged, Judging

LEMMA StopRuns == ASSUME RunsInv, NEW p \in Runners, StopEarly(p) PROVE RunsInv'
<1>1. mruns[p].phase = "portfolios" /\ mruns[p].item = NoItem
  BY DEF StopEarly, RunsInv, HandsInOrder, Judging
<1>2. RestUnchanged
  BY RestingTyped DEF StopEarly, RestUnchanged
<1>3. OnlyRun(p) /\ mruns'[p].todo \in SUBSET mruns[p].todo /\ mruns'[p].phase = "portfolios"
      /\ mruns'[p].item = NoItem /\ mruns'[p].digest = mruns[p].digest
  BY <1>1, RulesTyped, TodoBecomes DEF IsRun
<1>. QED  BY <1>2, <1>3, RestTyped, RunKeeps DEF RestUnchanged, Judging

\* A step of a run that still judges the same item.
LEMMA JudgingOn ==
  ASSUME RunsInv, NEW p \in Runners, OnlyRun(p), RestUnchanged,
         mruns[p].phase \in Judging, mruns'[p].phase \in Judging,
         mruns'[p].todo = mruns[p].todo, mruns'[p].item = mruns[p].item, mruns'[p].digest = mruns[p].digest,
         mruns'[p].phase = "append" => mruns[p].digest # 0,
         mruns'[p].phase \in {"find", "insert"} => mruns[p].digest = 0
  PROVE  RunsInv'
<1>1. mruns[p].item \in mruns[p].todo /\ mruns[p].digest \in 0..MaxDigests
  BY JudgedIsRule, RulesTyped DEF RunRows
<1>. QED  BY <1>1, RestTyped, RunKeeps DEF RestUnchanged, Judging

\* What evaluateRule makes of the run.
LEMMA EvaluateBecomes ==
  ASSUME RunsInv, NEW p \in Runners, Evaluate(p)
  PROVE  /\ mruns[p].phase = "rules"
         /\ OnlyRun(p)
         /\ \E outcome \in {"none", "breached", "clear", "deferred"}, phase \in {"record", "find", "append", "error"} :
              /\ IsRun(mruns'[p], phase, mruns[p].todo, mruns[p].observed, mruns[p].item, outcome,
                       mruns[p].appended, mruns[p].digest, mruns[p].list)
              /\ phase = "append" => mruns[p].digest # 0
              /\ phase = "find" => mruns[p].digest = 0
              /\ phase \in {"find", "append"} => shouldNotify(mruns[p].item.state, outcome)
              /\ phase = "record" => outcome # "none" /\ ~ shouldNotify(mruns[p].item.state, outcome)
<1>1. mruns \in [Runners -> RunRows] /\ mruns[p].phase = "rules"
  BY RulesTyped DEF Evaluate
<1>2. ASSUME NEW outcome \in {"breached", "clear", "deferred"},
             mruns' = [mruns EXCEPT ![p] = [@ EXCEPT !.outcome = outcome,
               !.phase = IF ~shouldNotify(mruns[p].item.state, outcome) THEN "record"
                         ELSE IF mruns[p].digest = 0 THEN "find" ELSE "append"]]
      PROVE  /\ OnlyRun(p)
             /\ \E phase \in {"record", "find", "append", "error"} :
                  /\ IsRun(mruns'[p], phase, mruns[p].todo, mruns[p].observed, mruns[p].item, outcome,
                       mruns[p].appended, mruns[p].digest, mruns[p].list)
                  /\ phase = "append" => mruns[p].digest # 0
                  /\ phase = "find" => mruns[p].digest = 0
                  /\ phase \in {"find", "append"} => shouldNotify(mruns[p].item.state, outcome)
                  /\ phase = "record" => outcome # "none" /\ ~ shouldNotify(mruns[p].item.state, outcome)
  <2>. DEFINE phase == IF ~shouldNotify(mruns[p].item.state, outcome) THEN "record"
                       ELSE IF mruns[p].digest = 0 THEN "find" ELSE "append"
  <2>1. phase \in {"record", "find", "append", "error"} /\ phase \in Phases
    BY DEF Phases
  <2>2. /\ phase = "append" => mruns[p].digest # 0
        /\ phase = "find" => mruns[p].digest = 0
        /\ phase \in {"find", "append"} => shouldNotify(mruns[p].item.state, outcome)
        /\ phase = "record" => outcome # "none" /\ ~ shouldNotify(mruns[p].item.state, outcome)
    OBVIOUS
  <2>3. mruns' = [mruns EXCEPT ![p] = [@ EXCEPT !.outcome = outcome, !.phase = phase]]
    BY <1>2
  <2>4. outcome \in {"none", "breached", "clear", "deferred"}
    OBVIOUS
  <2>. HIDE DEF phase
  <2>. QED  BY <1>1, <2>1, <2>2, <2>3, <2>4, OutcomeBecomes
<1>3. CASE mruns' = [mruns EXCEPT ![p].phase = "error"]
  <2>1. OnlyRun(p) /\ IsRun(mruns'[p], "error", mruns[p].todo, mruns[p].observed, mruns[p].item, mruns[p].outcome,
                            mruns[p].appended, mruns[p].digest, mruns[p].list)
    BY <1>1, <1>3, PhaseBecomes DEF Phases
  <2>2. mruns[p].outcome \in {"none", "breached", "clear", "deferred"}
    BY <1>1 DEF RunRows
  <2>. QED  BY <1>1, <2>1, <2>2
<1>. QED  BY <1>1, <1>2, <1>3 DEF Evaluate

LEMMA EvaluateRuns == ASSUME RunsInv, NEW p \in Runners, Evaluate(p) PROVE RunsInv'
<1>1. RestUnchanged
  BY RestingTyped DEF Evaluate, RestUnchanged
<1>2. PICK outcome \in {"none", "breached", "clear", "deferred"}, phase \in {"record", "find", "append", "error"} :
        /\ IsRun(mruns'[p], phase, mruns[p].todo, mruns[p].observed, mruns[p].item, outcome,
                 mruns[p].appended, mruns[p].digest, mruns[p].list)
        /\ phase = "append" => mruns[p].digest # 0
        /\ phase = "find" => mruns[p].digest = 0
  BY EvaluateBecomes
<1>3. OnlyRun(p) /\ mruns[p].phase \in Judging /\ mruns'[p].phase \in Judging
  BY <1>2, EvaluateBecomes DEF IsRun, Judging
<1>. QED  BY <1>1, <1>2, <1>3, JudgingOn DEF IsRun

LEMMA FindRuns == ASSUME RunsInv, NEW p \in Runners, FindDigest(p) PROVE RunsInv'
<1>1. mruns[p].phase = "find" /\ mruns[p].digest = 0 /\ mruns[p].item \in mruns[p].todo
  BY JudgedIsRule DEF FindDigest, Judging, RunsInv, DigestInHand
<1>2. UNCHANGED <<rules, breaches, notified, hit>>
  BY DEF FindDigest
<1>3. ASSUME NEW d \in OpenDigests, Adopt(p, d),
             digests' = IF \E q \in Runners \ {p} : mruns[q].digest = d
                        THEN [digests EXCEPT ![d].shared = TRUE] ELSE digests
      PROVE  RunsInv'
  <2>1. d \in DOMAIN digests /\ d \in 0..MaxDigests /\ d # 0
    BY MonitorAssumption DEF MonitorAssumption, OpenDigests, RunsInv, Typed
  <2>2. OnlyRun(p) /\ IsRun(mruns'[p], "append", mruns[p].todo, mruns[p].observed, mruns[p].item, mruns[p].outcome,
                            mruns[p].appended, d, mruns[p].list)
    BY <1>3, <2>1, RulesTyped, AdoptBecomes
  <2>3. digests' \in Seq(DigestRows) /\ Len(digests') = Len(digests) /\ DOMAIN digests' = DOMAIN digests
    <3>. DEFINE new == [digests[d] EXCEPT !.shared = TRUE]
    <3>1. digests \in Seq(DigestRows) /\ digests[d] \in DigestRows
      BY <2>1 DEF RunsInv, Typed
    <3>2. new \in DigestRows
      BY <3>1 DEF DigestRows
    <3>3. digests' = [digests EXCEPT ![d] = new] \/ digests' = digests
      BY <1>3
    <3>. HIDE DEF new
    <3>. QED  BY <2>1, <3>1, <3>2, <3>3
  <2>4. rules' \in [Rules -> RuleRows] /\ (\A r \in Rules : Exists(r) => rules[r].version >= 1)'
    BY <1>2, RulesTyped DEF Exists
  <2>5. Typed'
    BY <1>2, <2>2, <2>3, <2>4, RulesTyped, RestingTyped DEF Typed, OnlyRun, RunsInv
  <2>6. HandsInOrder'
    BY <1>1, <2>2 DEF HandsInOrder, RunsInv, OnlyRun, IsRun, Judging
  <2>7. DigestInHand'
    BY <2>1, <2>2, <2>3 DEF DigestInHand, RunsInv, OnlyRun, IsRun
  <2>. QED  BY <2>5, <2>6, <2>7 DEF RunsInv
<1>4. CASE mruns' = [mruns EXCEPT ![p].phase = "insert"] /\ UNCHANGED digests
  <2>1. OnlyRun(p) /\ IsRun(mruns'[p], "insert", mruns[p].todo, mruns[p].observed, mruns[p].item, mruns[p].outcome,
                            mruns[p].appended, mruns[p].digest, mruns[p].list)
    BY <1>4, RulesTyped, PhaseBecomes DEF Phases
  <2>2. RestUnchanged
    BY <1>2, <1>4, RestingTyped DEF RestUnchanged
  <2>. QED  BY <1>1, <2>1, <2>2, JudgingOn DEF IsRun, Judging
<1>. QED  BY <1>3, <1>4 DEF FindDigest

LEMMA InsertRuns == ASSUME RunsInv, NEW p \in Runners, InsertDigest(p) PROVE RunsInv'
<1>. DEFINE row == [status |-> "open", payload |-> {}, shared |-> FALSE]
            d == Len(digests) + 1
<1>1. mruns[p].phase = "insert" /\ mruns[p].item \in mruns[p].todo
  BY JudgedIsRule DEF InsertDigest, Judging
<1>2. UNCHANGED <<rules, breaches, notified, hit>> /\ digests \in Seq(DigestRows) /\ row \in DigestRows
  BY DEF InsertDigest, DigestRows, RunsInv, Typed
<1>3. digests' = Append(digests, row) /\ Len(digests) < MaxDigests
  BY DEF InsertDigest
<1>. HIDE DEF row
<1>4. digests' \in Seq(DigestRows) /\ Len(digests') = d /\ DOMAIN digests' = (DOMAIN digests) \cup {d}
  BY <1>2, <1>3
<1>5. d \in 0..MaxDigests /\ d # 0
  BY <1>2, <1>3, MonitorAssumption DEF MonitorAssumption
<1>6. OnlyRun(p) /\ IsRun(mruns'[p], "append", mruns[p].todo, mruns[p].observed, mruns[p].item, mruns[p].outcome,
                            mruns[p].appended, d, mruns[p].list)
  <2>1. Adopt(p, d)
    BY <1>4 DEF InsertDigest
  <2>. QED  BY <1>5, <2>1, RulesTyped, AdoptBecomes
<1>7. rules' \in [Rules -> RuleRows] /\ (\A r \in Rules : Exists(r) => rules[r].version >= 1)'
  BY <1>2, RulesTyped DEF Exists
<1>8. Typed'
  BY <1>2, <1>4, <1>5, <1>6, <1>7, RulesTyped, RestingTyped DEF Typed, OnlyRun
<1>9. HandsInOrder'
  BY <1>1, <1>6 DEF HandsInOrder, RunsInv, OnlyRun, IsRun, Judging
<1>10. DigestInHand'
  BY <1>4, <1>5, <1>6 DEF DigestInHand, RunsInv, OnlyRun, IsRun
<1>. QED  BY <1>8, <1>9, <1>10 DEF RunsInv

\* The run after append_monitor_breach: with its answer, or without.
LEMMA AppendBecomes ==
  ASSUME RunsInv, NEW p \in Runners, AppendBreach(p)
  PROVE  /\ OnlyRun(p)
         /\ \E phase \in {"record", "error"}, appended \in BOOLEAN :
              /\ IsRun(mruns'[p], phase, mruns[p].todo, mruns[p].observed, mruns[p].item, mruns[p].outcome,
                       appended, mruns[p].digest, mruns[p].list)
              /\ \/ phase = "record" /\ appended /\ hit' = hit
                 \/ phase = "error" /\ appended = mruns[p].appended /\ hit' = hit \cup {mruns[p].item.rule}
<1>1. CASE mruns' = [mruns EXCEPT ![p] = [@ EXCEPT !.phase = "record", !.appended = TRUE]] /\ hit' = hit
  <2>1. OnlyRun(p) /\ IsRun(mruns'[p], "record", mruns[p].todo, mruns[p].observed, mruns[p].item, mruns[p].outcome,
                            TRUE, mruns[p].digest, mruns[p].list)
    BY <1>1, RulesTyped, AppendedBecomes
  <2>. QED  BY <1>1, <2>1, Zenon
<1>2. CASE mruns' = [mruns EXCEPT ![p].phase = "error"] /\ hit' = hit \cup {mruns[p].item.rule}
  <2>1. OnlyRun(p) /\ IsRun(mruns'[p], "error", mruns[p].todo, mruns[p].observed, mruns[p].item, mruns[p].outcome,
                            mruns[p].appended, mruns[p].digest, mruns[p].list)
    BY <1>2, RulesTyped, PhaseBecomes DEF Phases
  <2>2. mruns[p].appended \in BOOLEAN
    BY RulesTyped DEF RunRows
  <2>. QED  BY <1>2, <2>1, <2>2, Zenon
<1>. QED  BY <1>1, <1>2 DEF AppendBreach

LEMMA AppendRuns == ASSUME RunsInv, NEW p \in Runners, AppendBreach(p) PROVE RunsInv'
<1>. DEFINE r == mruns[p].item.rule
            row == [rule |-> r, version |-> mruns[p].item.version, n |-> NextBreach(r), digest |-> mruns[p].digest]
<1>1. mruns[p].phase = "append" /\ mruns[p].item \in mruns[p].todo /\ r \in Rules /\ mruns[p].digest # 0
  BY JudgedIsRule DEF AppendBreach, Judging, RunsInv, DigestInHand
<1>2. UNCHANGED <<rules, digests>> /\ breaches' = breaches \cup {row} /\ notified' = [notified EXCEPT ![r] = TRUE]
  BY DEF AppendBreach
<1>3. row \in Rows
  BY BreachTyped
<1>. HIDE DEF row
<1>4. breaches' \in SUBSET Rows /\ IsFiniteSet(breaches')
  BY <1>2, <1>3, RulesTyped, FS_AddElement
<1>5. notified' \in [Rules -> BOOLEAN]
  BY <1>1, <1>2, MarksTyped, MarkTyped, Zenon
<1>6. hit' \in SUBSET Rules
  BY <1>1, AppendBecomes, MarksTyped
<1>7. PICK phase \in {"record", "error"}, appended \in BOOLEAN :
        IsRun(mruns'[p], phase, mruns[p].todo, mruns[p].observed, mruns[p].item, mruns[p].outcome,
              appended, mruns[p].digest, mruns[p].list)
  BY AppendBecomes
<1>8. OnlyRun(p)
  BY AppendBecomes
<1>9. Typed'
  <2>1. rules' \in [Rules -> RuleRows] /\ (\A q \in Rules : Exists(q) => rules[q].version >= 1)'
    BY <1>2, RulesTyped DEF Exists
  <2>. QED  BY <1>2, <1>4, <1>5, <1>6, <1>8, <2>1 DEF Typed, OnlyRun, RunsInv
<1>10. HandsInOrder'
  BY <1>1, <1>7, <1>8 DEF HandsInOrder, RunsInv, OnlyRun, IsRun, Judging
<1>11. DigestInHand'
  BY <1>1, <1>2, <1>7, <1>8 DEF DigestInHand, RunsInv, OnlyRun, IsRun
<1>. QED  BY <1>9, <1>10, <1>11 DEF RunsInv

\* The run after its rule has been recorded, or not: it moves on, or stays at an error.
LEMMA RecordBecomes ==
  ASSUME RunsInv, NEW p \in Runners, Record(p)
  PROVE  \/ MovesOn(p) /\ hit' = hit
         \/ /\ OnlyRun(p)
            /\ IsRun(mruns'[p], "error", mruns[p].todo, mruns[p].observed, mruns[p].item, mruns[p].outcome,
                     mruns[p].appended, mruns[p].digest, mruns[p].list)
            /\ hit' = hit \cup {mruns[p].item.rule}
<1>1. CASE NextRule(p) /\ UNCHANGED hit
  BY <1>1, RulesTyped, NextRuleMovesOn
<1>2. CASE mruns' = [mruns EXCEPT ![p].phase = "error"] /\ hit' = hit \cup {mruns[p].item.rule}
  BY <1>2, RulesTyped, PhaseBecomes DEF Phases
<1>. QED  BY <1>1, <1>2 DEF Record

\* A run that has let go of its item keeps its order.
LEMMA MovedRuns ==
  ASSUME RunsInv, NEW p \in Runners, mruns[p].phase \in Judging, MovesOn(p),
         digests' = digests, breaches' = breaches,
         rules' \in [Rules -> RuleRows], (\A r \in Rules : Exists(r) => rules[r].version >= 1)',
         notified' \in [Rules -> BOOLEAN], hit' \in SUBSET Rules
  PROVE  RunsInv'
<1>1. PICK item \in Items \cup {NoItem}, observed \in BOOLEAN :
       /\ IsRun(mruns'[p], IF item = NoItem THEN "portfolios" ELSE "rules", mruns[p].todo \ {mruns[p].item},
                observed, item, "none", FALSE, mruns[p].digest, mruns[p].list)
       /\ item # NoItem => item \in mruns[p].todo \ {mruns[p].item}
  BY DEF MovesOn
<1>. QED  BY <1>1, RunKeeps DEF MovesOn, IsRun, Judging

LEMMA RecordRuns == ASSUME RunsInv, NEW p \in Runners, Record(p) PROVE RunsInv'
<1>. DEFINE r == mruns[p].item.rule
            state == nextState(mruns[p].item.state, mruns[p].outcome)
<1>1. mruns[p].phase = "record" /\ mruns[p].item \in mruns[p].todo /\ r \in Rules /\ state \in {"armed", "latched"}
  BY JudgedIsRule DEF Record, Judging
<1>2. rules' \in [Rules -> RuleRows] /\ (\A q \in Rules : Exists(q) => rules[q].version >= 1)'
  <2>1. Written(r, state, mruns[p].outcome = "deferred") /\ Typed
    BY DEF Record, RunsInv
  <2>. HIDE DEF state
  <2>. QED  BY <1>1, <2>1, WrittenBecomes, RulesTyped DEF Exists
<1>3. notified' \in [Rules -> BOOLEAN]
  <2>1. notified' = [notified EXCEPT ![r] = notified[r] /\ mruns[p].outcome # "clear"]
    BY DEF Record
  <2>. QED  BY <1>1, <2>1, MarksTyped, MarkTyped, Zenon
<1>4. hit' \in SUBSET Rules
  BY <1>1, RecordBecomes, MarksTyped
<1>5. digests' = digests /\ breaches' = breaches
  BY DEF Record
<1>6. CASE MovesOn(p)
  BY <1>1, <1>2, <1>3, <1>4, <1>5, <1>6, MovedRuns DEF Judging
<1>7. CASE OnlyRun(p) /\ IsRun(mruns'[p], "error", mruns[p].todo, mruns[p].observed, mruns[p].item, mruns[p].outcome,
                     mruns[p].appended, mruns[p].digest, mruns[p].list)
  <2>1. mruns'[p].phase = "error" /\ mruns'[p].todo = mruns[p].todo /\ mruns'[p].item = mruns[p].item
        /\ mruns'[p].digest = mruns[p].digest
    BY <1>7 DEF IsRun
  <2>. QED  BY <1>1, <1>2, <1>3, <1>4, <1>5, <1>7, <2>1, RunKeeps DEF Judging
<1>. QED  BY <1>6, <1>7, RecordBecomes

LEMMA RecordErrorRuns == ASSUME RunsInv, NEW p \in Runners, RecordError(p) PROVE RunsInv'
<1>1. mruns[p].phase = "error" /\ mruns[p].item.rule \in Rules /\ StateAfterError(p) \in {"armed", "latched"}
  BY JudgedIsRule DEF RecordError, Judging
<1>2. rules' \in [Rules -> RuleRows] /\ (\A q \in Rules : Exists(q) => rules[q].version >= 1)'
  <2>1. Written(mruns[p].item.rule, StateAfterError(p), TRUE) /\ Typed
    BY DEF RecordError, RunsInv
  <2>. QED  BY <1>1, <2>1, WrittenBecomes, RulesTyped DEF Exists
<1>3. MovesOn(p)
  BY RulesTyped, NextRuleMovesOn DEF RecordError
<1>4. notified' \in [Rules -> BOOLEAN] /\ hit' \in SUBSET Rules
  BY RestingTyped DEF RecordError
<1>. QED  BY <1>1, <1>2, <1>3, <1>4, MovedRuns DEF RecordError, Judging

\* The run after a call of it has failed.
LEMMA FailBecomes ==
  ASSUME RunsInv, NEW p \in Runners, CallFails(p)
  PROVE  /\ mruns[p].phase \in Judging
         /\ \/ /\ OnlyRun(p)
               /\ IsRun(mruns'[p], "error", mruns[p].todo, mruns[p].observed, mruns[p].item, mruns[p].outcome,
                        mruns[p].appended, mruns[p].digest, mruns[p].list)
               /\ hit' = hit /\ mruns[p].phase \in {"find", "insert", "append", "record"}
            \/ /\ MovesOn(p) /\ mruns[p].phase = "error"
               /\ hit' = IF mruns[p].appended THEN hit \cup {mruns[p].item.rule} ELSE hit
<1>1. CASE mruns[p].phase \in {"find", "insert", "append", "record"}
           /\ mruns' = [mruns EXCEPT ![p].phase = "error"] /\ UNCHANGED hit
  BY <1>1, RulesTyped, PhaseBecomes DEF Phases, Judging
<1>2. CASE mruns[p].phase = "error" /\ NextRule(p)
           /\ hit' = IF mruns[p].appended THEN hit \cup {mruns[p].item.rule} ELSE hit
  BY <1>2, RulesTyped, NextRuleMovesOn DEF Judging
<1>. QED  BY <1>1, <1>2 DEF CallFails

LEMMA FailRuns == ASSUME RunsInv, NEW p \in Runners, CallFails(p) PROVE RunsInv'
<1>1. mruns[p].phase \in Judging /\ mruns[p].item.rule \in Rules
  BY FailBecomes, JudgedIsRule
<1>2. hit' \in SUBSET Rules
  BY <1>1, FailBecomes, MarksTyped
<1>3. RestUnchanged
  <2>1. UNCHANGED <<rules, digests, breaches, notified>>
    BY DEF CallFails
  <2>. QED  BY <1>2, <2>1, MarksTyped, Zenon DEF RestUnchanged
<1>4. CASE MovesOn(p)
  BY <1>1, <1>3, <1>4, RestTyped, MovedRuns DEF RestUnchanged
<1>5. CASE OnlyRun(p) /\ IsRun(mruns'[p], "error", mruns[p].todo, mruns[p].observed, mruns[p].item, mruns[p].outcome,
                        mruns[p].appended, mruns[p].digest, mruns[p].list)
  BY <1>1, <1>3, <1>5, JudgingOn DEF IsRun, Judging
<1>. QED  BY <1>4, <1>5, FailBecomes

\* A run that ends lets go of everything.
LEMMA EndRuns ==
  ASSUME RunsInv, NEW p \in Runners, mruns' = [mruns EXCEPT ![p] = IdleRun], RestUnchanged
  PROVE  RunsInv'
<1>1. OnlyRun(p) /\ IsRun(mruns'[p], "idle", {}, FALSE, NoItem, "none", FALSE, 0, {})
  BY RulesTyped, IdleBecomes
<1>2. mruns'[p].todo \in SUBSET mruns[p].todo /\ mruns'[p].phase = "idle" /\ mruns'[p].item = NoItem /\ mruns'[p].digest = 0
  BY <1>1 DEF IsRun
<1>. QED  BY <1>1, <1>2, RestTyped, RunKeeps DEF RestUnchanged, Judging

\* Without rows there is nothing to send; otherwise the run has the list of them.
LEMMA ListedBecomes ==
  ASSUME RunsInv, NEW p \in Runners, ListBreaches(p)
  PROVE  /\ mruns[p].phase = "portfolios" /\ mruns[p].item = NoItem
         /\ \/ mruns' = [mruns EXCEPT ![p] = IdleRun]
            \/ /\ OnlyRun(p) /\ mruns[p].digest # 0
               /\ IsRun(mruns'[p], "enqueue", mruns[p].todo, mruns[p].observed, mruns[p].item, mruns[p].outcome,
                        mruns[p].appended, mruns[p].digest, RowsOf(mruns[p].digest))
<1>1. mruns[p].phase = "portfolios" /\ mruns[p].item = NoItem
  BY DEF ListBreaches, RunsInv, HandsInOrder, Judging
<1>2. CASE RowsOf(mruns[p].digest) # {} /\ mruns' = [mruns EXCEPT ![p] = [@ EXCEPT !.phase = "enqueue",
                                                                               !.list = RowsOf(mruns[p].digest)]]
  <2>1. RowsOf(mruns[p].digest) \in SUBSET Rows
    BY RulesTyped DEF RowsOf
  <2>2. mruns[p].digest # 0
    BY <1>2, RulesTyped DEF RowsOf, Rows
  <2>3. mruns' = [mruns EXCEPT ![p] = [@ EXCEPT !.phase = "enqueue", !.list = RowsOf(mruns[p].digest)]]
    BY <1>2
  <2>. QED  BY <1>1, <2>1, <2>2, <2>3, RulesTyped, ListBecomes
<1>3. CASE mruns' = [mruns EXCEPT ![p] = IdleRun]
  BY <1>1, <1>3
<1>. QED
  <2>1. mruns' = [mruns EXCEPT ![p] = IF RowsOf(mruns[p].digest) = {} THEN IdleRun
                     ELSE [@ EXCEPT !.phase = "enqueue", !.list = RowsOf(mruns[p].digest)]]
    BY DEF ListBreaches
  <2>. QED  BY <1>2, <1>3, <2>1

LEMMA ListRuns == ASSUME RunsInv, NEW p \in Runners, ListBreaches(p) PROVE RunsInv'
<1>1. RestUnchanged
  BY RestingTyped DEF ListBreaches, RestUnchanged
<1>2. CASE mruns' = [mruns EXCEPT ![p] = IdleRun]
  BY <1>1, <1>2, EndRuns
<1>3. CASE OnlyRun(p) /\ mruns[p].digest # 0
           /\ IsRun(mruns'[p], "enqueue", mruns[p].todo, mruns[p].observed, mruns[p].item, mruns[p].outcome,
                    mruns[p].appended, mruns[p].digest, RowsOf(mruns[p].digest))
  <2>1. mruns'[p].todo \in SUBSET mruns[p].todo /\ mruns'[p].phase = "enqueue" /\ mruns'[p].item = NoItem
        /\ mruns'[p].digest = mruns[p].digest /\ mruns'[p].digest # 0
    BY <1>3, ListedBecomes DEF IsRun
  <2>. QED  BY <1>1, <1>3, <2>1, RestTyped, RunKeeps DEF RestUnchanged, Judging
<1>. QED  BY <1>2, <1>3, ListedBecomes

\* Whoever comes first dispatches the digest with its list.
LEMMA EnqueuedBecomes ==
  ASSUME RunsInv, NEW p \in Runners, Enqueue(p)
  PROVE  /\ mruns[p].phase = "enqueue" /\ mruns[p].digest \in DOMAIN digests
         /\ digests' \in Seq(DigestRows) /\ Len(digests') = Len(digests) /\ DOMAIN digests' = DOMAIN digests
         /\ \A d \in DOMAIN digests : digests'[d].shared = digests[d].shared
         /\ \A d \in DOMAIN digests : d # mruns[p].digest => digests'[d] = digests[d]
         /\ digests'[mruns[p].digest].status = "dispatched"
         /\ \/ digests'[mruns[p].digest] = digests[mruns[p].digest]
            \/ digests'[mruns[p].digest].payload = mruns[p].list
<1>. DEFINE d == mruns[p].digest
            x == [digests[d] EXCEPT !.status = "dispatched"]
            y == [x EXCEPT !.payload = mruns[p].list]
<1>1. mruns[p].phase = "enqueue" /\ d \in DOMAIN digests /\ digests \in Seq(DigestRows) /\ digests[d] \in DigestRows
  BY DEF Enqueue, RunsInv, DigestInHand, Typed
<1>2. mruns[p].list \in SUBSET Rows
  BY RulesTyped DEF RunRows
<1>3. x \in DigestRows /\ x.status = "dispatched" /\ x.shared = digests[d].shared
  BY <1>1 DEF DigestRows
<1>4. y \in DigestRows /\ y.status = "dispatched" /\ y.shared = digests[d].shared /\ y.payload = mruns[p].list
  <2>. HIDE DEF x
  <2>. QED  BY <1>2, <1>3 DEF DigestRows
<1>5. digests' = IF digests[d].status = "open" THEN [digests EXCEPT ![d] = y] ELSE digests
  BY DEF Enqueue
<1>. HIDE DEF y
<1>6. CASE digests[d].status = "open"
  BY <1>1, <1>4, <1>5, <1>6
<1>7. CASE digests[d].status # "open"
  BY <1>1, <1>5, <1>7 DEF DigestRows
<1>. QED  BY <1>6, <1>7

LEMMA EnqueueRuns == ASSUME RunsInv, NEW p \in Runners, Enqueue(p) PROVE RunsInv'
<1>1. OnlyRun(p) /\ IsRun(mruns'[p], "idle", {}, FALSE, NoItem, "none", FALSE, 0, {})
  BY RulesTyped, IdleBecomes DEF Enqueue
<1>2. Typed'
  <2>1. rules' \in [Rules -> RuleRows] /\ (\A q \in Rules : Exists(q) => rules[q].version >= 1)'
    BY RulesTyped DEF Enqueue, Exists
  <2>2. breaches' = breaches /\ notified' \in [Rules -> BOOLEAN] /\ hit' \in SUBSET Rules
    BY RestingTyped DEF Enqueue
  <2>. QED  BY <1>1, <2>1, <2>2, RulesTyped, EnqueuedBecomes DEF Typed, OnlyRun, RunsInv
<1>3. HandsInOrder'
  BY <1>1 DEF HandsInOrder, RunsInv, OnlyRun, IsRun, Judging
<1>4. DigestInHand'
  BY <1>1, EnqueuedBecomes DEF DigestInHand, RunsInv, OnlyRun, IsRun
<1>. QED  BY <1>2, <1>3, <1>4 DEF RunsInv

\* A run with an appended breach has its item in hand, so that the crash can be told.
LEMMA KillRuns == ASSUME RunsInv, Findings, NEW p \in Runners, KillRun(p) PROVE RunsInv'
<1>1. mruns[p].appended => mruns[p].item.rule \in Rules
  BY JudgedIsRule DEF Findings, FoundOut, Judging
<1>2. hit' \in SUBSET Rules
  BY <1>1, MarksTyped DEF KillRun
<1>3. RestUnchanged
  <2>1. UNCHANGED <<rules, digests, breaches, notified>>
    BY DEF KillRun
  <2>. QED  BY <1>2, <2>1, MarksTyped, Zenon DEF RestUnchanged
<1>. QED  BY <1>3, EndRuns DEF KillRun

-----------------------------------------------------------------------------
(* What a run has found out.                                                 *)

LEMMA FindingsOfOne ==
  ASSUME Findings, NEW p \in Runners, OnlyRun(p), FoundOut(mruns'[p])
  PROVE  Findings'
BY DEF Findings, OnlyRun

\* A run that has appended nothing and is neither on the way to append nor to record.
LEMMA FoundNothing ==
  ASSUME NEW g, g.appended = FALSE, g.phase \notin {"find", "insert", "append", "record"}
  PROVE  FoundOut(g)
BY DEF FoundOut

\* Before it records, a run has appended nothing.
LEMMA NotAppendedYet ==
  ASSUME RunsInv, Findings, NEW p \in Runners, mruns[p].phase \notin {"record", "error"}
  PROVE  mruns[p].appended = FALSE
<1>1. mruns[p].appended \in BOOLEAN
  BY RulesTyped DEF RunRows
<1>2. ~ mruns[p].appended
  BY DEF Findings, FoundOut
<1>. QED  BY <1>1, <1>2

LEMMA ObserveFindings == ASSUME RunsInv, Findings, NEW p \in Runners, Observe(p) PROVE Findings'
<1>1. mruns[p].appended = FALSE
  BY NotAppendedYet DEF Observe
<1>2. PICK item \in mruns[p].todo, observed \in BOOLEAN :
        IsRun(mruns'[p], "rules", mruns[p].todo, observed, item, mruns[p].outcome,
              mruns[p].appended, mruns[p].digest, mruns[p].list)
  BY RulesTyped, ObserveBecomes
<1>3. mruns'[p].phase = "rules" /\ mruns'[p].appended = FALSE
  BY <1>1, <1>2 DEF IsRun
<1>. QED  BY <1>3, RulesTyped, ObserveBecomes, FoundNothing, FindingsOfOne

LEMMA StopFindings == ASSUME RunsInv, Findings, NEW p \in Runners, StopEarly(p) PROVE Findings'
<1>1. mruns[p].appended = FALSE /\ mruns[p].phase = "portfolios"
  BY NotAppendedYet DEF StopEarly
<1>2. mruns'[p].phase = "portfolios" /\ mruns'[p].appended = FALSE
  BY <1>1, RulesTyped, TodoBecomes DEF IsRun
<1>. QED  BY <1>2, RulesTyped, TodoBecomes, FoundNothing, FindingsOfOne

LEMMA ClaimFindings == ASSUME RunsInv, Findings, NEW p \in Runners, ClaimRules(p) PROVE Findings'
<1>1. Typed
  BY DEF RunsInv
<1>2. mruns'[p].phase = "portfolios" /\ mruns'[p].appended = FALSE
  BY <1>1, ClaimBecomes DEF IsRun
<1>. QED  BY <1>1, <1>2, ClaimBecomes, FoundNothing, FindingsOfOne

LEMMA EndFindings ==
  ASSUME RunsInv, Findings, NEW p \in Runners, mruns' = [mruns EXCEPT ![p] = IdleRun]
  PROVE  Findings'
<1>1. mruns'[p].phase = "idle" /\ mruns'[p].appended = FALSE
  BY RulesTyped, IdleBecomes DEF IsRun
<1>. QED  BY <1>1, RulesTyped, IdleBecomes, FoundNothing, FindingsOfOne

LEMMA MovedFindings == ASSUME RunsInv, Findings, NEW p \in Runners, MovesOn(p) PROVE Findings'
<1>1. mruns'[p].phase \in {"portfolios", "rules"} /\ mruns'[p].appended = FALSE
  BY DEF MovesOn, IsRun
<1>. QED  BY <1>1, FoundNothing, FindingsOfOne DEF MovesOn

LEMMA EvaluateFindings == ASSUME RunsInv, Findings, NEW p \in Runners, Evaluate(p) PROVE Findings'
<1>1. mruns[p].appended = FALSE /\ OnlyRun(p)
  BY NotAppendedYet, EvaluateBecomes
<1>2. PICK outcome \in {"none", "breached", "clear", "deferred"}, phase \in {"record", "find", "append", "error"} :
        /\ IsRun(mruns'[p], phase, mruns[p].todo, mruns[p].observed, mruns[p].item, outcome,
                 mruns[p].appended, mruns[p].digest, mruns[p].list)
        /\ phase \in {"find", "append"} => shouldNotify(mruns[p].item.state, outcome)
        /\ phase = "record" => outcome # "none" /\ ~ shouldNotify(mruns[p].item.state, outcome)
  BY EvaluateBecomes
<1>3. FoundOut(mruns'[p])
  BY <1>1, <1>2 DEF IsRun, FoundOut, shouldNotify
<1>. QED  BY <1>1, <1>3, FindingsOfOne

\* A run that goes on with the breach it has found, or stumbles.
LEMMA FoundFindings ==
  ASSUME RunsInv, Findings, NEW p \in Runners, OnlyRun(p), mruns[p].phase \in {"find", "insert"},
         NEW phase \in {"insert", "append"}, NEW d,
         IsRun(mruns'[p], phase, mruns[p].todo, mruns[p].observed, mruns[p].item, mruns[p].outcome,
               mruns[p].appended, d, mruns[p].list)
  PROVE  Findings'
<1>1. mruns[p].appended = FALSE
  BY NotAppendedYet
<1>2. mruns[p].outcome = "breached" /\ mruns[p].item.state = "armed"
  BY DEF Findings, FoundOut
<1>3. FoundOut(mruns'[p])
  BY <1>1, <1>2 DEF IsRun, FoundOut
<1>. QED  BY <1>3, FindingsOfOne

LEMMA ErrorFindings ==
  ASSUME RunsInv, Findings, NEW p \in Runners, OnlyRun(p),
         IsRun(mruns'[p], "error", mruns[p].todo, mruns[p].observed, mruns[p].item, mruns[p].outcome,
               mruns[p].appended, mruns[p].digest, mruns[p].list)
  PROVE  Findings'
<1>1. FoundOut(mruns[p])
  BY DEF Findings
<1>2. FoundOut(mruns'[p])
  BY <1>1 DEF IsRun, FoundOut
<1>. QED  BY <1>2, FindingsOfOne

LEMMA AppendFindings == ASSUME RunsInv, Findings, NEW p \in Runners, AppendBreach(p) PROVE Findings'
<1>1. mruns[p].phase = "append"
  BY DEF AppendBreach
<1>2. mruns[p].outcome = "breached" /\ mruns[p].item.state = "armed" /\ mruns[p].appended = FALSE
  BY <1>1, NotAppendedYet DEF Findings, FoundOut
<1>3. PICK phase \in {"record", "error"}, appended \in BOOLEAN :
        /\ IsRun(mruns'[p], phase, mruns[p].todo, mruns[p].observed, mruns[p].item, mruns[p].outcome,
                 appended, mruns[p].digest, mruns[p].list)
        /\ \/ phase = "record" /\ appended
           \/ phase = "error" /\ appended = mruns[p].appended
  BY AppendBecomes
<1>4. FoundOut(mruns'[p])
  BY <1>2, <1>3 DEF IsRun, FoundOut
<1>. QED  BY <1>4, AppendBecomes, FindingsOfOne

LEMMA FindFindings == ASSUME RunsInv, Findings, NEW p \in Runners, FindDigest(p) PROVE Findings'
<1>1. mruns[p].phase = "find"
  BY DEF FindDigest
<1>2. ASSUME NEW d \in OpenDigests, Adopt(p, d) PROVE Findings'
  <2>1. d \in 0..MaxDigests
    BY MonitorAssumption DEF MonitorAssumption, OpenDigests, RunsInv, Typed
  <2>. QED  BY <1>1, <1>2, <2>1, RulesTyped, AdoptBecomes, FoundFindings
<1>3. CASE mruns' = [mruns EXCEPT ![p].phase = "insert"]
  <2>1. OnlyRun(p) /\ IsRun(mruns'[p], "insert", mruns[p].todo, mruns[p].observed, mruns[p].item, mruns[p].outcome,
                            mruns[p].appended, mruns[p].digest, mruns[p].list)
    BY <1>3, RulesTyped, PhaseBecomes DEF Phases
  <2>. QED  BY <1>1, <2>1, FoundFindings
<1>. QED  BY <1>2, <1>3 DEF FindDigest

\* InsertDigest adopts what it has inserted.
LEMMA InsertBecomes ==
  ASSUME RunsInv, NEW p \in Runners, InsertDigest(p)
  PROVE  /\ OnlyRun(p)
         /\ IsRun(mruns'[p], "append", mruns[p].todo, mruns[p].observed, mruns[p].item, mruns[p].outcome,
                  mruns[p].appended, Len(digests) + 1, mruns[p].list)
<1>1. digests \in Seq(DigestRows) /\ Len(digests) < MaxDigests
  BY DEF InsertDigest, RunsInv, Typed
<1>2. Len(digests) + 1 \in 0..MaxDigests
  BY <1>1, MonitorAssumption DEF MonitorAssumption
<1>3. Adopt(p, Len(digests) + 1)
  BY <1>1 DEF InsertDigest
<1>. QED  BY <1>2, <1>3, RulesTyped, AdoptBecomes

LEMMA InsertFindings == ASSUME RunsInv, Findings, NEW p \in Runners, InsertDigest(p) PROVE Findings'
BY InsertBecomes, FoundFindings DEF InsertDigest

LEMMA RecordFindings == ASSUME RunsInv, Findings, NEW p \in Runners, Record(p) PROVE Findings'
BY RecordBecomes, MovedFindings, ErrorFindings

LEMMA RecordErrorFindings == ASSUME RunsInv, Findings, NEW p \in Runners, RecordError(p) PROVE Findings'
BY RulesTyped, NextRuleMovesOn, MovedFindings DEF RecordError

LEMMA FailFindings == ASSUME RunsInv, Findings, NEW p \in Runners, CallFails(p) PROVE Findings'
BY FailBecomes, MovedFindings, ErrorFindings

LEMMA ListFindings == ASSUME RunsInv, Findings, NEW p \in Runners, ListBreaches(p) PROVE Findings'
<1>1. CASE mruns' = [mruns EXCEPT ![p] = IdleRun]
  BY <1>1, EndFindings
<1>2. CASE OnlyRun(p) /\ IsRun(mruns'[p], "enqueue", mruns[p].todo, mruns[p].observed, mruns[p].item,
                               mruns[p].outcome, mruns[p].appended, mruns[p].digest, RowsOf(mruns[p].digest))
  <2>1. mruns[p].appended = FALSE
    BY NotAppendedYet, ListedBecomes
  <2>2. mruns'[p].phase = "enqueue" /\ mruns'[p].appended = FALSE
    BY <1>2, <2>1 DEF IsRun
  <2>. QED  BY <1>2, <2>2, FoundNothing, FindingsOfOne
<1>. QED  BY <1>1, <1>2, ListedBecomes

\* The owner and time do nothing to a run.
LEMMA RestingFindings == ASSUME Findings, mruns' = mruns PROVE Findings'
BY DEF Findings

\* The runs keep their order whatever happens.
LEMMA RunsStep ==
  ASSUME RunsInv, Findings, [MonitorNext]_monitorVars
  PROVE  RunsInv' /\ Findings'
<1>1. ASSUME NEW r \in Rules, Save(r) PROVE RunsInv' /\ Findings'
  BY <1>1, SaveRuns, RestingFindings DEF Save
<1>2. ASSUME NEW r \in Rules, DeleteRule(r) PROVE RunsInv' /\ Findings'
  BY <1>2, DeleteRuns, RestingFindings DEF DeleteRule
<1>3. ASSUME NEW r \in Rules, IntervalPasses(r) \/ LeaseExpires(r) PROVE RunsInv' /\ Findings'
  BY <1>3, TimeRuns, RestingFindings DEF IntervalPasses, LeaseExpires
<1>4. ASSUME NEW p \in Runners, ClaimRules(p) PROVE RunsInv' /\ Findings'
  BY <1>4, ClaimRuns, ClaimFindings
<1>5. ASSUME NEW p \in Runners, Observe(p) PROVE RunsInv' /\ Findings'
  BY <1>5, ObserveRuns, ObserveFindings
<1>6. ASSUME NEW p \in Runners, Evaluate(p) PROVE RunsInv' /\ Findings'
  BY <1>6, EvaluateRuns, EvaluateFindings
<1>7. ASSUME NEW p \in Runners, FindDigest(p) PROVE RunsInv' /\ Findings'
  BY <1>7, FindRuns, FindFindings
<1>8. ASSUME NEW p \in Runners, InsertDigest(p) PROVE RunsInv' /\ Findings'
  BY <1>8, InsertRuns, InsertFindings
<1>9. ASSUME NEW p \in Runners, AppendBreach(p) PROVE RunsInv' /\ Findings'
  BY <1>9, AppendRuns, AppendFindings
<1>10. ASSUME NEW p \in Runners, Record(p) PROVE RunsInv' /\ Findings'
  BY <1>10, RecordRuns, RecordFindings
<1>11. ASSUME NEW p \in Runners, RecordError(p) PROVE RunsInv' /\ Findings'
  BY <1>11, RecordErrorRuns, RecordErrorFindings
<1>12. ASSUME NEW p \in Runners, CallFails(p) PROVE RunsInv' /\ Findings'
  BY <1>12, FailRuns, FailFindings
<1>13. ASSUME NEW p \in Runners, StopEarly(p) PROVE RunsInv' /\ Findings'
  BY <1>13, StopRuns, StopFindings
<1>14. ASSUME NEW p \in Runners, ListBreaches(p) PROVE RunsInv' /\ Findings'
  BY <1>14, ListRuns, ListFindings
<1>15. ASSUME NEW p \in Runners, Enqueue(p) PROVE RunsInv' /\ Findings'
  BY <1>15, EnqueueRuns, EndFindings DEF Enqueue
<1>16. ASSUME NEW p \in Runners, KillRun(p) PROVE RunsInv' /\ Findings'
  BY <1>16, KillRuns, EndFindings DEF KillRun
<1>17. CASE UNCHANGED monitorVars
  <2>1. UNCHANGED <<digests, mruns>> /\ rules' = rules /\ breaches' = breaches /\ notified' = notified /\ hit' = hit
    BY <1>17 DEF monitorVars
  <2>2. rules' \in [Rules -> RuleRows] /\ (\A r \in Rules : Exists(r) => rules[r].version >= 1)'
    BY <2>1, RulesTyped DEF Exists
  <2>. QED  BY <2>1, <2>2, RestingTyped, RunsRest, RestingFindings
<1>. QED
  BY <1>1, <1>2, <1>3, <1>4, <1>5, <1>6, <1>7, <1>8, <1>9, <1>10, <1>11, <1>12, <1>13, <1>14, <1>15, <1>16, <1>17
  DEF MonitorNext, OwnerActs, Time, Work

LEMMA RunsInit == MonitorInit => RunsInv /\ Findings
<1>. SUFFICES ASSUME MonitorInit PROVE RunsInv /\ Findings
  OBVIOUS
<1>1. mruns = [p \in Runners |-> IdleRun] /\ digests = <<>> /\ breaches = {} /\ hit = {}
      /\ notified = [r \in Rules |-> FALSE]
  BY DEF MonitorInit
<1>2. rules \in [Rules -> RuleRows] /\ \A r \in Rules : ~ Exists(r)
  BY MonitorAssumption DEF MonitorAssumption, MonitorInit, RuleRows, Exists
<1>3. IdleRun \in RunRows /\ IdleRun.phase = "idle" /\ IdleRun.todo = {} /\ IdleRun.item = NoItem
      /\ IdleRun.digest = 0 /\ IdleRun.appended = FALSE
  BY IdleIsRun DEF IsRun
<1>. HIDE DEF IdleRun
<1>4. Typed
  <2>1. mruns \in [Runners -> RunRows]
    BY <1>1, <1>3
  <2>2. digests \in Seq(DigestRows) /\ Len(digests) <= MaxDigests
    BY <1>1, MonitorAssumption DEF MonitorAssumption
  <2>3. breaches \in SUBSET Rows /\ IsFiniteSet(breaches) /\ hit \in SUBSET Rules
    BY <1>1, FS_EmptySet
  <2>4. notified \in [Rules -> BOOLEAN]
    BY <1>1
  <2>. QED  BY <1>2, <2>1, <2>2, <2>3, <2>4 DEF Typed
<1>5. HandsInOrder
  BY <1>1, <1>3 DEF HandsInOrder, Judging
<1>6. DigestInHand
  BY <1>1, <1>3 DEF DigestInHand
<1>7. Findings
  BY <1>1, <1>3, FoundNothing DEF Findings
<1>. QED  BY <1>4, <1>5, <1>6, <1>7 DEF RunsInv

-----------------------------------------------------------------------------
(* A latch tells of a notice.                                                *)

LEMMA RestingMark == ASSUME notified' = notified, NEW r PROVE notified[r]' <=> notified[r]
OBVIOUS

\* A rule is left alone by a step of a run that neither lets go of what it owes the rule
\* nor owes it anything new, unless the rule is hit.
LEMMA LeftAlone ==
  ASSUME NEW r \in Rules, Kept(r), NEW p \in Runners, OnlyRun(p), rules'[r] = rules[r],
         notified[r]' <=> notified[r], r \in hit => r \in hit', mruns'[p].todo \in SUBSET mruns[p].todo,
         r \notin hit' => (Owes(p, r)' <=> Owes(p, r))
  PROVE  Kept(r)'
<1>. SUFFICES ASSUME Untouched(r)' PROVE HeldAlone(r)' /\ OwedIsNotified(r)' /\ LatchTells(r)'
  BY DEF Kept
<1>1. Untouched(r) /\ r \notin hit'
  BY DEF Untouched, Exists
<1>2. HeldAlone(r) /\ OwedIsNotified(r) /\ LatchTells(r)
  BY <1>1 DEF Kept
<1>3. \A q \in Runners : Owes(q, r)' <=> Owes(q, r)
  BY <1>1 DEF Owes, OnlyRun
<1>4. \A q \in Runners : mruns'[q].todo \in SUBSET mruns[q].todo
  BY DEF OnlyRun
<1>5. HeldAlone(r)'
  <2>1. ASSUME NEW q \in Runners, NEW i \in mruns'[q].todo, i.rule = r
        PROVE  /\ rules'[r].leased /\ rules'[r].state = i.state
               /\ \A s \in Runners : s # q => \A j \in mruns'[s].todo : j.rule # r
    <3>1. i \in mruns[q].todo
      BY <1>4
    <3>2. /\ rules[r].leased /\ rules[r].state = i.state
          /\ \A s \in Runners : s # q => \A j \in mruns[s].todo : j.rule # r
      BY <1>2, <2>1, <3>1 DEF HeldAlone
    <3>. QED  BY <1>4, <3>2
  <2>. QED  BY <2>1 DEF HeldAlone
<1>6. OwedIsNotified(r)'
  BY <1>2, <1>3 DEF OwedIsNotified
<1>7. LatchTells(r)'
  BY <1>2, <1>3 DEF LatchTells
<1>. QED  BY <1>5, <1>6, <1>7

\* No run changes.
LEMMA RestingKept ==
  ASSUME NEW r \in Rules, Kept(r), mruns' = mruns, rules'[r] = rules[r], notified[r]' <=> notified[r],
         r \in hit => r \in hit'
  PROVE  Kept(r)'
<1>1. Untouched(r)' => Untouched(r)
  BY DEF Untouched, Exists
<1>2. HeldAlone(r)' <=> HeldAlone(r)
  BY DEF HeldAlone
<1>3. OwedIsNotified(r)' <=> OwedIsNotified(r)
  BY DEF OwedIsNotified, Owes
<1>4. LatchTells(r)' <=> LatchTells(r)
  BY DEF LatchTells, Owes
<1>. QED  BY <1>1, <1>2, <1>3, <1>4 DEF Kept

\* A run owes a breach only to the rule it judges, which it holds.
LEMMA OwedIsHeld ==
  ASSUME RunsInv, Findings, NEW p \in Runners, NEW r, Owes(p, r)
  PROVE  mruns[p].item \in mruns[p].todo /\ mruns[p].item.rule = r
BY JudgedIsRule DEF Owes, Findings, FoundOut, Judging

LEMMA NotOwing == ASSUME NEW p, NEW r, mruns[p].appended = FALSE PROVE ~ Owes(p, r)
BY DEF Owes

LEMMA HeldInHand == ASSUME NEW p \in Runners, NEW i \in mruns[p].todo PROVE Held(i.rule)
BY DEF Held, HeldBy, InHand

LEMMA SaveKeeps ==
  ASSUME LatchInv, NEW s \in Rules, Save(s), NEW r \in Rules
  PROVE  Kept(r)'
<1>1. PICK enabled \in BOOLEAN : rules' = [rules EXCEPT ![s] = Saved(s, enabled)]
  BY DEF Save
<1>2. mruns' = mruns /\ notified' = [notified EXCEPT ![s] = FALSE] /\ Kept(r)
      /\ hit' = IF Held(s) THEN hit \cup {s} ELSE hit \ {s}
  BY DEF Save, LatchInv
<1>3. CASE r # s
  <2>1. rules'[r] = rules[r] /\ (r \in hit => r \in hit')
    BY <1>1, <1>2, <1>3
  <2>2. notified'[r] = notified[r]
    BY <1>2, <1>3, MarksTyped DEF LatchInv
  <2>. QED  BY <1>2, <2>1, <2>2, RestingKept
<1>4. CASE r = s /\ r \in hit'
  BY <1>4 DEF Kept, Untouched
<1>5. CASE r = s /\ r \notin hit'
  <2>1. ~ Held(r)
    BY <1>2, <1>5
  <2>2. \A p \in Runners : \A i \in mruns[p].todo : i.rule # r
    BY <2>1, HeldInHand
  <2>3. \A p \in Runners : ~ Owes(p, r)
    BY <2>2, OwedIsHeld DEF LatchInv
  <2>4. HeldAlone(r)'
    BY <1>2, <2>2 DEF HeldAlone
  <2>5. \A p \in Runners : ~ Owes(p, r)'
    BY <1>2, <2>3 DEF Owes
  <2>6. rules'[r].state = "armed"
    BY <1>1, <1>5, RulesTyped DEF Saved, LatchInv
  <2>7. notified'[r] = FALSE
    BY <1>2, <1>5, MarksTyped DEF LatchInv
  <2>8. LatchTells(r)'
    BY <2>6, <2>7 DEF LatchTells
  <2>9. OwedIsNotified(r)'
    BY <2>5 DEF OwedIsNotified
  <2>. QED  BY <2>4, <2>8, <2>9 DEF Kept
<1>. QED  BY <1>3, <1>4, <1>5

LEMMA DeleteKeeps ==
  ASSUME LatchInv, NEW s \in Rules, DeleteRule(s), NEW r \in Rules
  PROVE  Kept(r)'
<1>1. mruns' = mruns /\ notified' = notified /\ hit' = hit /\ Kept(r)
  BY DEF DeleteRule, LatchInv
<1>2. CASE r = s
  <2>1. ~ Exists(r)'
    BY <1>2, RulesTyped DEF DeleteRule, Exists, LatchInv
  <2>. QED  BY <2>1 DEF Kept, Untouched
<1>3. CASE r # s
  <2>1. rules'[r] = rules[r]
    BY <1>3 DEF DeleteRule
  <2>. QED  BY <1>1, <2>1, RestingMark, RestingKept
<1>. QED  BY <1>2, <1>3

LEMMA TimeKeeps ==
  ASSUME LatchInv, NEW s \in Rules, IntervalPasses(s) \/ LeaseExpires(s), NEW r \in Rules
  PROVE  Kept(r)'
<1>1. mruns' = mruns /\ notified' = notified /\ hit' = hit /\ Kept(r)
  BY DEF IntervalPasses, LeaseExpires, LatchInv
<1>2. CASE rules'[r] = rules[r]
  BY <1>1, <1>2, RestingMark, RestingKept
<1>3. CASE rules'[r] # rules[r]
  <2>1. LeaseExpires(s) /\ r = s
    <3>1. LeaseExpires(s)
      BY <1>3 DEF IntervalPasses
    <3>2. rules' = [rules EXCEPT ![s].leased = FALSE] /\ rules \in [Rules -> RuleRows]
      BY <3>1, RulesTyped DEF LeaseExpires, LatchInv
    <3>. QED  BY <1>3, <3>1, <3>2
  <2>2. ~ Held(r) /\ rules' = [rules EXCEPT ![r].leased = FALSE]
    BY <2>1 DEF LeaseExpires
  <2>3. rules'[r].state = rules[r].state /\ rules'[r].status = rules[r].status
    BY <2>2, RulesTyped DEF LatchInv, RuleRows
  <2>4. \A p \in Runners : \A i \in mruns[p].todo : i.rule # r
    BY <2>2, HeldInHand
  <2>5. HeldAlone(r)'
    BY <1>1, <2>4 DEF HeldAlone
  <2>6. Untouched(r)' => Untouched(r)
    BY <1>1, <2>3 DEF Untouched, Exists
  <2>7. OwedIsNotified(r)' <=> OwedIsNotified(r)
    BY <1>1 DEF OwedIsNotified, Owes
  <2>8. LatchTells(r)' <=> LatchTells(r)
    BY <1>1, <2>3 DEF LatchTells, Owes
  <2>. QED  BY <1>1, <2>5, <2>6, <2>7, <2>8 DEF Kept
<1>. QED  BY <1>2, <1>3

\* Nobody holds what can be claimed, unless it is hit.
LEMMA ClaimKeeps ==
  ASSUME LatchInv, NEW p \in Runners, ClaimRules(p), NEW r \in Rules
  PROVE  Kept(r)'
<1>1. notified' = notified /\ hit' = hit /\ Kept(r) /\ RunsInv /\ Typed /\ mruns[p] = IdleRun
  BY DEF ClaimRules, LatchInv, RunsInv
<1>2. OnlyRun(p) /\ mruns'[p].todo = {Claimed(b) : b \in Batch} /\ mruns'[p].appended = FALSE
  BY <1>1, ClaimBecomes DEF IsRun
<1>3. mruns[p].appended = FALSE /\ mruns[p].todo = {}
  BY <1>1, IdleIsRun DEF IsRun
<1>4. \A q \in Runners : Owes(q, r)' <=> Owes(q, r)
  BY <1>2, <1>3 DEF Owes, OnlyRun
<1>. SUFFICES ASSUME Untouched(r)' PROVE HeldAlone(r)' /\ OwedIsNotified(r)' /\ LatchTells(r)'
  BY DEF Kept
<1>5. Untouched(r) /\ rules'[r].state = rules[r].state
  BY <1>1, ClaimedRules DEF Untouched, Exists
<1>6. HeldAlone(r) /\ OwedIsNotified(r) /\ LatchTells(r)
  BY <1>1, <1>5 DEF Kept
<1>7. HeldAlone(r)'
  <2>1. CASE r \in Batch
    <3>1. rules'[r].leased = TRUE /\ ~ rules[r].leased
      BY <1>1, <2>1, ClaimedRules
    <3>2. \A q \in Runners : \A i \in mruns[q].todo : i.rule # r
      BY <1>6, <3>1 DEF HeldAlone
    <3>3. \A i \in mruns'[p].todo : i.rule = r => i.state = rules[r].state
      BY <1>2 DEF Claimed
    <3>. QED  BY <1>2, <1>5, <3>1, <3>2, <3>3 DEF HeldAlone, OnlyRun
  <2>2. CASE r \notin Batch
    <3>1. rules'[r] = rules[r]
      BY <1>1, <2>2, ClaimedRules
    <3>2. \A i \in mruns'[p].todo : i.rule # r
      BY <1>2, <2>2 DEF Claimed
    <3>. QED  BY <1>2, <1>6, <3>1, <3>2 DEF HeldAlone, OnlyRun
  <2>. QED  BY <2>1, <2>2
<1>8. OwedIsNotified(r)'
  BY <1>1, <1>4, <1>6 DEF OwedIsNotified
<1>9. LatchTells(r)'
  BY <1>1, <1>4, <1>5, <1>6 DEF LatchTells
<1>. QED  BY <1>7, <1>8, <1>9

\* The steps of a run that neither record nor append.
LEMMA ObserveKeeps == ASSUME LatchInv, NEW p \in Runners, Observe(p), NEW r \in Rules PROVE Kept(r)'
<1>1. rules' = rules /\ notified' = notified /\ hit' = hit /\ Kept(r) /\ mruns[p].phase = "portfolios"
  BY DEF Observe, LatchInv
<1>2. mruns[p].appended = FALSE
  BY <1>1, NotAppendedYet DEF LatchInv
<1>3. OnlyRun(p) /\ mruns'[p].todo = mruns[p].todo /\ mruns'[p].appended = FALSE
  BY <1>2, RulesTyped, ObserveBecomes DEF IsRun, LatchInv
<1>4. Owes(p, r)' <=> Owes(p, r)
  BY <1>2, <1>3 DEF Owes
<1>. QED  BY <1>1, <1>3, <1>4, RestingMark, LeftAlone

LEMMA StopKeeps == ASSUME LatchInv, NEW p \in Runners, StopEarly(p), NEW r \in Rules PROVE Kept(r)'
<1>1. rules' = rules /\ notified' = notified /\ hit' = hit /\ Kept(r)
  BY DEF StopEarly, LatchInv
<1>2. OnlyRun(p) /\ mruns'[p].todo = {} /\ mruns'[p].appended = mruns[p].appended /\ mruns'[p].item = mruns[p].item
  BY RulesTyped, TodoBecomes DEF IsRun, LatchInv
<1>3. Owes(p, r)' <=> Owes(p, r)
  BY <1>2 DEF Owes
<1>. QED  BY <1>1, <1>2, <1>3, RestingMark, LeftAlone

\* A run goes on with the item in hand.
LEMMA GoesOnKeeps ==
  ASSUME LatchInv, NEW p \in Runners, NEW r \in Rules, OnlyRun(p),
         rules'[r] = rules[r], notified[r]' <=> notified[r], r \in hit => r \in hit',
         NEW phase, NEW outcome, NEW digest, NEW list,
         IsRun(mruns'[p], phase, mruns[p].todo, mruns[p].observed, mruns[p].item, outcome,
               mruns[p].appended, digest, list)
  PROVE  Kept(r)'
<1>1. mruns'[p].todo = mruns[p].todo /\ mruns'[p].appended = mruns[p].appended /\ mruns'[p].item = mruns[p].item
  BY DEF IsRun
<1>2. Owes(p, r)' <=> Owes(p, r)
  BY <1>1 DEF Owes
<1>3. Kept(r)
  BY DEF LatchInv
<1>. QED  BY <1>1, <1>2, <1>3, LeftAlone

LEMMA EvaluateKeeps == ASSUME LatchInv, NEW p \in Runners, Evaluate(p), NEW r \in Rules PROVE Kept(r)'
<1>1. rules' = rules /\ notified' = notified /\ hit' = hit /\ RunsInv
  BY DEF Evaluate, LatchInv
<1>2. PICK outcome, phase :
        IsRun(mruns'[p], phase, mruns[p].todo, mruns[p].observed, mruns[p].item, outcome,
              mruns[p].appended, mruns[p].digest, mruns[p].list)
  BY <1>1, EvaluateBecomes
<1>3. OnlyRun(p)
  BY <1>1, EvaluateBecomes
<1>. QED  BY <1>1, <1>2, <1>3, RestingMark, GoesOnKeeps

LEMMA FindKeeps ==
  ASSUME LatchInv, NEW p \in Runners, FindDigest(p) \/ InsertDigest(p), NEW r \in Rules
  PROVE  Kept(r)'
<1>1. rules' = rules /\ notified' = notified /\ hit' = hit /\ RunsInv
  BY DEF FindDigest, InsertDigest, LatchInv
<1>2. ASSUME NEW d \in OpenDigests, Adopt(p, d) PROVE Kept(r)'
  <2>1. d \in 0..MaxDigests
    BY <1>1, MonitorAssumption DEF MonitorAssumption, OpenDigests, RunsInv, Typed
  <2>2. OnlyRun(p) /\ IsRun(mruns'[p], "append", mruns[p].todo, mruns[p].observed, mruns[p].item, mruns[p].outcome,
                            mruns[p].appended, d, mruns[p].list)
    BY <1>1, <1>2, <2>1, RulesTyped, AdoptBecomes
  <2>. QED  BY <1>1, <2>2, RestingMark, GoesOnKeeps
<1>3. ASSUME mruns' = [mruns EXCEPT ![p].phase = "insert"] PROVE Kept(r)'
  <2>1. OnlyRun(p) /\ IsRun(mruns'[p], "insert", mruns[p].todo, mruns[p].observed, mruns[p].item, mruns[p].outcome,
                            mruns[p].appended, mruns[p].digest, mruns[p].list)
    BY <1>1, <1>3, RulesTyped, PhaseBecomes DEF Phases
  <2>. QED  BY <1>1, <2>1, RestingMark, GoesOnKeeps
<1>4. ASSUME InsertDigest(p) PROVE Kept(r)'
  <2>1. OnlyRun(p) /\ IsRun(mruns'[p], "append", mruns[p].todo, mruns[p].observed, mruns[p].item, mruns[p].outcome,
                            mruns[p].appended, Len(digests) + 1, mruns[p].list)
    BY <1>1, <1>4, InsertBecomes
  <2>. QED  BY <1>1, <2>1, RestingMark, GoesOnKeeps
<1>. QED  BY <1>2, <1>3, <1>4 DEF FindDigest

\* A run that ends owes nothing that is not told.
LEMMA EndKeeps ==
  ASSUME LatchInv, NEW p \in Runners, mruns' = [mruns EXCEPT ![p] = IdleRun], NEW r \in Rules,
         rules' = rules, notified' = notified, r \in hit => r \in hit', Owes(p, r) => r \in hit'
  PROVE  Kept(r)'
<1>1. OnlyRun(p) /\ mruns'[p].todo = {} /\ mruns'[p].appended = FALSE
  BY RulesTyped, IdleBecomes DEF IsRun, LatchInv
<1>2. r \notin hit' => (Owes(p, r)' <=> Owes(p, r))
  BY <1>1 DEF Owes
<1>3. Kept(r)
  BY DEF LatchInv
<1>. QED  BY <1>1, <1>2, <1>3, RestingMark, LeftAlone

LEMMA KillKeeps == ASSUME LatchInv, NEW p \in Runners, KillRun(p), NEW r \in Rules PROVE Kept(r)'
<1>1. rules' = rules /\ notified' = notified /\ mruns' = [mruns EXCEPT ![p] = IdleRun]
      /\ hit' = IF mruns[p].appended THEN hit \cup {mruns[p].item.rule} ELSE hit
  BY DEF KillRun
<1>2. (r \in hit => r \in hit') /\ (Owes(p, r) => r \in hit')
  BY <1>1 DEF Owes
<1>. QED  BY <1>1, <1>2, EndKeeps

LEMMA EnqueueKeeps == ASSUME LatchInv, NEW p \in Runners, Enqueue(p), NEW r \in Rules PROVE Kept(r)'
<1>1. rules' = rules /\ notified' = notified /\ mruns' = [mruns EXCEPT ![p] = IdleRun] /\ hit' = hit
      /\ mruns[p].phase = "enqueue"
  BY DEF Enqueue
<1>2. ~ Owes(p, r)
  BY <1>1, NotAppendedYet, NotOwing DEF LatchInv
<1>. QED  BY <1>1, <1>2, EndKeeps

LEMMA ListKeeps == ASSUME LatchInv, NEW p \in Runners, ListBreaches(p), NEW r \in Rules PROVE Kept(r)'
<1>1. rules' = rules /\ notified' = notified /\ hit' = hit /\ mruns[p].phase = "portfolios" /\ RunsInv
  BY DEF ListBreaches, LatchInv
<1>2. ~ Owes(p, r)
  BY <1>1, NotAppendedYet, NotOwing DEF LatchInv
<1>3. CASE mruns' = [mruns EXCEPT ![p] = IdleRun]
  BY <1>1, <1>2, <1>3, EndKeeps
<1>4. CASE OnlyRun(p) /\ IsRun(mruns'[p], "enqueue", mruns[p].todo, mruns[p].observed, mruns[p].item,
                               mruns[p].outcome, mruns[p].appended, mruns[p].digest, RowsOf(mruns[p].digest))
  BY <1>1, <1>4, RestingMark, GoesOnKeeps
<1>. QED  BY <1>1, <1>3, <1>4, ListedBecomes

\* A run that lets go of its item owes no more; what it owed is recorded or hit.
LEMMA LetsGo ==
  ASSUME LatchInv, NEW p \in Runners, MovesOn(p), NEW r \in Rules,
         rules'[r] = rules[r], notified[r]' <=> notified[r], r \in hit => r \in hit',
         Owes(p, r) => r \in hit'
  PROVE  Kept(r)'
<1>1. OnlyRun(p) /\ mruns'[p].todo \in SUBSET mruns[p].todo /\ mruns'[p].appended = FALSE
  BY DEF MovesOn, IsRun
<1>2. r \notin hit' => (Owes(p, r)' <=> Owes(p, r))
  BY <1>1 DEF Owes
<1>3. Kept(r)
  BY DEF LatchInv
<1>. QED  BY <1>1, <1>2, <1>3, LeftAlone

LEMMA FailKeeps == ASSUME LatchInv, NEW p \in Runners, CallFails(p), NEW r \in Rules PROVE Kept(r)'
<1>1. rules' = rules /\ notified' = notified /\ RunsInv
  BY DEF CallFails, LatchInv
<1>2. CASE OnlyRun(p) /\ hit' = hit
           /\ IsRun(mruns'[p], "error", mruns[p].todo, mruns[p].observed, mruns[p].item, mruns[p].outcome,
                    mruns[p].appended, mruns[p].digest, mruns[p].list)
  BY <1>1, <1>2, RestingMark, GoesOnKeeps
<1>3. CASE MovesOn(p) /\ hit' = IF mruns[p].appended THEN hit \cup {mruns[p].item.rule} ELSE hit
  <2>1. (r \in hit => r \in hit') /\ (Owes(p, r) => r \in hit')
    BY <1>3 DEF Owes
  <2>. QED  BY <1>1, <1>3, <2>1, RestingMark, LetsGo
<1>. QED  BY <1>1, <1>2, <1>3, FailBecomes

\* From the append on, the notice is told of.
LEMMA AppendKeeps == ASSUME LatchInv, NEW p \in Runners, AppendBreach(p), NEW r \in Rules PROVE Kept(r)'
<1>. DEFINE s == mruns[p].item.rule
<1>1. rules' = rules /\ notified' = [notified EXCEPT ![s] = TRUE] /\ mruns[p].phase = "append"
  BY DEF AppendBreach
<1>2. RunsInv /\ Findings /\ Kept(r) /\ mruns[p].appended = FALSE
  BY <1>1, NotAppendedYet DEF LatchInv
<1>3. PICK phase \in {"record", "error"}, appended \in BOOLEAN :
        /\ IsRun(mruns'[p], phase, mruns[p].todo, mruns[p].observed, mruns[p].item, mruns[p].outcome,
                 appended, mruns[p].digest, mruns[p].list)
        /\ \/ phase = "record" /\ appended /\ hit' = hit
           \/ phase = "error" /\ appended = mruns[p].appended /\ hit' = hit \cup {s}
  BY <1>2, AppendBecomes
<1>4. OnlyRun(p) /\ mruns'[p].todo = mruns[p].todo /\ mruns'[p].item = mruns[p].item /\ mruns'[p].appended = appended
  BY <1>2, <1>3, AppendBecomes DEF IsRun
<1>5. r \in hit => r \in hit'
  BY <1>3
<1>6. CASE r # s
  <2>1. ~ Owes(p, r) /\ ~ Owes(p, r)'
    BY <1>4, <1>6 DEF Owes
  <2>2. notified'[r] = notified[r]
    BY <1>1, <1>2, <1>6, MarksTyped
  <2>. QED  BY <1>1, <1>2, <1>4, <1>5, <2>1, <2>2, LeftAlone
<1>7. CASE r = s /\ r \in hit'
  BY <1>7 DEF Kept, Untouched
<1>8. CASE r = s /\ r \notin hit'
  <2>1. appended /\ hit' = hit
    BY <1>3, <1>8
  <2>2. Owes(p, r)'
    BY <1>4, <1>8, <2>1 DEF Owes
  <2>3. notified'[r] = TRUE
    BY <1>1, <1>2, <1>8, MarksTyped
  <2>4. HeldAlone(r) => HeldAlone(r)'
    BY <1>1, <1>4 DEF HeldAlone, OnlyRun
  <2>5. OwedIsNotified(r)' /\ LatchTells(r)'
    BY <2>2, <2>3 DEF OwedIsNotified, LatchTells
  <2>. QED  BY <1>1, <1>2, <2>1, <2>4, <2>5 DEF Kept, Untouched, Exists
<1>. QED  BY <1>6, <1>7, <1>8

\* The rule in hand, unless it is hit, is in no other hands and as the run has claimed it.
LEMMA JudgedAlone ==
  ASSUME LatchInv, NEW p \in Runners, mruns[p].phase \in Judging, NEW r, r = mruns[p].item.rule, Untouched(r)
  PROVE  /\ r \in Rules /\ rules[r].state = mruns[p].item.state
         /\ \A q \in Runners : q # p => (\A j \in mruns[q].todo : j.rule # r) /\ ~ Owes(q, r)
         /\ mruns[p].appended => notified[r]
         /\ ~ mruns[p].appended => (rules[r].state = "latched" <=> notified[r])
<1>1. RunsInv /\ Findings
  BY DEF LatchInv
<1>2. mruns[p].item \in mruns[p].todo /\ r \in Rules
  BY <1>1, JudgedIsRule
<1>3. HeldAlone(r) /\ OwedIsNotified(r) /\ LatchTells(r)
  BY <1>2 DEF LatchInv, Kept
<1>4. rules[r].state = mruns[p].item.state /\ \A q \in Runners : q # p => \A j \in mruns[q].todo : j.rule # r
  BY <1>2, <1>3 DEF HeldAlone
<1>5. \A q \in Runners : q # p => ~ Owes(q, r)
  BY <1>1, <1>4, OwedIsHeld
<1>6. mruns[p].appended => notified[r]
  BY <1>3 DEF OwedIsNotified, Owes
<1>7. ~ mruns[p].appended => (rules[r].state = "latched" <=> notified[r])
  BY <1>3, <1>5 DEF LatchTells, Owes
<1>. QED  BY <1>2, <1>4, <1>5, <1>6, <1>7

\* A run that has recorded a state which tells of the notice lets go of its rule.
LEMMA RecordedKept ==
  ASSUME LatchInv, NEW p \in Runners, mruns[p].phase \in Judging, MovesOn(p), NEW r, r = mruns[p].item.rule,
         Untouched(r), rules'[r].state = "latched" <=> notified[r]'
  PROVE  Kept(r)'
<1>1. RunsInv /\ OnlyRun(p) /\ mruns'[p].todo = mruns[p].todo \ {mruns[p].item} /\ mruns'[p].appended = FALSE
  BY DEF MovesOn, IsRun, LatchInv
<1>2. \A j \in mruns'[p].todo : j.rule # r
  BY <1>1, JudgedIsRule DEF RunsInv, HandsInOrder
<1>3. \A q \in Runners : \A j \in mruns'[q].todo : j.rule # r
  BY <1>1, <1>2, JudgedAlone DEF OnlyRun
<1>4. \A q \in Runners : ~ Owes(q, r)'
  BY <1>1, JudgedAlone DEF OnlyRun, Owes
<1>5. HeldAlone(r)'
  BY <1>3 DEF HeldAlone
<1>6. OwedIsNotified(r)'
  BY <1>4 DEF OwedIsNotified
<1>7. LatchTells(r)'
  BY DEF LatchTells
<1>. QED  BY <1>5, <1>6, <1>7 DEF Kept

LEMMA RecordKeeps == ASSUME LatchInv, NEW p \in Runners, Record(p), NEW r \in Rules PROVE Kept(r)'
<1>. DEFINE s == mruns[p].item.rule
            state == nextState(mruns[p].item.state, mruns[p].outcome)
<1>1. mruns[p].phase = "record" /\ mruns[p].phase \in Judging
      /\ notified' = [notified EXCEPT ![s] = notified[s] /\ mruns[p].outcome # "clear"]
  BY DEF Record, Judging
<1>2. RunsInv /\ Findings /\ Typed /\ notified \in [Rules -> BOOLEAN]
  BY MarksTyped DEF LatchInv, RunsInv
<1>3. s \in Rules /\ state \in {"armed", "latched"}
  BY <1>1, <1>2, JudgedIsRule
<1>4. Written(s, state, mruns[p].outcome = "deferred")
  BY DEF Record
<1>. HIDE DEF state
<1>5. /\ \A q \in Rules : q # s => rules'[q] = rules[q]
      /\ rules'[s].status = rules[s].status
      /\ Exists(s) => rules'[s].state = state
  BY <1>2, <1>3, <1>4, WrittenBecomes
<1>6. CASE r # s
  <2>1. notified'[r] = notified[r] /\ rules'[r] = rules[r]
    BY <1>1, <1>2, <1>5, <1>6
  <2>2. ~ Owes(p, r)
    BY <1>6 DEF Owes
  <2>3. CASE MovesOn(p) /\ hit' = hit
    BY <2>1, <2>2, <2>3, LetsGo
  <2>4. CASE /\ OnlyRun(p) /\ hit' = hit \cup {s}
             /\ IsRun(mruns'[p], "error", mruns[p].todo, mruns[p].observed, mruns[p].item, mruns[p].outcome,
                      mruns[p].appended, mruns[p].digest, mruns[p].list)
    BY <2>1, <2>4, GoesOnKeeps
  <2>. QED  BY <1>2, <2>3, <2>4, RecordBecomes
<1>7. CASE r = s /\ Untouched(r)'
  <2>1. Untouched(s) /\ MovesOn(p) /\ hit' = hit
    BY <1>2, <1>5, <1>7, RecordBecomes DEF Untouched, Exists
  <2>2. rules'[s].state = state
    BY <1>5, <2>1 DEF Untouched
  <2>3. notified'[s] <=> notified[s] /\ mruns[p].outcome # "clear"
    BY <1>1, <1>2, <1>3
  <2>4. FoundOut(mruns[p]) /\ mruns[p].outcome \in {"none", "breached", "clear", "deferred"}
        /\ mruns[p].item.state \in {"armed", "latched"}
    BY <1>1, <1>2, RulesTyped, JudgedIsRule DEF Findings, RunRows, Items
  <2>5. state = "latched" <=> notified'[s]
    <3>1. CASE mruns[p].appended
      <4>1. notified[s] /\ mruns[p].outcome = "breached" /\ mruns[p].item.state = "armed"
        BY <1>1, <2>1, <2>4, <3>1, JudgedAlone DEF FoundOut
      <4>2. state = "latched"
        BY <4>1 DEF state, nextState
      <4>. QED  BY <2>3, <4>1, <4>2
    <3>2. CASE ~ mruns[p].appended
      <4>1. mruns[p].item.state = "latched" <=> notified[s]
        BY <1>1, <2>1, <3>2, JudgedAlone
      <4>2. mruns[p].outcome # "none" /\ ~ shouldNotify(mruns[p].item.state, mruns[p].outcome)
        BY <1>1, <2>4, <3>2 DEF FoundOut
      <4>3. state = "latched" <=> mruns[p].item.state = "latched" /\ mruns[p].outcome # "clear"
        BY <2>4, <4>2 DEF state, nextState, shouldNotify
      <4>. QED  BY <2>3, <4>1, <4>3
    <3>. QED  BY <3>1, <3>2
  <2>6. Untouched(r) /\ r = mruns[p].item.rule /\ (rules'[r].state = "latched" <=> notified'[r])
    BY <1>7, <2>1, <2>2, <2>5
  <2>. QED  BY <1>1, <2>1, <2>6, RecordedKept
<1>8. CASE ~ Untouched(r)'
  BY <1>8 DEF Kept
<1>. QED  BY <1>6, <1>7, <1>8

LEMMA RecordErrorKeeps == ASSUME LatchInv, NEW p \in Runners, RecordError(p), NEW r \in Rules PROVE Kept(r)'
<1>. DEFINE s == mruns[p].item.rule
<1>1. mruns[p].phase = "error" /\ mruns[p].phase \in Judging /\ notified' = notified /\ hit' = hit
      /\ Written(s, StateAfterError(p), TRUE)
  BY DEF RecordError, Judging
<1>2. RunsInv /\ Findings /\ Typed
  BY DEF LatchInv, RunsInv
<1>3. s \in Rules /\ StateAfterError(p) \in {"armed", "latched"}
  BY <1>1, <1>2, JudgedIsRule
<1>4. /\ \A q \in Rules : q # s => rules'[q] = rules[q]
      /\ rules'[s].status = rules[s].status
      /\ Exists(s) => rules'[s].state = StateAfterError(p)
  BY <1>1, <1>2, <1>3, WrittenBecomes
<1>5. MovesOn(p)
  BY <1>2, RulesTyped, NextRuleMovesOn DEF RecordError
<1>6. CASE r # s
  <2>1. ~ Owes(p, r)
    BY <1>6 DEF Owes
  <2>. QED  BY <1>1, <1>4, <1>5, <1>6, <2>1, RestingMark, LetsGo
<1>7. CASE r = s /\ Untouched(r)'
  <2>1. Untouched(s)
    BY <1>1, <1>4, <1>7 DEF Untouched, Exists
  <2>2. rules'[s].state = StateAfterError(p)
    BY <1>4, <2>1 DEF Untouched
  <2>3. StateAfterError(p) = "latched" <=> notified[s]
    <3>1. CASE mruns[p].appended
      <4>1. FoundOut(mruns[p])
        BY <1>2 DEF Findings
      <4>2. notified[s] /\ mruns[p].outcome = "breached"
        BY <1>1, <2>1, <3>1, <4>1, JudgedAlone DEF FoundOut
      <4>3. StateAfterError(p) = "latched"
        BY <3>1, <4>2 DEF StateAfterError, nextState
      <4>. QED  BY <4>2, <4>3
    <3>2. CASE ~ mruns[p].appended
      <4>1. mruns[p].item.state = "latched" <=> notified[s]
        BY <1>1, <2>1, <3>2, JudgedAlone
      <4>2. StateAfterError(p) = mruns[p].item.state
        BY <3>2 DEF StateAfterError
      <4>. QED  BY <4>1, <4>2
    <3>. QED  BY <3>1, <3>2
  <2>4. notified[r]' <=> notified[r]
    BY <1>1, RestingMark
  <2>5. Untouched(r) /\ r = mruns[p].item.rule /\ (rules'[r].state = "latched" <=> notified[r]')
    BY <1>7, <2>1, <2>2, <2>3, <2>4
  <2>. QED  BY <1>1, <1>5, <2>5, RecordedKept
<1>8. CASE ~ Untouched(r)'
  BY <1>8 DEF Kept
<1>. QED  BY <1>6, <1>7, <1>8

LEMMA KeptStep ==
  ASSUME LatchInv, [MonitorNext]_monitorVars, NEW r \in Rules
  PROVE  Kept(r)'
<1>1. ASSUME NEW s \in Rules, Save(s) \/ DeleteRule(s) \/ IntervalPasses(s) \/ LeaseExpires(s) PROVE Kept(r)'
  BY <1>1, SaveKeeps, DeleteKeeps, TimeKeeps
<1>2. ASSUME NEW p \in Runners, ClaimRules(p) \/ Work(p) \/ KillRun(p) PROVE Kept(r)'
  BY <1>2, ClaimKeeps, ObserveKeeps, EvaluateKeeps, FindKeeps, AppendKeeps, RecordKeeps, RecordErrorKeeps,
     FailKeeps, StopKeeps, ListKeeps, EnqueueKeeps, KillKeeps DEF Work
<1>3. CASE UNCHANGED monitorVars
  <2>1. mruns' = mruns /\ rules' = rules /\ notified' = notified /\ hit' = hit /\ Kept(r)
    BY <1>3 DEF monitorVars, LatchInv
  <2>. QED  BY <2>1, RestingMark, RestingKept
<1>. QED  BY <1>1, <1>2, <1>3 DEF MonitorNext, OwnerActs, Time

LEMMA KeptInit == MonitorInit => \A r \in Rules : Kept(r)
BY DEF MonitorInit, Kept, Untouched, Exists

\* Runs hold rules as they claimed them, and what they have found agrees with where they are,
\* so that a latch always tells of a notice.
THEOREM LatchInvAlways == MonitorSpec => []LatchInv
<1>1. MonitorInit => LatchInv
  BY RunsInit, KeptInit DEF LatchInv
<1>2. LatchInv /\ [MonitorNext]_monitorVars => LatchInv'
  BY RunsStep, KeptStep DEF LatchInv
<1>. QED  BY <1>1, <1>2, PTL DEF MonitorSpec

\* A latched rule has sent its notice, and a rule whose notice stands is latched, whatever
\* overlapping runs do (evaluate.ts: shouldNotify, nextState; record_monitor_evaluation; the
\* state that is kept after an error), unless an edit, a lost answer or a crash met it half way.
THEOREM LatchTellsNoticeAlways == MonitorSpec => []LatchTellsNotice
<1>1. LatchInv => LatchTellsNotice
  <2>. SUFFICES ASSUME LatchInv, NEW r \in Rules, Exists(r) /\ r \notin hit,
                       \A p \in Runners : mruns[p].item.rule = r => ~ mruns[p].appended
                PROVE  rules[r].state = "latched" <=> notified[r]
    BY DEF LatchTellsNotice
  <2>1. LatchTells(r)
    BY DEF LatchInv, Kept, Untouched
  <2>. QED  BY <2>1 DEF LatchTells, Owes
<1>. QED  BY <1>1, LatchInvAlways, PTL

-----------------------------------------------------------------------------
(* A message carries all its breaches.                                       *)

\* A run keeps its digest or lets go of it, starts to send nothing, and adds no breach.
LEMMA QuietCarried ==
  ASSUME NEW d, d # 0, Carried(d), NEW p \in Runners, OnlyRun(p), digests'[d] = digests[d],
         breaches' \in SUBSET breaches,
         mruns'[p].digest = mruns[p].digest \/ mruns'[p].digest = 0, mruns'[p].phase # "enqueue"
  PROVE  Carried(d)'
<1>. SUFFICES ASSUME ~ digests'[d].shared PROVE OwnedByOne(d)' /\ ListComplete(d)' /\ Complete(d)'
  BY DEF Carried
<1>1. OwnedByOne(d) /\ ListComplete(d) /\ Complete(d)
  BY DEF Carried
<1>2. OwnedByOne(d)'
  BY <1>1 DEF OwnedByOne, OnlyRun
<1>3. \A row \in RowsOf(d)' : row \in RowsOf(d)
  BY DEF RowsOf
<1>4. ListComplete(d)'
  BY <1>1, <1>3 DEF ListComplete, OnlyRun
<1>5. Complete(d)'
  BY <1>1, <1>3 DEF Complete
<1>. QED  BY <1>2, <1>4, <1>5

LEMMA RestingCarried ==
  ASSUME NEW d, Carried(d), mruns' = mruns, digests' = digests, breaches' \in SUBSET breaches
  PROVE  Carried(d)'
<1>1. \A row \in RowsOf(d)' : row \in RowsOf(d)
  BY DEF RowsOf
<1>2. OwnedByOne(d)' <=> OwnedByOne(d)
  BY DEF OwnedByOne
<1>3. ListComplete(d) => ListComplete(d)'
  BY <1>1 DEF ListComplete
<1>4. Complete(d) => Complete(d)'
  BY <1>1 DEF Complete
<1>. QED  BY <1>2, <1>3, <1>4 DEF Carried

RestCarried == RowsAttached' /\ \A d \in DOMAIN digests' : Carried(d)'

\* Most steps of a run are quiet.
LEMMA QuietRun ==
  ASSUME DigestInv, NEW p \in Runners, OnlyRun(p), digests' = digests, breaches' = breaches,
         mruns'[p].digest = mruns[p].digest \/ mruns'[p].digest = 0, mruns'[p].phase # "enqueue"
  PROVE  RestCarried
<1>1. RowsAttached' /\ DOMAIN digests' = DOMAIN digests
  BY DEF RowsAttached, DigestInv
<1>2. \A d \in DOMAIN digests : Carried(d) /\ d # 0
  BY DEF DigestInv, RunsInv, Typed
<1>. QED  BY <1>1, <1>2, QuietCarried DEF RestCarried

LEMMA RestingRun ==
  ASSUME DigestInv, mruns' = mruns, digests' = digests, breaches' \in SUBSET breaches
  PROVE  RestCarried
<1>1. RowsAttached' /\ DOMAIN digests' = DOMAIN digests
  BY DEF RowsAttached, DigestInv
<1>. QED  BY <1>1, RestingCarried DEF RestCarried, DigestInv

LEMMA EndedRun ==
  ASSUME DigestInv, NEW p \in Runners, mruns' = [mruns EXCEPT ![p] = IdleRun], digests' = digests, breaches' = breaches
  PROVE  RestCarried
<1>1. OnlyRun(p) /\ mruns'[p].digest = 0 /\ mruns'[p].phase = "idle"
  BY RulesTyped, IdleBecomes DEF DigestInv, IsRun
<1>. QED  BY <1>1, QuietRun

LEMMA MovedRun ==
  ASSUME DigestInv, NEW p \in Runners, MovesOn(p), digests' = digests, breaches' = breaches
  PROVE  RestCarried
<1>1. OnlyRun(p) /\ mruns'[p].digest = mruns[p].digest /\ mruns'[p].phase # "enqueue"
  BY DEF MovesOn, IsRun
<1>. QED  BY <1>1, QuietRun

\* A run whose row is known.
LEMMA KnownRun ==
  ASSUME DigestInv, NEW p \in Runners, OnlyRun(p), digests' = digests, breaches' = breaches,
         NEW phase, phase # "enqueue", NEW todo, NEW observed, NEW item, NEW outcome, NEW appended, NEW list,
         IsRun(mruns'[p], phase, todo, observed, item, outcome, appended, mruns[p].digest, list)
  PROVE  RestCarried
BY QuietRun DEF IsRun

LEMMA ClaimCarries == ASSUME DigestInv, NEW p \in Runners, ClaimRules(p) PROVE RestCarried
<1>1. Typed /\ digests' = digests /\ breaches' = breaches
  BY DEF ClaimRules, DigestInv, RunsInv
<1>2. OnlyRun(p) /\ mruns'[p].digest = 0 /\ mruns'[p].phase = "portfolios"
  BY <1>1, ClaimBecomes DEF IsRun
<1>. QED  BY <1>1, <1>2, QuietRun

LEMMA ObserveCarries == ASSUME DigestInv, NEW p \in Runners, Observe(p) PROVE RestCarried
<1>1. digests' = digests /\ breaches' = breaches
  BY DEF Observe
<1>2. OnlyRun(p) /\ mruns'[p].digest = mruns[p].digest /\ mruns'[p].phase = "rules"
  BY RulesTyped, ObserveBecomes DEF IsRun, DigestInv
<1>. QED  BY <1>1, <1>2, QuietRun

LEMMA StopCarries == ASSUME DigestInv, NEW p \in Runners, StopEarly(p) PROVE RestCarried
<1>1. digests' = digests /\ breaches' = breaches /\ mruns[p].phase = "portfolios"
  BY DEF StopEarly
<1>2. OnlyRun(p) /\ mruns'[p].digest = mruns[p].digest /\ mruns'[p].phase = "portfolios"
  BY <1>1, RulesTyped, TodoBecomes DEF IsRun, DigestInv
<1>. QED  BY <1>1, <1>2, QuietRun

LEMMA EvaluateCarries == ASSUME DigestInv, NEW p \in Runners, Evaluate(p) PROVE RestCarried
<1>1. digests' = digests /\ breaches' = breaches
  BY DEF Evaluate
<1>2. OnlyRun(p) /\ mruns'[p].digest = mruns[p].digest /\ mruns'[p].phase # "enqueue"
  BY EvaluateBecomes DEF IsRun, DigestInv
<1>. QED  BY <1>1, <1>2, QuietRun

LEMMA RecordCarries == ASSUME DigestInv, NEW p \in Runners, Record(p) PROVE RestCarried
<1>1. digests' = digests /\ breaches' = breaches /\ RunsInv
  BY DEF Record, DigestInv
<1>2. CASE MovesOn(p)
  BY <1>1, <1>2, MovedRun
<1>3. CASE OnlyRun(p) /\ IsRun(mruns'[p], "error", mruns[p].todo, mruns[p].observed, mruns[p].item,
                               mruns[p].outcome, mruns[p].appended, mruns[p].digest, mruns[p].list)
  BY <1>1, <1>3, KnownRun
<1>. QED  BY <1>1, <1>2, <1>3, RecordBecomes

LEMMA RecordErrorCarries == ASSUME DigestInv, NEW p \in Runners, RecordError(p) PROVE RestCarried
BY RulesTyped, NextRuleMovesOn, MovedRun DEF RecordError, DigestInv

LEMMA FailCarries == ASSUME DigestInv, NEW p \in Runners, CallFails(p) PROVE RestCarried
<1>1. digests' = digests /\ breaches' = breaches /\ RunsInv
  BY DEF CallFails, DigestInv
<1>2. CASE MovesOn(p)
  BY <1>1, <1>2, MovedRun
<1>3. CASE OnlyRun(p) /\ IsRun(mruns'[p], "error", mruns[p].todo, mruns[p].observed, mruns[p].item,
                               mruns[p].outcome, mruns[p].appended, mruns[p].digest, mruns[p].list)
  BY <1>1, <1>3, KnownRun
<1>. QED  BY <1>1, <1>2, <1>3, FailBecomes

\* Whoever finds a digest that another run has marks it as shared.
LEMMA FindCarries == ASSUME DigestInv, NEW p \in Runners, FindDigest(p) PROVE RestCarried
<1>1. breaches' = breaches /\ RunsInv /\ mruns[p].phase = "find" /\ mruns[p].digest = 0
  BY DEF FindDigest, DigestInv, RunsInv, DigestInHand
<1>2. CASE mruns' = [mruns EXCEPT ![p].phase = "insert"] /\ digests' = digests
  <2>1. OnlyRun(p) /\ IsRun(mruns'[p], "insert", mruns[p].todo, mruns[p].observed, mruns[p].item, mruns[p].outcome,
                            mruns[p].appended, mruns[p].digest, mruns[p].list)
    BY <1>1, <1>2, RulesTyped, PhaseBecomes DEF Phases
  <2>. QED  BY <1>1, <1>2, <2>1, KnownRun
<1>3. ASSUME NEW o \in OpenDigests, Adopt(p, o),
             digests' = IF \E q \in Runners \ {p} : mruns[q].digest = o
                        THEN [digests EXCEPT ![o].shared = TRUE] ELSE digests
      PROVE  RestCarried
  <2>1. o \in DOMAIN digests /\ o \in 0..MaxDigests /\ o # 0 /\ digests[o].status = "open"
    BY <1>1, MonitorAssumption DEF MonitorAssumption, OpenDigests, RunsInv, Typed
  <2>2. OnlyRun(p) /\ mruns'[p].digest = o /\ mruns'[p].phase = "append"
    BY <1>1, <1>3, <2>1, RulesTyped, AdoptBecomes DEF IsRun
  <2>3. DOMAIN digests' = DOMAIN digests /\ \A d \in DOMAIN digests : d # o => digests'[d] = digests[d]
    BY <1>3
  <2>4. RowsAttached'
    BY <1>1, <2>3 DEF RowsAttached, DigestInv
  <2>5. ASSUME NEW d \in DOMAIN digests, d # o PROVE Carried(d)'
    <3>1. Carried(d) /\ digests'[d] = digests[d]
      BY <2>3, <2>5 DEF DigestInv
    <3>2. OwnedByOne(d) => OwnedByOne(d)'
      BY <1>1, <2>2, <2>5, <3>1 DEF OwnedByOne, OnlyRun
    <3>3. ListComplete(d) => ListComplete(d)'
      BY <1>1, <2>2 DEF ListComplete, OnlyRun, RowsOf
    <3>4. Complete(d) => Complete(d)'
      BY <1>1, <3>1 DEF Complete, RowsOf
    <3>. QED  BY <3>1, <3>2, <3>3, <3>4 DEF Carried
  <2>6. CASE \E q \in Runners \ {p} : mruns[q].digest = o
    <3>1. digests[o] \in DigestRows
      BY <1>1, <2>1 DEF RunsInv, Typed
    <3>2. digests' = [digests EXCEPT ![o].shared = TRUE]
      BY <1>3, <2>6
    <3>3. digests'[o].shared
      BY <2>1, <3>1, <3>2 DEF DigestRows
    <3>. QED  BY <2>3, <2>4, <2>5, <3>3 DEF RestCarried, Carried
  <2>7. CASE ~ \E q \in Runners \ {p} : mruns[q].digest = o
    <3>1. digests'[o].status = "open"
      BY <1>3, <2>1, <2>7
    <3>2. \A q \in Runners : mruns'[q].digest = o => q = p
      BY <2>2, <2>7 DEF OnlyRun
    <3>3. OwnedByOne(o)' /\ Complete(o)'
      BY <3>1, <3>2 DEF OwnedByOne, Complete
    <3>4. ListComplete(o)'
      BY <2>2, <3>2 DEF ListComplete
    <3>5. Carried(o)'
      BY <3>3, <3>4 DEF Carried
    <3>. QED  BY <2>3, <2>4, <2>5, <3>5 DEF RestCarried
  <2>. QED  BY <2>6, <2>7
<1>. QED  BY <1>2, <1>3 DEF FindDigest

LEMMA InsertCarries == ASSUME DigestInv, NEW p \in Runners, InsertDigest(p) PROVE RestCarried
<1>. DEFINE row == [status |-> "open", payload |-> {}, shared |-> FALSE]
            o == Len(digests) + 1
<1>1. breaches' = breaches /\ RunsInv /\ mruns[p].phase = "insert" /\ mruns[p].digest = 0
  BY DEF InsertDigest, DigestInv, RunsInv, DigestInHand
<1>2. digests \in Seq(DigestRows) /\ digests' = Append(digests, row) /\ row.status = "open"
  BY <1>1 DEF InsertDigest, RunsInv, Typed
<1>. HIDE DEF row
<1>3. DOMAIN digests' = DOMAIN digests \cup {o} /\ o \notin DOMAIN digests /\ digests'[o].status = "open"
      /\ \A d \in DOMAIN digests : digests'[d] = digests[d]
  BY <1>2
<1>4. OnlyRun(p) /\ mruns'[p].digest = o /\ mruns'[p].phase = "append"
  BY <1>1, InsertBecomes DEF IsRun
<1>5. \A q \in Runners : mruns'[q].digest = o => q = p
  <2>1. \A q \in Runners : mruns[q].digest # o
    BY <1>1, <1>2, <1>3 DEF RunsInv, DigestInHand
  <2>. QED  BY <1>4, <2>1 DEF OnlyRun
<1>. HIDE DEF o
<1>6. RowsAttached'
  BY <1>1, <1>3 DEF RowsAttached, DigestInv
<1>7. ASSUME NEW d \in DOMAIN digests PROVE Carried(d)'
  <2>1. Carried(d) /\ digests'[d] = digests[d] /\ d # o
    BY <1>3 DEF DigestInv
  <2>2. OwnedByOne(d) => OwnedByOne(d)'
    BY <1>1, <1>4, <2>1 DEF OwnedByOne, OnlyRun
  <2>3. ListComplete(d) => ListComplete(d)'
    BY <1>1, <1>4 DEF ListComplete, OnlyRun, RowsOf
  <2>4. Complete(d) => Complete(d)'
    BY <1>1, <2>1 DEF Complete, RowsOf
  <2>. QED  BY <2>1, <2>2, <2>3, <2>4 DEF Carried
<1>8. ASSUME NEW d, d = o PROVE Carried(d)'
  <2>1. OwnedByOne(d)' /\ Complete(d)'
    BY <1>3, <1>5, <1>8 DEF OwnedByOne, Complete
  <2>2. ListComplete(d)'
    BY <1>4, <1>5, <1>8 DEF ListComplete
  <2>. QED  BY <2>1, <2>2 DEF Carried
<1>. QED  BY <1>3, <1>6, <1>7, <1>8 DEF RestCarried

\* A run appends to a digest which nobody else sends and which has not been sent, or is shared.
LEMMA AppendCarries == ASSUME DigestInv, NEW p \in Runners, AppendBreach(p) PROVE RestCarried
<1>. DEFINE row == [rule |-> mruns[p].item.rule, version |-> mruns[p].item.version,
                    n |-> NextBreach(mruns[p].item.rule), digest |-> mruns[p].digest]
<1>1. RunsInv /\ digests' = digests /\ mruns[p].phase = "append" /\ breaches' = breaches \cup {row}
      /\ row.digest = mruns[p].digest
  BY DEF AppendBreach, DigestInv
<1>. HIDE DEF row
<1>2. mruns[p].digest \in DOMAIN digests
  BY <1>1 DEF RunsInv, DigestInHand
<1>3. PICK phase \in {"record", "error"}, appended \in BOOLEAN :
        IsRun(mruns'[p], phase, mruns[p].todo, mruns[p].observed, mruns[p].item, mruns[p].outcome,
              appended, mruns[p].digest, mruns[p].list)
  BY <1>1, AppendBecomes
<1>4. OnlyRun(p) /\ mruns'[p].digest = mruns[p].digest /\ mruns'[p].phase # "enqueue"
  BY <1>1, <1>3, AppendBecomes DEF IsRun
<1>5. RowsAttached' /\ DOMAIN digests' = DOMAIN digests
  BY <1>1, <1>2 DEF RowsAttached, DigestInv
<1>6. ASSUME NEW d \in DOMAIN digests PROVE Carried(d)'
  <2>. SUFFICES ASSUME ~ digests[d].shared PROVE OwnedByOne(d)' /\ ListComplete(d)' /\ Complete(d)'
    BY <1>1 DEF Carried
  <2>1. OwnedByOne(d) /\ ListComplete(d) /\ Complete(d)
    BY DEF Carried, DigestInv
  <2>2. OwnedByOne(d)'
    BY <1>1, <1>4, <2>1 DEF OwnedByOne, OnlyRun
  <2>3. CASE d = mruns[p].digest
    <3>1. digests[d].status # "dispatched" /\ \A q \in Runners : q # p => mruns[q].digest # d
      BY <2>1, <2>3 DEF OwnedByOne
    <3>2. Complete(d)'
      BY <1>1, <3>1 DEF Complete
    <3>3. ListComplete(d)'
      BY <1>4, <3>1 DEF ListComplete, OnlyRun
    <3>. QED  BY <2>2, <3>2, <3>3
  <2>4. CASE d # mruns[p].digest
    <3>1. \A b \in RowsOf(d)' : b \in RowsOf(d)
      BY <1>1, <2>4 DEF RowsOf
    <3>2. Complete(d)'
      BY <1>1, <2>1, <3>1 DEF Complete
    <3>3. ListComplete(d)'
      BY <1>4, <2>1, <3>1 DEF ListComplete, OnlyRun
    <3>. QED  BY <2>2, <3>2, <3>3
  <2>. QED  BY <2>3, <2>4
<1>. QED  BY <1>5, <1>6 DEF RestCarried

LEMMA ListCarries == ASSUME DigestInv, NEW p \in Runners, ListBreaches(p) PROVE RestCarried
<1>1. digests' = digests /\ breaches' = breaches /\ RunsInv
  BY DEF ListBreaches, DigestInv
<1>2. CASE mruns' = [mruns EXCEPT ![p] = IdleRun]
  BY <1>1, <1>2, EndedRun
<1>3. CASE OnlyRun(p) /\ IsRun(mruns'[p], "enqueue", mruns[p].todo, mruns[p].observed, mruns[p].item,
                               mruns[p].outcome, mruns[p].appended, mruns[p].digest, RowsOf(mruns[p].digest))
  <2>1. mruns'[p].digest = mruns[p].digest /\ mruns'[p].list = RowsOf(mruns[p].digest)
    BY <1>3 DEF IsRun
  <2>2. RowsAttached' /\ DOMAIN digests' = DOMAIN digests
    BY <1>1 DEF RowsAttached, DigestInv
  <2>3. ASSUME NEW d \in DOMAIN digests PROVE Carried(d)'
    <3>1. Carried(d)
      BY DEF DigestInv
    <3>2. OwnedByOne(d) => OwnedByOne(d)'
      BY <1>1, <1>3, <2>1 DEF OwnedByOne, OnlyRun
    <3>3. ListComplete(d) => ListComplete(d)'
      BY <1>1, <1>3, <2>1 DEF ListComplete, OnlyRun, RowsOf
    <3>4. Complete(d) => Complete(d)'
      BY <1>1 DEF Complete, RowsOf
    <3>. QED  BY <1>1, <3>1, <3>2, <3>3, <3>4 DEF Carried
  <2>. QED  BY <2>2, <2>3 DEF RestCarried
<1>. QED  BY <1>1, <1>2, <1>3, ListedBecomes

LEMMA EnqueueCarries == ASSUME DigestInv, NEW p \in Runners, Enqueue(p) PROVE RestCarried
<1>. DEFINE o == mruns[p].digest
<1>1. breaches' = breaches /\ RunsInv /\ mruns[p].phase = "enqueue"
  BY DEF Enqueue, DigestInv
<1>2. OnlyRun(p) /\ mruns'[p].digest = 0 /\ mruns'[p].phase = "idle"
  BY <1>1, RulesTyped, IdleBecomes DEF Enqueue, IsRun
<1>3. /\ o \in DOMAIN digests /\ DOMAIN digests' = DOMAIN digests
      /\ \A d \in DOMAIN digests : digests'[d].shared = digests[d].shared /\ (d # o => digests'[d] = digests[d])
      /\ digests'[o] = digests[o] \/ digests'[o].payload = mruns[p].list
  BY <1>1, EnqueuedBecomes
<1>4. RowsAttached'
  BY <1>1, <1>3 DEF RowsAttached, DigestInv
<1>5. ASSUME NEW d \in DOMAIN digests PROVE Carried(d)'
  <2>1. Carried(d) /\ d # 0
    BY <1>1 DEF DigestInv, RunsInv, Typed
  <2>2. CASE d # o
    <3>1. digests'[d] = digests[d] /\ breaches' \in SUBSET breaches
      BY <1>1, <1>3, <2>2
    <3>. QED  BY <1>2, <2>1, <3>1, QuietCarried
  <2>3. CASE d = o
    <3>. SUFFICES ASSUME ~ digests'[d].shared PROVE OwnedByOne(d)' /\ ListComplete(d)' /\ Complete(d)'
      BY DEF Carried
    <3>1. ~ digests[d].shared
      BY <1>3
    <3>2. OwnedByOne(d) /\ ListComplete(d) /\ Complete(d)
      BY <2>1, <3>1 DEF Carried
    <3>3. \A q \in Runners : mruns'[q].digest # d
      BY <1>2, <2>1, <2>3, <3>2 DEF OwnedByOne, OnlyRun
    <3>4. RowsOf(d) \subseteq mruns[p].list
      BY <1>1, <2>3, <3>2 DEF ListComplete
    <3>5. Complete(d)'
      BY <1>1, <1>3, <2>3, <3>2, <3>4 DEF Complete, RowsOf
    <3>. QED  BY <3>3, <3>5 DEF OwnedByOne, ListComplete
  <2>. QED  BY <2>2, <2>3
<1>. QED  BY <1>3, <1>4, <1>5 DEF RestCarried

LEMMA CarriedStep ==
  ASSUME DigestInv, [MonitorNext]_monitorVars
  PROVE  RestCarried
<1>1. ASSUME NEW r \in Rules, Save(r) \/ DeleteRule(r) \/ IntervalPasses(r) \/ LeaseExpires(r) PROVE RestCarried
  <2>1. mruns' = mruns /\ digests' = digests /\ breaches' \in SUBSET breaches
    BY <1>1 DEF Save, DeleteRule, IntervalPasses, LeaseExpires
  <2>. QED  BY <2>1, RestingRun
<1>2. ASSUME NEW p \in Runners, KillRun(p) PROVE RestCarried
  BY <1>2, EndedRun DEF KillRun
<1>3. ASSUME NEW p \in Runners, ClaimRules(p) \/ Work(p) PROVE RestCarried
  BY <1>3, ClaimCarries, ObserveCarries, EvaluateCarries, FindCarries, InsertCarries, AppendCarries, RecordCarries,
     RecordErrorCarries, FailCarries, StopCarries, ListCarries, EnqueueCarries DEF Work
<1>4. CASE UNCHANGED monitorVars
  <2>1. mruns' = mruns /\ digests' = digests /\ breaches' \in SUBSET breaches
    BY <1>4 DEF monitorVars
  <2>. QED  BY <2>1, RestingRun
<1>. QED  BY <1>1, <1>2, <1>3, <1>4 DEF MonitorNext, OwnerActs, Time

\* A dispatched digest carries every breach attached to it, those of earlier runs whose message
\* failed included (monitor-service.ts:235; store.ts:129,155), unless two runs were
\* writing to it: then one may dispatch what it has listed while the other still appends.
THEOREM DigestsCarryTheirBreachesAlways == MonitorSpec => []DigestsCarryTheirBreaches
<1>1. MonitorInit => DigestInv /\ Findings
  <2>1. MonitorInit => RowsAttached /\ \A d \in DOMAIN digests : Carried(d)
    BY DEF MonitorInit, RowsAttached
  <2>. QED  BY <2>1, RunsInit DEF DigestInv
<1>2. DigestInv /\ Findings /\ [MonitorNext]_monitorVars => (DigestInv /\ Findings)'
  BY RunsStep, CarriedStep DEF DigestInv, RestCarried
<1>3. DigestInv => DigestsCarryTheirBreaches
  BY DEF DigestInv, Carried, Complete, DigestsCarryTheirBreaches
<1>. QED  BY <1>1, <1>2, <1>3, PTL DEF MonitorSpec
=============================================================================
