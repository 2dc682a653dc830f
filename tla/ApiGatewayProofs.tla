-------------------------- MODULE ApiGatewayProofs --------------------------
(***************************************************************************)
(* What answers tell and show, for any number of requests, keys, failures  *)
(* and limits.  The programs of the handlers are looked at first: what may *)
(* follow what in them.  Then the requests under way, whose invariant says *)
(* what each still has to do and what its view holds already.              *)
(***************************************************************************)
EXTENDS ApiGateway, FiniteSetTheorems, TLAPS

-----------------------------------------------------------------------------
(* Programs: sequences of sets of calls.                                    *)

IsProgram(s) == \E S : s \in Seq(S)
CallsOf(s) == UNION {s[i] : i \in DOMAIN s}

IsSelect(c) == \E t : c = Select(t)

(* What may come before what: only selects follow a write, and what is     *)
(* shown before it is of other tables; nothing is shown before a keyed one.*)
Before(c, d) ==
  /\ c.do \in Written => IsSelect(d)
  /\ d.do \in Written /\ IsSelect(c) => c.tables \cap d.tables = {} /\ d.do \notin {"entry", "keyed"}

(* A write is made alone, and everything in its order.                     *)
Ordered(s) ==
  /\ \A i \in DOMAIN s : \A c, d \in s[i] : c.do \in Written => d = c
  /\ \A i, j \in DOMAIN s : i < j => \A c \in s[i], d \in s[j] : Before(c, d)

(* The row of a plan is read before what belongs to it.                    *)
RowsFirst(s) ==
  \A i \in DOMAIN s : Select(RunRows) \in s[i] =>
    \A t \in Details : \E j \in DOMAIN s : i < j /\ Select(t) \in s[j]

Plain == {"check", "find", "count", "quote", "known"}
Asks == Plain \cup {"assess"}

Reading(s, D) ==
  IsProgram(s) /\ RowsFirst(s) /\ \A c \in CallsOf(s) : c.do \in D \/ IsSelect(c)
Writing(s, w, D) ==
  /\ IsProgram(s) /\ Ordered(s) /\ RowsFirst(s)
  /\ w \in CallsOf(s) /\ w.do \in Written
  /\ \A c \in CallsOf(s) : c = w \/ c.do \in D \/ IsSelect(c)

LEMMA CallFields ==
  ASSUME NEW do, NEW ts, NEW e
  PROVE  /\ Call(do, ts, e).do = do /\ Call(do, ts, e).tables = ts /\ Call(do, ts, e).event = e
BY DEF Call

LEMMA SelectOf ==
  ASSUME NEW t
  PROVE  IsSelect(Select(t)) /\ Select(t).do = "select" /\ Select(t).tables = {t}
<1>1. Select(t) = Call("select", {t}, None)
  BY DEF Select
<1>2. /\ Call("select", {t}, None).do = "select" /\ Call("select", {t}, None).tables = {t}
  BY CallFields
<1>3. IsSelect(Select(t))
  BY DEF IsSelect
<1>. QED  BY <1>1, <1>2, <1>3

LEMMA SelectKind == ASSUME NEW c, IsSelect(c) PROVE c.do = "select" /\ \E t : c.tables = {t}
BY SelectOf DEF IsSelect

(* A program after another.                                                *)
Concatenated(s, t, u) ==
  /\ \A i \in DOMAIN s : i \in DOMAIN u /\ u[i] = s[i]
  /\ \A n \in DOMAIN t : Len(s) + n \in DOMAIN u /\ u[Len(s) + n] = t[n]
  /\ \A i \in DOMAIN u : i \in DOMAIN s \/ \E n \in DOMAIN t : i = Len(s) + n
  /\ Len(s) \in Nat /\ DOMAIN s = 1..Len(s) /\ \A n \in DOMAIN t : n \in Nat /\ n > 0
  /\ DOMAIN u = 1..(Len(s) + Len(t))

LEMMA Joined ==
  ASSUME NEW s, NEW t, IsProgram(s), IsProgram(t)
  PROVE  IsProgram(s \o t) /\ Concatenated(s, t, s \o t)
<1>0. PICK S : s \in Seq(S) /\ t \in Seq(S)
  <2>1. PICK A, B : s \in Seq(A) /\ t \in Seq(B)
    BY DEF IsProgram
  <2>2. s \in Seq(A \cup B) /\ t \in Seq(A \cup B)
    BY <2>1
  <2>. QED  BY <2>2
<1>1. IsProgram(s \o t) /\ Len(s \o t) = Len(s) + Len(t)
  BY <1>0 DEF IsProgram
<1>2. DOMAIN s = 1..Len(s) /\ DOMAIN t = 1..Len(t)
      /\ DOMAIN (s \o t) = 1..(Len(s) + Len(t)) /\ Len(s) \in Nat /\ Len(t) \in Nat
  BY <1>0
<1>3. \A i \in DOMAIN s : i \in DOMAIN (s \o t) /\ (s \o t)[i] = s[i]
  BY <1>0
<1>4. \A n \in DOMAIN t : Len(s) + n \in DOMAIN (s \o t) /\ (s \o t)[Len(s) + n] = t[n]
  BY <1>0
<1>5. ASSUME NEW i \in DOMAIN (s \o t), i \notin DOMAIN s
      PROVE  \E n \in DOMAIN t : i = Len(s) + n
  <2>1. i - Len(s) \in DOMAIN t
    BY <1>2, <1>5
  <2>2. i = Len(s) + (i - Len(s))
    BY <1>2
  <2>. QED  BY <2>1, <2>2
<1>. DEFINE u == s \o t
<1>. HIDE DEF u
<1>6. Concatenated(s, t, u)
  BY <1>1, <1>2, <1>3, <1>4, <1>5 DEF Concatenated, u
<1>. QED  BY <1>1, <1>6 DEF u

LEMMA JoinedCalls ==
  ASSUME NEW s, NEW t, IsProgram(s), IsProgram(t)
  PROVE  CallsOf(s \o t) = CallsOf(s) \cup CallsOf(t)
<1>. DEFINE u == s \o t
<1>. HIDE DEF u
<1>0. Concatenated(s, t, u)
  BY Joined DEF u
<1>1. /\ \A i \in DOMAIN s : i \in DOMAIN u /\ u[i] = s[i]
      /\ \A n \in DOMAIN t : Len(s) + n \in DOMAIN u /\ u[Len(s) + n] = t[n]
      /\ \A i \in DOMAIN u : i \in DOMAIN s \/ \E n \in DOMAIN t : i = Len(s) + n
  BY <1>0 DEF Concatenated
<1>2. CallsOf(s) \subseteq CallsOf(u) /\ CallsOf(t) \subseteq CallsOf(u)
  BY <1>1 DEF CallsOf
<1>3. CallsOf(u) \subseteq CallsOf(s) \cup CallsOf(t)
  BY <1>1 DEF CallsOf
<1>4. CallsOf(u) = CallsOf(s) \cup CallsOf(t)
  BY <1>2, <1>3
<1>. QED  BY <1>4 DEF u

LEMMA JoinedRowsFirst ==
  ASSUME NEW s, NEW t, IsProgram(s), IsProgram(t),
         \A i \in DOMAIN s : Select(RunRows) \in s[i] =>
           \A d \in Details : (\E j \in DOMAIN s : i < j /\ Select(d) \in s[j]) \/ Select(d) \in CallsOf(t),
         RowsFirst(t)
  PROVE  RowsFirst(s \o t)
<1>. DEFINE u == s \o t
<1>. HIDE DEF u
<1>0. Concatenated(s, t, u)
  BY Joined DEF u
<1>1. /\ \A i \in DOMAIN s : i \in DOMAIN u /\ u[i] = s[i]
      /\ \A n \in DOMAIN t : Len(s) + n \in DOMAIN u /\ u[Len(s) + n] = t[n]
      /\ \A i \in DOMAIN u : i \in DOMAIN s \/ \E n \in DOMAIN t : i = Len(s) + n
      /\ Len(s) \in Nat /\ DOMAIN s = 1..Len(s) /\ \A n \in DOMAIN t : n \in Nat /\ n > 0
  BY <1>0 DEF Concatenated
<1>2. ASSUME NEW i \in DOMAIN u, Select(RunRows) \in u[i], NEW d \in Details
      PROVE  \E j \in DOMAIN u : i < j /\ Select(d) \in u[j]
  <2>1. CASE i \in DOMAIN s /\ \E j \in DOMAIN s : i < j /\ Select(d) \in s[j]
    BY <1>1, <2>1
  <2>2. CASE i \in DOMAIN s /\ Select(d) \in CallsOf(t)
    <3>1. PICK n \in DOMAIN t : Select(d) \in t[n]
      BY <2>2 DEF CallsOf
    <3>2. i \in Nat /\ i <= Len(s)
      BY <1>1, <2>2
    <3>3. Len(s) + n \in DOMAIN u /\ u[Len(s) + n] = t[n] /\ i < Len(s) + n
      BY <1>1, <3>2
    <3>. QED  BY <3>1, <3>3
  <2>3. CASE i \notin DOMAIN s
    <3>1. PICK n \in DOMAIN t : i = Len(s) + n
      BY <1>1, <2>3
    <3>2. Select(RunRows) \in t[n]
      BY <1>1, <1>2, <3>1
    <3>3. PICK m \in DOMAIN t : n < m /\ Select(d) \in t[m]
      BY <3>2 DEF RowsFirst
    <3>4. Len(s) + m \in DOMAIN u /\ u[Len(s) + m] = t[m] /\ i < Len(s) + m
      BY <1>1, <3>1, <3>3
    <3>. QED  BY <3>3, <3>4
  <2>4. i \in DOMAIN s => Select(RunRows) \in s[i]
    BY <1>1, <1>2
  <2>. QED  BY <2>1, <2>2, <2>3, <2>4, <1>2
<1>3. RowsFirst(u)
  BY <1>2 DEF RowsFirst
<1>. QED  BY <1>3 DEF u

LEMMA JoinedOrdered ==
  ASSUME NEW s, NEW t, IsProgram(s), IsProgram(t), Ordered(s), Ordered(t),
         \A c \in CallsOf(s), d \in CallsOf(t) : Before(c, d)
  PROVE  Ordered(s \o t)
<1>. DEFINE u == s \o t
<1>. HIDE DEF u
<1>0. Concatenated(s, t, u)
  BY Joined DEF u
<1>1. /\ \A i \in DOMAIN s : i \in DOMAIN u /\ u[i] = s[i]
      /\ \A n \in DOMAIN t : Len(s) + n \in DOMAIN u /\ u[Len(s) + n] = t[n]
      /\ \A i \in DOMAIN u : i \in DOMAIN s \/ \E n \in DOMAIN t : i = Len(s) + n
      /\ Len(s) \in Nat /\ DOMAIN s = 1..Len(s) /\ \A n \in DOMAIN t : n \in Nat /\ n > 0
  BY <1>0 DEF Concatenated
<1>2. ASSUME NEW i \in DOMAIN u, NEW c \in u[i], NEW d \in u[i], c.do \in Written PROVE d = c
  <2>1. CASE i \in DOMAIN s
    BY <1>1, <1>2, <2>1 DEF Ordered
  <2>2. CASE i \notin DOMAIN s
    <3>1. PICK n \in DOMAIN t : i = Len(s) + n
      BY <1>1, <2>2
    <3>. QED  BY <1>1, <1>2, <3>1 DEF Ordered
  <2>. QED  BY <2>1, <2>2
<1>3. ASSUME NEW i \in DOMAIN u, NEW j \in DOMAIN u, i < j, NEW c \in u[i], NEW d \in u[j] PROVE Before(c, d)
  <2>1. CASE i \in DOMAIN s /\ j \in DOMAIN s
    BY <1>1, <1>3, <2>1 DEF Ordered
  <2>2. CASE i \in DOMAIN s /\ j \notin DOMAIN s
    <3>1. PICK n \in DOMAIN t : j = Len(s) + n
      BY <1>1, <2>2
    <3>2. c \in CallsOf(s) /\ d \in CallsOf(t)
      BY <1>1, <1>3, <2>2, <3>1 DEF CallsOf
    <3>. QED  BY <3>2
  <2>3. CASE i \notin DOMAIN s
    <3>1. PICK n \in DOMAIN t : i = Len(s) + n
      BY <1>1, <2>3
    <3>2. j \notin DOMAIN s
      BY <1>1, <1>3, <3>1
    <3>3. PICK m \in DOMAIN t : j = Len(s) + m
      BY <1>1, <3>2
    <3>4. n < m
      BY <1>1, <1>3, <3>1, <3>3
    <3>. QED  BY <1>1, <1>3, <3>1, <3>3, <3>4 DEF Ordered
  <2>. QED  BY <2>1, <2>2, <2>3
<1>4. Ordered(u)
  BY <1>2, <1>3 DEF Ordered
<1>. QED  BY <1>4 DEF u

(* Programs of one step.                                                   *)
LEMMA OneStep ==
  ASSUME NEW X
  PROVE  IsProgram(<<X>>) /\ CallsOf(<<X>>) = X /\ DOMAIN <<X>> = {1} /\ <<X>>[1] = X
<1>1. <<X>> \in Seq({X}) /\ DOMAIN <<X>> = {1} /\ <<X>>[1] = X
  OBVIOUS
<1>. QED  BY <1>1 DEF IsProgram, CallsOf

LEMMA ReadOrdered ==
  ASSUME NEW s, NEW D, Reading(s, D), D \cap Written = {}
  PROVE  Ordered(s) /\ \A c \in CallsOf(s) : c.do \notin Written
<1>1. \A c \in CallsOf(s) : c.do \notin Written
  BY SelectKind DEF Reading, Written
<1>2. \A i \in DOMAIN s : \A c \in s[i] : c \in CallsOf(s)
  BY DEF CallsOf
<1>. QED  BY <1>1, <1>2 DEF Ordered, Before

LEMMA SelectOne ==
  ASSUME NEW X, NEW D, \A c \in X : IsSelect(c), \A c \in X : c.tables # {RunRows}
  PROVE  Reading(<<X>>, D)
<1>. DEFINE s == <<X>>
<1>1. IsProgram(s) /\ CallsOf(s) = X /\ DOMAIN s = {1} /\ s[1] = X
  BY OneStep
<1>2. Select(RunRows) \notin X
  BY SelectOf
<1>. HIDE DEF s
<1>3. Reading(s, D)
  BY <1>1, <1>2 DEF Reading, RowsFirst
<1>. QED  BY <1>3 DEF s

(* Programs that ask, and show nothing.                                    *)
Asking(s, D) == IsProgram(s) /\ \A c \in CallsOf(s) : c.do \in D

LEMMA AskOne ==
  ASSUME NEW c, NEW D, c.do \in D
  PROVE  Asking(<<{c}>>, D)
<1>. DEFINE s == <<{c}>>
<1>1. IsProgram(s) /\ CallsOf(s) = {c}
  BY OneStep
<1>. HIDE DEF s
<1>2. Asking(s, D)
  BY <1>1 DEF Asking
<1>. QED  BY <1>2 DEF s

LEMMA AskAsk == ASSUME NEW s, NEW t, NEW D, Asking(s, D), Asking(t, D) PROVE Asking(s \o t, D)
<1>. DEFINE u == s \o t
<1>1. IsProgram(u) /\ CallsOf(u) = CallsOf(s) \cup CallsOf(t)
  BY Joined, JoinedCalls DEF Asking
<1>. HIDE DEF u
<1>2. Asking(u, D)
  BY <1>1 DEF Asking
<1>. QED  BY <1>2 DEF u

LEMMA AskRead == ASSUME NEW s, NEW D, Asking(s, D), "select" \notin D PROVE Reading(s, D)
<1>1. \A i \in DOMAIN s : \A c \in s[i] : c.do # "select"
  BY DEF Asking, CallsOf
<1>. QED  BY <1>1, SelectOf DEF Asking, Reading, RowsFirst

LEMMA ReadRead == ASSUME NEW s, NEW t, NEW D, Reading(s, D), Reading(t, D) PROVE Reading(s \o t, D)
<1>. DEFINE u == s \o t
<1>1. IsProgram(u) /\ CallsOf(u) = CallsOf(s) \cup CallsOf(t)
  BY Joined, JoinedCalls DEF Reading
<1>2. RowsFirst(u)
  BY JoinedRowsFirst DEF Reading, RowsFirst
<1>. HIDE DEF u
<1>3. Reading(u, D)
  BY <1>1, <1>2 DEF Reading
<1>. QED  BY <1>3 DEF u

LEMMA ReadMore == ASSUME NEW s, NEW D, NEW E, Reading(s, D), D \subseteq E PROVE Reading(s, E)
BY DEF Reading

LEMMA WriteOne == ASSUME NEW w, NEW D, w.do \in Written PROVE Writing(<<{w}>>, w, D)
<1>. DEFINE s == <<{w}>>
<1>1. IsProgram(s) /\ CallsOf(s) = {w} /\ DOMAIN s = {1} /\ s[1] = {w}
  BY OneStep
<1>2. Select(RunRows) # w
  BY SelectOf DEF Written
<1>. HIDE DEF s
<1>3. Writing(s, w, D)
  BY <1>1, <1>2 DEF Writing, Ordered, RowsFirst
<1>. QED  BY <1>3 DEF s

LEMMA WriteRead ==
  ASSUME NEW w, NEW t, NEW D, w.do \in Written, Reading(t, {})
  PROVE  Writing(<<{w}>> \o t, w, D)
<1>. DEFINE s == <<{w}>>
            u == s \o t
<1>1. IsProgram(s) /\ CallsOf(s) = {w} /\ Writing(s, w, D) /\ DOMAIN s = {1} /\ s[1] = {w}
  BY OneStep, WriteOne
<1>. HIDE DEF s
<1>2. IsProgram(u) /\ CallsOf(u) = CallsOf(s) \cup CallsOf(t)
  BY <1>1, Joined, JoinedCalls DEF Reading
<1>3. \A c \in CallsOf(s), d \in CallsOf(t) : Before(c, d)
  BY <1>1, SelectKind DEF Before, Reading, Written
<1>4. Ordered(u)
  <2>1. Ordered(t)
    BY ReadOrdered
  <2>. QED  BY <1>1, <1>3, <2>1, JoinedOrdered DEF Writing, Reading
<1>5. RowsFirst(u)
  <2>1. Select(RunRows) \notin s[1]
    BY <1>1, SelectOf DEF Written
  <2>. QED  BY <1>1, <2>1, JoinedRowsFirst DEF Reading
<1>. HIDE DEF u
<1>6. Writing(u, w, D)
  BY <1>1, <1>2, <1>4, <1>5 DEF Writing, Reading
<1>. QED  BY <1>6 DEF s, u

LEMMA ReadWrite ==
  ASSUME NEW s, NEW t, NEW w, NEW D, Reading(s, D), Writing(t, w, D), D \cap Written = {},
         \A c \in CallsOf(s) : IsSelect(c) => c.tables \cap w.tables = {} /\ w.do \notin {"entry", "keyed"}
  PROVE  Writing(s \o t, w, D)
<1>. DEFINE u == s \o t
<1>1. IsProgram(u) /\ CallsOf(u) = CallsOf(s) \cup CallsOf(t)
  BY Joined, JoinedCalls DEF Reading, Writing
<1>2. Ordered(s) /\ \A c \in CallsOf(s) : c.do \notin Written
  BY ReadOrdered
<1>3. \A d \in CallsOf(t) : d.do \in Written => d = w
  BY SelectKind DEF Writing, Written
<1>4. \A c \in CallsOf(s), d \in CallsOf(t) : Before(c, d)
  BY <1>2, <1>3 DEF Before
<1>5. Ordered(u) /\ RowsFirst(u)
  BY <1>2, <1>4, JoinedOrdered, JoinedRowsFirst DEF Reading, Writing, RowsFirst
<1>. HIDE DEF u
<1>6. Writing(u, w, D)
  BY <1>1, <1>5 DEF Reading, Writing
<1>. QED  BY <1>6 DEF u

LEMMA AskWrite ==
  ASSUME NEW s, NEW t, NEW w, NEW D, Asking(s, D), Writing(t, w, D), D \cap Written = {}, "select" \notin D
  PROVE  Writing(s \o t, w, D)
<1>1. Reading(s, D)
  BY AskRead
<1>2. \A c \in CallsOf(s) : ~ IsSelect(c)
  BY SelectKind DEF Asking
<1>. QED  BY <1>1, <1>2, ReadWrite

LEMMA TwoSteps == ASSUME NEW X, NEW Y PROVE <<X, Y>> = <<X>> \o <<Y>>
<1>. DEFINE s == <<X>>
            t == <<Y>>
            u == s \o t
            v == <<X, Y>>
<1>1. /\ s \in Seq({X, Y}) /\ DOMAIN s = {1} /\ Len(s) = 1 /\ s[1] = X
      /\ t \in Seq({X, Y}) /\ DOMAIN t = {1} /\ Len(t) = 1 /\ t[1] = Y
  OBVIOUS
<1>2. v \in Seq({X, Y}) /\ DOMAIN v = {1, 2} /\ Len(v) = 2 /\ v[1] = X /\ v[2] = Y
  OBVIOUS
<1>. HIDE DEF s, t, v
<1>3. IsProgram(u) /\ Concatenated(s, t, u)
  BY <1>1, Joined DEF IsProgram
<1>. HIDE DEF u
<1>4. u[1] = X /\ u[2] = Y /\ DOMAIN u = {1, 2}
  BY <1>1, <1>3 DEF Concatenated
<1>5. PICK S : u \in Seq(S)
  BY <1>3 DEF IsProgram
<1>6. u = [i \in {1, 2} |-> u[i]] /\ v = [i \in {1, 2} |-> v[i]]
  BY <1>2, <1>4, <1>5
<1>7. u = v
  BY <1>2, <1>4, <1>6
<1>. QED  BY <1>7 DEF s, t, u, v

(* The row of a plan and its details.                                      *)
LEMMA RunsRead == ASSUME NEW D PROVE Reading(<<{Select(RunRows)}>> \o hydrateRebalanceRuns, D)
<1>. DEFINE s == <<{Select(RunRows)}>>
            t == hydrateRebalanceRuns
            X == {Select(d) : d \in Details}
            u == s \o t
<1>1. IsProgram(s) /\ CallsOf(s) = {Select(RunRows)}
  BY OneStep
<1>2. t = <<X>> /\ IsProgram(t) /\ CallsOf(t) = X
  BY OneStep DEF hydrateRebalanceRuns
<1>3. /\ \A c \in X : IsSelect(c) /\ c.tables # {RunRows}
      /\ \A d \in Details : Select(d) \in X
  BY SelectOf DEF Details, RunRows, ItemRows, FillRows, EventRows
<1>4. Reading(t, D)
  <2>. HIDE DEF t, X
  <2>. QED  BY <1>2, <1>3, SelectOne
<1>. HIDE DEF s, t, X
<1>5. IsProgram(u) /\ CallsOf(u) = CallsOf(s) \cup CallsOf(t)
  BY <1>1, <1>2, Joined, JoinedCalls
<1>6. RowsFirst(u)
  BY <1>1, <1>2, <1>3, <1>4, JoinedRowsFirst DEF Reading
<1>. HIDE DEF u
<1>7. Reading(u, D)
  BY <1>1, <1>2, <1>3, <1>5, <1>6, SelectOf DEF Reading
<1>. QED  BY <1>7 DEF s, t, u

-----------------------------------------------------------------------------
(* The handlers.                                                            *)

LEMMA Kinds ==
  ASSUME NEW t, NEW ts, NEW e
  PROVE  /\ Find(t).do = "find" /\ CountBelow(t).do = "count" /\ Quote.do = "quote"
         /\ KeyKnown.do = "known" /\ Assess.do = "assess" /\ Check(e).do = "check"
BY CallFields DEF Find, CountBelow, Quote, KeyKnown, Assess, Check

LEMMA WriteKinds ==
  ASSUME NEW t, NEW e
  PROVE  Write(t, e).do = "write" /\ Write(t, e).tables = {t} /\ Write(t, e).event = e
BY CallFields DEF Write

LEMMA OtherKinds ==
  ASSUME NEW ts, NEW e
  PROVE  /\ Quietly(ts, e).do = "quiet" /\ Quietly(ts, e).tables = ts /\ Quietly(ts, e).event = e
         /\ Versioned(ts, e).do = "versioned" /\ Versioned(ts, e).tables = ts /\ Versioned(ts, e).event = e
BY CallFields DEF Quietly, Versioned

LEMMA KeyedKinds ==
  ASSUME NEW ts, NEW e
  PROVE  /\ Entry(e).do = "entry" /\ Entry(e).tables = {"portfolio_transactions"} /\ Entry(e).event = e
         /\ Keyed(ts, e).do = "keyed" /\ Keyed(ts, e).tables = ts /\ Keyed(ts, e).event = e
BY CallFields DEF Entry, Keyed

(* What writes without a key, and what writes under one.                   *)
OtherTable(t) == t \notin Details \cup {RunRows}
KeylessWrite(w) ==
  /\ w.do \in {"write", "quiet", "versioned"}
  /\ w.do = "write" => \E t : w.tables = {t} /\ OtherTable(t)
  /\ w.event = "restored" => "price_alerts" \notin w.tables
KeyedWrite(w, event) ==
  /\ w.do \in {"entry", "keyed"} /\ w.event = event
  /\ w.do = "entry" => w.tables = {"portfolio_transactions"}
Inserts(c) == c.do \in Written /\ c.event = "added" /\ "price_alerts" \in c.tables

(* The programs of operations that read, write, or write under a key.      *)
Sound(op, s) ==
  \/ ~ requireIdempotencyKey(op) /\ Reading(s, Plain)
  \/ ~ requireIdempotencyKey(op) /\ \E w :
       /\ Writing(s, w, Plain) /\ KeylessWrite(w)
       /\ Inserts(w) => CountBelow("price_alerts") \in CallsOf(s)
  \/ requireIdempotencyKey(op) /\ \E w : Writing(s, w, Asks) /\ KeyedWrite(w, Expected(op))

LEMMA OtherTables ==
  OtherTable("watchlists") /\ OtherTable("price_alerts") /\ OtherTable("portfolios") /\ OtherTable("investment_theses")
BY DEF OtherTable, Details, RunRows, ItemRows, FillRows, EventRows

LEMMA KeylessWrites ==
  ASSUME NEW t, OtherTable(t), NEW e, t # "price_alerts" \/ e # "restored"
  PROVE  /\ KeylessWrite(Write(t, e)) /\ Write(t, e).do \in Written
         /\ Inserts(Write(t, e)) => t = "price_alerts" /\ e = "added"
<1>. DEFINE w == Write(t, e)
<1>1. w.do = "write" /\ w.tables = {t} /\ w.event = e
  BY WriteKinds
<1>. HIDE DEF w
<1>2. KeylessWrite(w) /\ w.do \in Written /\ (Inserts(w) => t = "price_alerts" /\ e = "added")
  BY <1>1 DEF KeylessWrite, OtherTable, Written, Inserts
<1>. QED  BY <1>2 DEF w

LEMMA KeylessCalls ==
  ASSUME NEW ts, NEW e, e # "restored", e # "added"
  PROVE  /\ KeylessWrite(Quietly(ts, e)) /\ ~ Inserts(Quietly(ts, e)) /\ Quietly(ts, e).do \in Written
         /\ KeylessWrite(Versioned(ts, e)) /\ ~ Inserts(Versioned(ts, e)) /\ Versioned(ts, e).do \in Written
<1>1. /\ Quietly(ts, e).do = "quiet" /\ Quietly(ts, e).event = e
      /\ Versioned(ts, e).do = "versioned" /\ Versioned(ts, e).event = e
  BY OtherKinds
<1>. QED  BY <1>1 DEF KeylessWrite, Inserts, Written

LEMMA AskKinds ==
  /\ Plain \cap Written = {} /\ "select" \notin Plain
  /\ Asks \cap Written = {} /\ "select" \notin Asks
  /\ Plain \subseteq Asks
BY DEF Plain, Asks, Written

(* The store functions, as parts of programs.                              *)
LEMMA LookupAsks == ASSUME NEW t, NEW D, Plain \subseteq D
  PROVE Asking(<<{Find(t)}>>, D) /\ Asking(<<{CountBelow(t)}>>, D) /\ Asking(<<{Quote}>>, D) /\ Asking(<<{KeyKnown}>>, D)
<1>1. Find(t).do \in D /\ CountBelow(t).do \in D /\ Quote.do \in D /\ KeyKnown.do \in D
  BY Kinds DEF Plain
<1>. QED  BY <1>1, AskOne

LEMMA AssessAsks == Asking(<<{Assess}>>, Asks)
<1>1. Assess.do \in Asks
  BY Kinds DEF Asks
<1>. QED  BY <1>1, AskOne

LEMMA TableShown == ASSUME NEW t, t # RunRows, NEW D PROVE Reading(<<{Select(t)}>>, D)
<1>1. \A c \in {Select(t)} : IsSelect(c) /\ c.tables # {RunRows}
  BY SelectOf
<1>. QED  BY <1>1, SelectOne

LEMMA LedgerRead == Reading(buildPortfolioSummary, Plain) /\ Reading(getPortfolio \o listPortfolioTransactions, Plain)
<1>1. Reading(getPortfolio, Plain) /\ Reading(<<{Quote}>>, Plain)
  BY LookupAsks, AskRead, AskKinds DEF getPortfolio
<1>2. Reading(listPortfolioTransactions, Plain)
  <2>1. Reading(<<{Select("portfolio_transactions")}>>, Plain)
    BY TableShown DEF RunRows
  <2>2. listPortfolioTransactions = <<{Select("portfolio_transactions")}>> \o <<{Select("portfolio_transactions")}>>
    BY TwoSteps DEF listPortfolioTransactions
  <2>. QED  BY <2>1, <2>2, ReadRead
<1>. QED  BY <1>1, <1>2, ReadRead DEF buildPortfolioSummary

LEMMA PolicyRead == ASSUME NEW D PROVE Reading(getPortfolioAllocationPolicy, D)
<1>1. Reading(<<{Select("portfolio_allocation_policies")}>>, D) /\ Reading(<<{Select("portfolio_allocation_targets")}>>, D)
  BY TableShown DEF RunRows
<1>2. getPortfolioAllocationPolicy
        = <<{Select("portfolio_allocation_policies")}>> \o <<{Select("portfolio_allocation_targets")}>>
  BY TwoSteps DEF getPortfolioAllocationPolicy
<1>. QED  BY <1>1, <1>2, ReadRead

LEMMA WatchlistSound == ASSUME route = "watchlist", NEW op \in DOMAIN watchlist PROVE Sound(op, watchlist[op])
<1>1. CASE op = "GET"
  <2>1. watchlist[op] = getWatchlist /\ ~ requireIdempotencyKey(op)
    BY <1>1 DEF watchlist, requireIdempotencyKey, KeyedOperations
  <2>2. Reading(getWatchlist, Plain)
    BY TableShown DEF getWatchlist, RunRows
  <2>. QED  BY <2>1, <2>2 DEF Sound
<1>2. CASE op = "PUT"
  <2>1. watchlist[op] = saveWatchlist /\ ~ requireIdempotencyKey(op)
    BY <1>2 DEF watchlist, requireIdempotencyKey, KeyedOperations
  <2>. DEFINE w == Write("watchlists", "changed")
  <2>2. KeylessWrite(w) /\ ~ Inserts(w) /\ w.do \in Written
    BY KeylessWrites, OtherTables
  <2>. HIDE DEF w
  <2>3. Writing(saveWatchlist, w, Plain)
    BY <2>2, WriteOne DEF saveWatchlist, w
  <2>. QED  BY <2>1, <2>2, <2>3 DEF Sound
<1>. QED  BY <1>1, <1>2 DEF watchlist

LEMMA PushSound == ASSUME route = "push", NEW op \in DOMAIN push PROVE Sound(op, push[op])
<1>1. CASE op = "POST"
  <2>1. push[op] = savePushSubscription /\ ~ requireIdempotencyKey(op)
    BY <1>1 DEF push, requireIdempotencyKey, KeyedOperations
  <2>. DEFINE w == Quietly({"push_subscriptions"}, "changed")
  <2>2. KeylessWrite(w) /\ ~ Inserts(w) /\ w.do \in Written
    BY KeylessCalls
  <2>. HIDE DEF w
  <2>3. Writing(savePushSubscription, w, Plain)
    BY <2>2, WriteOne DEF savePushSubscription, w
  <2>. QED  BY <2>1, <2>2, <2>3 DEF Sound
<1>2. CASE op = "DELETE"
  <2>1. push[op] = deletePushSubscription /\ ~ requireIdempotencyKey(op)
    BY <1>2 DEF push, requireIdempotencyKey, KeyedOperations
  <2>. DEFINE w == Quietly({"push_subscriptions"}, "changed")
  <2>2. KeylessWrite(w) /\ ~ Inserts(w) /\ w.do \in Written
    BY KeylessCalls
  <2>. HIDE DEF w
  <2>3. Writing(deletePushSubscription, w, Plain)
    BY <2>2, WriteOne DEF deletePushSubscription, w
  <2>. QED  BY <2>1, <2>2, <2>3 DEF Sound
<1>. QED  BY <1>1, <1>2 DEF push

LEMMA AlertsSound == ASSUME route = "alerts", NEW op \in DOMAIN alerts PROVE Sound(op, alerts[op])
<1>1. CASE op = "GET"
  <2>1. alerts[op] = listAlerts /\ ~ requireIdempotencyKey(op)
    BY <1>1 DEF alerts, requireIdempotencyKey, KeyedOperations
  <2>2. Reading(listAlerts, Plain)
    <3>1. \A c \in {Select("price_alerts"), Select("alert_deliveries")} : IsSelect(c) /\ c.tables # {RunRows}
      BY SelectOf DEF RunRows
    <3>. QED  BY <3>1, SelectOne DEF listAlerts
  <2>. QED  BY <2>1, <2>2 DEF Sound
<1>2. CASE op = "POST"
  <2>1. alerts[op] = countActiveAlerts \o <<{Quote}>> \o createAlert /\ ~ requireIdempotencyKey(op)
    BY <1>2 DEF alerts, requireIdempotencyKey, KeyedOperations
  <2>. DEFINE w == Write("price_alerts", "added")
              a == countActiveAlerts \o <<{Quote}>>
  <2>2. KeylessWrite(w) /\ w.do \in Written
    BY KeylessWrites, OtherTables
  <2>3. Asking(a, Plain) /\ IsProgram(countActiveAlerts) /\ IsProgram(<<{Quote}>>)
    BY LookupAsks, AskAsk DEF countActiveAlerts, Asking
  <2>4. Writing(createAlert, w, Plain)
    BY <2>2, WriteOne DEF createAlert
  <2>5. CountBelow("price_alerts") \in CallsOf(a)
    <3>1. CallsOf(countActiveAlerts) = {CountBelow("price_alerts")}
      BY OneStep DEF countActiveAlerts
    <3>. QED  BY <2>3, <3>1, JoinedCalls
  <2>. HIDE DEF w, a
  <2>6. Writing(a \o createAlert, w, Plain)
    BY <2>3, <2>4, AskWrite, AskKinds
  <2>7. CountBelow("price_alerts") \in CallsOf(a \o createAlert)
    BY <2>3, <2>4, <2>5, JoinedCalls DEF Asking, Writing
  <2>. QED  BY <2>1, <2>2, <2>6, <2>7 DEF Sound, a
<1>3. CASE op = "PATCH"
  <2>1. alerts[op] = markAlertsSeen /\ ~ requireIdempotencyKey(op)
    BY <1>3 DEF alerts, requireIdempotencyKey, KeyedOperations
  <2>. DEFINE w == Quietly({"price_alerts"}, "changed")
  <2>2. KeylessWrite(w) /\ ~ Inserts(w) /\ w.do \in Written
    BY KeylessCalls
  <2>. HIDE DEF w
  <2>3. Writing(markAlertsSeen, w, Plain)
    BY <2>2, WriteOne DEF markAlertsSeen, w
  <2>. QED  BY <2>1, <2>2, <2>3 DEF Sound
<1>4. CASE op = "DELETE"
  <2>1. alerts[op] = deleteAlert /\ ~ requireIdempotencyKey(op)
    BY <1>4 DEF alerts, requireIdempotencyKey, KeyedOperations
  <2>. DEFINE w == Quietly({"price_alerts"}, "removed")
  <2>2. KeylessWrite(w) /\ ~ Inserts(w) /\ w.do \in Written
    BY KeylessCalls
  <2>. HIDE DEF w
  <2>3. Writing(deleteAlert, w, Plain)
    BY <2>2, WriteOne DEF deleteAlert, w
  <2>. QED  BY <2>1, <2>2, <2>3 DEF Sound
<1>. QED  BY <1>1, <1>2, <1>3, <1>4 DEF alerts

LEMMA PortfoliosSound == ASSUME route = "portfolios", NEW op \in DOMAIN portfolios PROVE Sound(op, portfolios[op])
<1>1. CASE op = "GET"
  <2>1. portfolios[op] = listPortfolios /\ ~ requireIdempotencyKey(op)
    BY <1>1 DEF portfolios, requireIdempotencyKey, KeyedOperations
  <2>2. Reading(listPortfolios, Plain)
    BY TableShown DEF listPortfolios, RunRows
  <2>. QED  BY <2>1, <2>2 DEF Sound
<1>2. CASE op = "POST"
  <2>1. portfolios[op] = countActivePortfolios \o createPortfolio /\ ~ requireIdempotencyKey(op)
    BY <1>2 DEF portfolios, requireIdempotencyKey, KeyedOperations
  <2>. DEFINE w == Write("portfolios", "added")
  <2>2. KeylessWrite(w) /\ ~ Inserts(w) /\ w.do \in Written
    BY KeylessWrites, OtherTables
  <2>. HIDE DEF w
  <2>3. Writing(countActivePortfolios \o createPortfolio, w, Plain)
    <3>1. Asking(countActivePortfolios, Plain)
      BY LookupAsks DEF countActivePortfolios
    <3>2. Writing(createPortfolio, w, Plain)
      BY <2>2, WriteOne DEF createPortfolio, w
    <3>. QED  BY <3>1, <3>2, AskWrite, AskKinds
  <2>. QED  BY <2>1, <2>2, <2>3 DEF Sound
<1>3. CASE op = "PATCH"
  <2>1. portfolios[op] = updatePortfolio("changed") /\ ~ requireIdempotencyKey(op)
    BY <1>3 DEF portfolios, requireIdempotencyKey, KeyedOperations
  <2>. DEFINE w == Write("portfolios", "changed")
  <2>2. KeylessWrite(w) /\ ~ Inserts(w) /\ w.do \in Written
    BY KeylessWrites, OtherTables
  <2>. HIDE DEF w
  <2>3. Writing(updatePortfolio("changed"), w, Plain)
    BY <2>2, WriteOne DEF updatePortfolio, w
  <2>. QED  BY <2>1, <2>2, <2>3 DEF Sound
<1>4. CASE op = "archive"
  <2>1. portfolios[op] = updatePortfolio("removed") /\ ~ requireIdempotencyKey(op)
    BY <1>4 DEF portfolios, requireIdempotencyKey, KeyedOperations
  <2>. DEFINE w == Write("portfolios", "removed")
  <2>2. KeylessWrite(w) /\ ~ Inserts(w) /\ w.do \in Written
    BY KeylessWrites, OtherTables
  <2>. HIDE DEF w
  <2>3. Writing(updatePortfolio("removed"), w, Plain)
    BY <2>2, WriteOne DEF updatePortfolio, w
  <2>. QED  BY <2>1, <2>2, <2>3 DEF Sound
<1>5. CASE op = "restore"
  <2>1. portfolios[op] = updatePortfolio("restored") /\ ~ requireIdempotencyKey(op)
    BY <1>5 DEF portfolios, requireIdempotencyKey, KeyedOperations
  <2>. DEFINE w == Write("portfolios", "restored")
  <2>2. KeylessWrite(w) /\ ~ Inserts(w) /\ w.do \in Written
    BY KeylessWrites, OtherTables
  <2>. HIDE DEF w
  <2>3. Writing(updatePortfolio("restored"), w, Plain)
    BY <2>2, WriteOne DEF updatePortfolio, w
  <2>. QED  BY <2>1, <2>2, <2>3 DEF Sound
<1>. QED  BY <1>1, <1>2, <1>3, <1>4, <1>5 DEF portfolios

LEMMA TransactionsSound == ASSUME route = "transactions", NEW op \in DOMAIN transactions PROVE Sound(op, transactions[op])
<1>1. CASE op = "GET"
  <2>1. transactions[op] = getPortfolio \o listPortfolioTransactions /\ ~ requireIdempotencyKey(op)
    BY <1>1 DEF transactions, requireIdempotencyKey, KeyedOperations
  <2>2. Reading(getPortfolio \o listPortfolioTransactions, Plain)
    BY LedgerRead
  <2>. QED  BY <2>1, <2>2 DEF Sound
<1>2. CASE op = "append"
  <2>1. transactions[op] = appendPortfolioTransaction /\ requireIdempotencyKey(op)
    BY <1>2 DEF transactions, requireIdempotencyKey, KeyedOperations
  <2>. DEFINE w == Entry("appended")
  <2>2. KeyedWrite(w, Expected(op)) /\ w.do \in Written
    BY <1>2, KeyedKinds DEF KeyedWrite, Expected, Written
  <2>. HIDE DEF w
  <2>3. Writing(appendPortfolioTransaction, w, Asks)
    BY <2>2, WriteOne DEF appendPortfolioTransaction, w
  <2>. QED  BY <2>1, <2>2, <2>3 DEF Sound
<1>3. CASE op = "reverse"
  <2>1. transactions[op] = reversePortfolioTransaction /\ requireIdempotencyKey(op)
    BY <1>3 DEF transactions, requireIdempotencyKey, KeyedOperations
  <2>. DEFINE w == Entry("reversed")
  <2>2. KeyedWrite(w, Expected(op)) /\ w.do \in Written
    BY <1>3, KeyedKinds DEF KeyedWrite, Expected, Written
  <2>. HIDE DEF w
  <2>3. Writing(reversePortfolioTransaction, w, Asks)
    BY <2>2, WriteOne DEF reversePortfolioTransaction, w
  <2>. QED  BY <2>1, <2>2, <2>3 DEF Sound
<1>. QED  BY <1>1, <1>2, <1>3 DEF transactions

LEMMA SummarySound == ASSUME route = "summary", NEW op \in DOMAIN summary PROVE Sound(op, summary[op])
<1>1. CASE op = "GET"
  <2>1. summary[op] = buildPortfolioSummary /\ ~ requireIdempotencyKey(op)
    BY <1>1 DEF summary, requireIdempotencyKey, KeyedOperations
  <2>2. Reading(buildPortfolioSummary, Plain)
    BY LedgerRead
  <2>. QED  BY <2>1, <2>2 DEF Sound
<1>. QED  BY <1>1 DEF summary

LEMMA ScenarioSound == ASSUME route = "scenario", NEW op \in DOMAIN scenario PROVE Sound(op, scenario[op])
<1>1. CASE op = "POST"
  <2>1. scenario[op] = buildPortfolioSummary /\ ~ requireIdempotencyKey(op)
    BY <1>1 DEF scenario, requireIdempotencyKey, KeyedOperations
  <2>2. Reading(buildPortfolioSummary, Plain)
    BY LedgerRead
  <2>. QED  BY <2>1, <2>2 DEF Sound
<1>. QED  BY <1>1 DEF scenario

LEMMA SnapshotsSound == ASSUME route = "snapshots", NEW op \in DOMAIN snapshots PROVE Sound(op, snapshots[op])
<1>1. CASE op = "GET"
  <2>1. snapshots[op] = getPortfolio \o listPortfolioSnapshots /\ ~ requireIdempotencyKey(op)
    BY <1>1 DEF snapshots, requireIdempotencyKey, KeyedOperations
  <2>2. Reading(getPortfolio \o listPortfolioSnapshots, Plain)
    <3>1. Reading(getPortfolio, Plain)
      BY LookupAsks, AskRead, AskKinds DEF getPortfolio
    <3>2. Reading(listPortfolioSnapshots, Plain)
      BY TableShown DEF listPortfolioSnapshots, RunRows
    <3>. QED  BY <3>1, <3>2, ReadRead
  <2>. QED  BY <2>1, <2>2 DEF Sound
<1>. QED  BY <1>1 DEF snapshots

LEMMA MonitorStatusSound == ASSUME route = "monitorStatus", NEW op \in DOMAIN monitorStatus PROVE Sound(op, monitorStatus[op])
<1>1. CASE op = "GET"
  <2>1. monitorStatus[op] = <<{Select("portfolio_monitor_rules")}, {Select("portfolio_monitor_breaches")}>> /\ ~ requireIdempotencyKey(op)
    BY <1>1 DEF monitorStatus, requireIdempotencyKey, KeyedOperations
  <2>2. Reading(<<{Select("portfolio_monitor_rules")}, {Select("portfolio_monitor_breaches")}>>, Plain)
    <3>1. Reading(<<{Select("portfolio_monitor_rules")}>>, Plain) /\ Reading(<<{Select("portfolio_monitor_breaches")}>>, Plain)
      BY TableShown DEF RunRows
    <3>2. <<{Select("portfolio_monitor_rules")}, {Select("portfolio_monitor_breaches")}>>
            = <<{Select("portfolio_monitor_rules")}>> \o <<{Select("portfolio_monitor_breaches")}>>
      BY TwoSteps
    <3>. QED  BY <3>1, <3>2, ReadRead
  <2>. QED  BY <2>1, <2>2 DEF Sound
<1>. QED  BY <1>1 DEF monitorStatus

LEMMA AllocationSound == ASSUME route = "allocation", NEW op \in DOMAIN allocation PROVE Sound(op, allocation[op])
<1>1. CASE op = "GET"
  <2>1. allocation[op] = getPortfolioAllocationPolicy /\ ~ requireIdempotencyKey(op)
    BY <1>1 DEF allocation, requireIdempotencyKey, KeyedOperations
  <2>2. Reading(getPortfolioAllocationPolicy, Plain)
    BY PolicyRead
  <2>. QED  BY <2>1, <2>2 DEF Sound
<1>2. CASE op = "PUT"
  <2>1. allocation[op] = replacePortfolioAllocationPolicy /\ ~ requireIdempotencyKey(op)
    BY <1>2 DEF allocation, requireIdempotencyKey, KeyedOperations
  <2>. DEFINE w == Quietly({"portfolio_allocation_policies", "portfolio_allocation_targets"}, "changed")
  <2>2. KeylessWrite(w) /\ ~ Inserts(w) /\ w.do \in Written
    BY KeylessCalls
  <2>. HIDE DEF w
  <2>3. Writing(replacePortfolioAllocationPolicy, w, Plain)
    BY <2>2, WriteRead, PolicyRead DEF replacePortfolioAllocationPolicy, w
  <2>. QED  BY <2>1, <2>2, <2>3 DEF Sound
<1>. QED  BY <1>1, <1>2 DEF allocation

LEMMA SummaryShows == \A c \in CallsOf(buildPortfolioSummary) : IsSelect(c) => c.tables = {"portfolio_transactions"}
<1>. DEFINE l == listPortfolioTransactions
            x == <<{Select("portfolio_transactions")}>>
<1>1. Asking(getPortfolio, Plain) /\ Asking(<<{Quote}>>, Plain)
  BY LookupAsks DEF getPortfolio
<1>2. l = x \o x /\ IsProgram(x) /\ CallsOf(x) = {Select("portfolio_transactions")}
  BY TwoSteps, OneStep DEF listPortfolioTransactions
<1>. HIDE DEF x, l
<1>3. IsProgram(l) /\ CallsOf(l) = {Select("portfolio_transactions")}
  BY <1>2, Joined, JoinedCalls
<1>4. CallsOf(getPortfolio \o l \o <<{Quote}>>) = CallsOf(getPortfolio) \cup CallsOf(l) \cup CallsOf(<<{Quote}>>)
  BY <1>1, <1>3, Joined, JoinedCalls DEF Asking
<1>5. \A c \in CallsOf(getPortfolio) \cup CallsOf(<<{Quote}>>) : ~ IsSelect(c)
  BY <1>1, AskKinds, SelectKind DEF Asking
<1>. QED  BY <1>3, <1>4, <1>5, SelectOf DEF buildPortfolioSummary, l

LEMMA GoalSound == ASSUME route = "goal", NEW op \in DOMAIN goal PROVE Sound(op, goal[op])
<1>1. CASE op = "GET"
  <2>1. goal[op] = getPortfolioGoal \o buildPortfolioSummary /\ ~ requireIdempotencyKey(op)
    BY <1>1 DEF goal, requireIdempotencyKey, KeyedOperations
  <2>2. Reading(getPortfolioGoal \o buildPortfolioSummary, Plain)
    <3>1. Reading(getPortfolioGoal, Plain)
      BY TableShown DEF getPortfolioGoal, RunRows
    <3>. QED  BY <3>1, LedgerRead, ReadRead
  <2>. QED  BY <2>1, <2>2 DEF Sound
<1>2. CASE op = "PUT"
  <2>1. goal[op] = savePortfolioGoal /\ ~ requireIdempotencyKey(op)
    BY <1>2 DEF goal, requireIdempotencyKey, KeyedOperations
  <2>. DEFINE w == Versioned({"portfolio_goals"}, "changed")
  <2>2. KeylessWrite(w) /\ ~ Inserts(w) /\ w.do \in Written
    BY KeylessCalls
  <2>. HIDE DEF w
  <2>3. Writing(savePortfolioGoal, w, Plain)
    <3>1. Reading(<<{Select("portfolio_goals")}>>, {})
      BY TableShown DEF RunRows
    <3>2. savePortfolioGoal = <<{w}>> \o <<{Select("portfolio_goals")}>>
      BY TwoSteps DEF savePortfolioGoal, w
    <3>. QED  BY <2>2, <3>1, <3>2, WriteRead
  <2>. QED  BY <2>1, <2>2, <2>3 DEF Sound
<1>3. CASE op = "PATCH"
  <2>1. goal[op] = transitionPortfolioGoal /\ ~ requireIdempotencyKey(op)
    BY <1>3 DEF goal, requireIdempotencyKey, KeyedOperations
  <2>. DEFINE w == Versioned({"portfolio_goals"}, "changed")
  <2>2. KeylessWrite(w) /\ ~ Inserts(w) /\ w.do \in Written
    BY KeylessCalls
  <2>. HIDE DEF w
  <2>3. Writing(transitionPortfolioGoal, w, Plain)
    <3>1. Reading(<<{Select("portfolio_goals")}>>, {})
      BY TableShown DEF RunRows
    <3>2. transitionPortfolioGoal = <<{w}>> \o <<{Select("portfolio_goals")}>>
      BY TwoSteps DEF transitionPortfolioGoal, w
    <3>. QED  BY <2>2, <3>1, <3>2, WriteRead
  <2>. QED  BY <2>1, <2>2, <2>3 DEF Sound
<1>4. CASE op = "complete"
  <2>1. goal[op] = getPortfolioGoalById \o buildPortfolioSummary \o transitionPortfolioGoal /\ ~ requireIdempotencyKey(op)
    BY <1>4 DEF goal, requireIdempotencyKey, KeyedOperations
  <2>. DEFINE w == Versioned({"portfolio_goals"}, "changed")
  <2>2. KeylessWrite(w) /\ ~ Inserts(w) /\ w.do \in Written
    BY KeylessCalls
  <2>. HIDE DEF w
  <2>3. Writing(getPortfolioGoalById \o buildPortfolioSummary \o transitionPortfolioGoal, w, Plain)
    <3>. DEFINE s == getPortfolioGoalById \o buildPortfolioSummary
    <3>1. Reading(<<{Select("portfolio_goals")}>>, {})
      BY TableShown DEF RunRows
    <3>2. transitionPortfolioGoal = <<{w}>> \o <<{Select("portfolio_goals")}>>
      BY TwoSteps DEF transitionPortfolioGoal, w
    <3>3. Writing(transitionPortfolioGoal, w, Plain)
      BY <2>2, <3>1, <3>2, WriteRead
    <3>4. Asking(getPortfolioGoalById, Plain) /\ Reading(getPortfolioGoalById, Plain)
      BY LookupAsks, AskRead, AskKinds DEF getPortfolioGoalById
    <3>5. Reading(s, Plain)
      BY <3>4, LedgerRead, ReadRead
    <3>6. \A c \in CallsOf(s) : IsSelect(c) => c.tables = {"portfolio_transactions"}
      <4>1. CallsOf(s) = CallsOf(getPortfolioGoalById) \cup CallsOf(buildPortfolioSummary)
        BY <3>4, LedgerRead, JoinedCalls DEF Reading
      <4>2. \A c \in CallsOf(getPortfolioGoalById) : ~ IsSelect(c)
        BY <3>4, AskKinds, SelectKind DEF Asking
      <4>. QED  BY <4>1, <4>2, SummaryShows
    <3>7. w.tables = {"portfolio_goals"} /\ w.do = "versioned"
      BY OtherKinds DEF w
    <3>. HIDE DEF s
    <3>8. Writing(s \o transitionPortfolioGoal, w, Plain)
      BY <3>3, <3>5, <3>6, <3>7, ReadWrite, AskKinds
    <3>. QED  BY <3>8 DEF s
  <2>. QED  BY <2>1, <2>2, <2>3 DEF Sound
<1>. QED  BY <1>1, <1>2, <1>3, <1>4 DEF goal

LEMMA ResearchSound == ASSUME route = "research", NEW op \in DOMAIN research PROVE Sound(op, research[op])
<1>1. CASE op = "GET"
  <2>1. research[op] = listInvestmentTheses /\ ~ requireIdempotencyKey(op)
    BY <1>1 DEF research, requireIdempotencyKey, KeyedOperations
  <2>2. Reading(listInvestmentTheses, Plain)
    BY TableShown DEF listInvestmentTheses, RunRows
  <2>. QED  BY <2>1, <2>2 DEF Sound
<1>2. CASE op = "POST"
  <2>1. research[op] = getPortfolio \o createInvestmentThesis /\ ~ requireIdempotencyKey(op)
    BY <1>2 DEF research, requireIdempotencyKey, KeyedOperations
  <2>. DEFINE w == Write("investment_theses", "added")
  <2>2. KeylessWrite(w) /\ ~ Inserts(w) /\ w.do \in Written
    BY KeylessWrites, OtherTables
  <2>. HIDE DEF w
  <2>3. Writing(getPortfolio \o createInvestmentThesis, w, Plain)
    <3>1. Asking(getPortfolio, Plain)
      BY LookupAsks DEF getPortfolio
    <3>2. Writing(createInvestmentThesis, w, Plain)
      BY <2>2, WriteOne DEF createInvestmentThesis, w
    <3>. QED  BY <3>1, <3>2, AskWrite, AskKinds
  <2>. QED  BY <2>1, <2>2, <2>3 DEF Sound
<1>3. CASE op = "PATCH"
  <2>1. research[op] = getPortfolio \o updateInvestmentThesis /\ ~ requireIdempotencyKey(op)
    BY <1>3 DEF research, requireIdempotencyKey, KeyedOperations
  <2>. DEFINE w == Write("investment_theses", "changed")
  <2>2. KeylessWrite(w) /\ ~ Inserts(w) /\ w.do \in Written
    BY KeylessWrites, OtherTables
  <2>. HIDE DEF w
  <2>3. Writing(getPortfolio \o updateInvestmentThesis, w, Plain)
    <3>1. Asking(getPortfolio, Plain)
      BY LookupAsks DEF getPortfolio
    <3>2. Writing(updateInvestmentThesis, w, Plain)
      BY <2>2, WriteOne DEF updateInvestmentThesis, w
    <3>. QED  BY <3>1, <3>2, AskWrite, AskKinds
  <2>. QED  BY <2>1, <2>2, <2>3 DEF Sound
<1>4. CASE op = "DELETE"
  <2>1. research[op] = archiveInvestmentThesis /\ ~ requireIdempotencyKey(op)
    BY <1>4 DEF research, requireIdempotencyKey, KeyedOperations
  <2>. DEFINE w == Quietly({"investment_theses"}, "changed")
  <2>2. KeylessWrite(w) /\ ~ Inserts(w) /\ w.do \in Written
    BY KeylessCalls
  <2>. HIDE DEF w
  <2>3. Writing(archiveInvestmentThesis, w, Plain)
    BY <2>2, WriteOne DEF archiveInvestmentThesis, w
  <2>. QED  BY <2>1, <2>2, <2>3 DEF Sound
<1>. QED  BY <1>1, <1>2, <1>3, <1>4 DEF research

LEMMA RebalancesSound == ASSUME route = "rebalances", NEW op \in DOMAIN rebalances PROVE Sound(op, rebalances[op])
<1>1. CASE op = "GET"
  <2>1. rebalances[op] = listPortfolioRebalanceRuns /\ ~ requireIdempotencyKey(op)
    BY <1>1 DEF rebalances, requireIdempotencyKey, KeyedOperations
  <2>2. Reading(listPortfolioRebalanceRuns, Plain)
    BY RunsRead DEF listPortfolioRebalanceRuns
  <2>. QED  BY <2>1, <2>2 DEF Sound
<1>2. CASE op = "generate"
  <2>1. rebalances[op] = findRebalanceIdempotency \o <<{Quote}>> \o createPortfolioRebalanceRun /\ requireIdempotencyKey(op)
    BY <1>2 DEF rebalances, requireIdempotencyKey, KeyedOperations
  <2>. DEFINE w == Keyed({RunRows, ItemRows, EventRows}, "created")
  <2>2. KeyedWrite(w, Expected(op)) /\ w.do \in Written
    BY <1>2, KeyedKinds DEF KeyedWrite, Expected, Written
  <2>. HIDE DEF w
  <2>3. Writing(findRebalanceIdempotency \o <<{Quote}>> \o createPortfolioRebalanceRun, w, Asks)
    <3>1. Asking(findRebalanceIdempotency \o <<{Quote}>>, Asks)
      BY LookupAsks, AssessAsks, AskAsk, AskKinds, TwoSteps DEF findRebalanceIdempotency
    <3>2. Writing(createPortfolioRebalanceRun, w, Asks)
      BY <2>2, WriteRead, RunsRead DEF createPortfolioRebalanceRun, getPortfolioRebalanceRun, w
    <3>. QED  BY <3>1, <3>2, AskWrite, AskKinds
  <2>. QED  BY <2>1, <2>2, <2>3 DEF Sound
<1>3. CASE op = "approve"
  <2>1. rebalances[op] = <<{Find(RunRows)}>> \o findRebalanceIdempotency \o <<{Assess}>> \o transitionPortfolioRebalanceRun("approved") /\ requireIdempotencyKey(op)
    BY <1>3 DEF rebalances, requireIdempotencyKey, KeyedOperations
  <2>. DEFINE w == Keyed({RunRows, EventRows}, "approved")
  <2>2. KeyedWrite(w, Expected(op)) /\ w.do \in Written
    BY <1>3, KeyedKinds DEF KeyedWrite, Expected, Written
  <2>. HIDE DEF w
  <2>3. Writing(<<{Find(RunRows)}>> \o findRebalanceIdempotency \o <<{Assess}>> \o transitionPortfolioRebalanceRun("approved"), w, Asks)
    <3>1. Asking(<<{Find(RunRows)}>> \o findRebalanceIdempotency \o <<{Assess}>>, Asks)
      BY LookupAsks, AssessAsks, AskAsk, AskKinds, TwoSteps DEF findRebalanceIdempotency
    <3>2. Writing(transitionPortfolioRebalanceRun("approved"), w, Asks)
      BY <2>2, WriteRead, RunsRead DEF transitionPortfolioRebalanceRun, getPortfolioRebalanceRun, w
    <3>. QED  BY <3>1, <3>2, AskWrite, AskKinds
  <2>. QED  BY <2>1, <2>2, <2>3 DEF Sound
<1>4. CASE op = "reject"
  <2>1. rebalances[op] = findRebalanceIdempotency \o transitionPortfolioRebalanceRun("rejected") /\ requireIdempotencyKey(op)
    BY <1>4 DEF rebalances, requireIdempotencyKey, KeyedOperations
  <2>. DEFINE w == Keyed({RunRows, EventRows}, "rejected")
  <2>2. KeyedWrite(w, Expected(op)) /\ w.do \in Written
    BY <1>4, KeyedKinds DEF KeyedWrite, Expected, Written
  <2>. HIDE DEF w
  <2>3. Writing(findRebalanceIdempotency \o transitionPortfolioRebalanceRun("rejected"), w, Asks)
    <3>1. Asking(findRebalanceIdempotency, Asks)
      BY LookupAsks, AssessAsks, AskAsk, AskKinds, TwoSteps DEF findRebalanceIdempotency
    <3>2. Writing(transitionPortfolioRebalanceRun("rejected"), w, Asks)
      BY <2>2, WriteRead, RunsRead DEF transitionPortfolioRebalanceRun, getPortfolioRebalanceRun, w
    <3>. QED  BY <3>1, <3>2, AskWrite, AskKinds
  <2>. QED  BY <2>1, <2>2, <2>3 DEF Sound
<1>5. CASE op = "complete"
  <2>1. rebalances[op] = <<{Find(RunRows)}>> \o findRebalanceIdempotency \o <<{Assess}>> \o completePortfolioRebalanceRun /\ requireIdempotencyKey(op)
    BY <1>5 DEF rebalances, requireIdempotencyKey, KeyedOperations
  <2>. DEFINE w == Keyed({RunRows, FillRows, EventRows, "portfolio_transactions"}, "completed")
  <2>2. KeyedWrite(w, Expected(op)) /\ w.do \in Written
    BY <1>5, KeyedKinds DEF KeyedWrite, Expected, Written
  <2>. HIDE DEF w
  <2>3. Writing(<<{Find(RunRows)}>> \o findRebalanceIdempotency \o <<{Assess}>> \o completePortfolioRebalanceRun, w, Asks)
    <3>1. Asking(<<{Find(RunRows)}>> \o findRebalanceIdempotency \o <<{Assess}>>, Asks)
      BY LookupAsks, AssessAsks, AskAsk, AskKinds, TwoSteps DEF findRebalanceIdempotency
    <3>2. Writing(completePortfolioRebalanceRun, w, Asks)
      BY <2>2, WriteRead, RunsRead DEF completePortfolioRebalanceRun, getPortfolioRebalanceRun, w
    <3>. QED  BY <3>1, <3>2, AskWrite, AskKinds
  <2>. QED  BY <2>1, <2>2, <2>3 DEF Sound
<1>. QED  BY <1>1, <1>2, <1>3, <1>4, <1>5 DEF rebalances

LEMMA ContributionsSound == ASSUME route = "contributions", NEW op \in DOMAIN contributions PROVE Sound(op, contributions[op])
<1>1. CASE op = "GET"
  <2>1. contributions[op] = listPortfolioContributionRuns /\ ~ requireIdempotencyKey(op)
    BY <1>1 DEF contributions, requireIdempotencyKey, KeyedOperations
  <2>2. Reading(listPortfolioContributionRuns, Plain)
    BY RunsRead DEF listPortfolioContributionRuns
  <2>. QED  BY <2>1, <2>2 DEF Sound
<1>2. CASE op = "generate"
  <2>1. contributions[op] = getPortfolioGoalById \o findContributionIdempotency \o <<{Quote}>> \o createPortfolioContributionRun /\ requireIdempotencyKey(op)
    BY <1>2 DEF contributions, requireIdempotencyKey, KeyedOperations
  <2>. DEFINE w == Keyed({RunRows, ItemRows, EventRows}, "created")
  <2>2. KeyedWrite(w, Expected(op)) /\ w.do \in Written
    BY <1>2, KeyedKinds DEF KeyedWrite, Expected, Written
  <2>. HIDE DEF w
  <2>3. Writing(getPortfolioGoalById \o findContributionIdempotency \o <<{Quote}>> \o createPortfolioContributionRun, w, Asks)
    <3>1. Asking(getPortfolioGoalById \o findContributionIdempotency \o <<{Quote}>>, Asks)
      BY LookupAsks, AssessAsks, AskAsk, AskKinds, TwoSteps DEF findContributionIdempotency, getPortfolioGoalById
    <3>2. Writing(createPortfolioContributionRun, w, Asks)
      BY <2>2, WriteRead, RunsRead DEF createPortfolioContributionRun, getPortfolioContributionRun, w
    <3>. QED  BY <3>1, <3>2, AskWrite, AskKinds
  <2>. QED  BY <2>1, <2>2, <2>3 DEF Sound
<1>3. CASE op = "approve"
  <2>1. contributions[op] = findContributionIdempotency \o <<{Find(RunRows)}, {Assess}>> \o transitionPortfolioContributionRun("approved") /\ requireIdempotencyKey(op)
    BY <1>3 DEF contributions, requireIdempotencyKey, KeyedOperations
  <2>. DEFINE w == Keyed({RunRows, EventRows}, "approved")
  <2>2. KeyedWrite(w, Expected(op)) /\ w.do \in Written
    BY <1>3, KeyedKinds DEF KeyedWrite, Expected, Written
  <2>. HIDE DEF w
  <2>3. Writing(findContributionIdempotency \o <<{Find(RunRows)}, {Assess}>> \o transitionPortfolioContributionRun("approved"), w, Asks)
    <3>1. Asking(findContributionIdempotency \o <<{Find(RunRows)}, {Assess}>>, Asks)
      BY LookupAsks, AssessAsks, AskAsk, AskKinds, TwoSteps DEF findContributionIdempotency
    <3>2. Writing(transitionPortfolioContributionRun("approved"), w, Asks)
      BY <2>2, WriteRead, RunsRead DEF transitionPortfolioContributionRun, getPortfolioContributionRun, w
    <3>. QED  BY <3>1, <3>2, AskWrite, AskKinds
  <2>. QED  BY <2>1, <2>2, <2>3 DEF Sound
<1>4. CASE op = "reject"
  <2>1. contributions[op] = findContributionIdempotency \o transitionPortfolioContributionRun("rejected") /\ requireIdempotencyKey(op)
    BY <1>4 DEF contributions, requireIdempotencyKey, KeyedOperations
  <2>. DEFINE w == Keyed({RunRows, EventRows}, "rejected")
  <2>2. KeyedWrite(w, Expected(op)) /\ w.do \in Written
    BY <1>4, KeyedKinds DEF KeyedWrite, Expected, Written
  <2>. HIDE DEF w
  <2>3. Writing(findContributionIdempotency \o transitionPortfolioContributionRun("rejected"), w, Asks)
    <3>1. Asking(findContributionIdempotency, Asks)
      BY LookupAsks, AssessAsks, AskAsk, AskKinds, TwoSteps DEF findContributionIdempotency
    <3>2. Writing(transitionPortfolioContributionRun("rejected"), w, Asks)
      BY <2>2, WriteRead, RunsRead DEF transitionPortfolioContributionRun, getPortfolioContributionRun, w
    <3>. QED  BY <3>1, <3>2, AskWrite, AskKinds
  <2>. QED  BY <2>1, <2>2, <2>3 DEF Sound
<1>5. CASE op = "complete"
  <2>1. contributions[op] = findContributionIdempotency \o <<{Find(RunRows)}, {Assess}>> \o completePortfolioContributionRun /\ requireIdempotencyKey(op)
    BY <1>5 DEF contributions, requireIdempotencyKey, KeyedOperations
  <2>. DEFINE w == Keyed({RunRows, FillRows, EventRows, "portfolio_transactions"}, "completed")
  <2>2. KeyedWrite(w, Expected(op)) /\ w.do \in Written
    BY <1>5, KeyedKinds DEF KeyedWrite, Expected, Written
  <2>. HIDE DEF w
  <2>3. Writing(findContributionIdempotency \o <<{Find(RunRows)}, {Assess}>> \o completePortfolioContributionRun, w, Asks)
    <3>1. Asking(findContributionIdempotency \o <<{Find(RunRows)}, {Assess}>>, Asks)
      BY LookupAsks, AssessAsks, AskAsk, AskKinds, TwoSteps DEF findContributionIdempotency
    <3>2. Writing(completePortfolioContributionRun, w, Asks)
      BY <2>2, WriteRead, RunsRead DEF completePortfolioContributionRun, getPortfolioContributionRun, w
    <3>. QED  BY <3>1, <3>2, AskWrite, AskKinds
  <2>. QED  BY <2>1, <2>2, <2>3 DEF Sound
<1>. QED  BY <1>1, <1>2, <1>3, <1>4, <1>5 DEF contributions

LEMMA SoundAfterChecks ==
  ASSUME NEW op, NEW a, NEW s, Asking(a, Plain), Sound(op, s)
  PROVE  Sound(op, a \o s)
<1>1. Asking(a, Asks) /\ Reading(a, Plain)
  BY AskKinds, AskRead DEF Asking
<1>2. CASE ~ requireIdempotencyKey(op) /\ Reading(s, Plain)
  BY <1>1, <1>2, ReadRead DEF Sound
<1>3. ASSUME ~ requireIdempotencyKey(op), NEW w, Writing(s, w, Plain), KeylessWrite(w),
             Inserts(w) => CountBelow("price_alerts") \in CallsOf(s)
      PROVE  Sound(op, a \o s)
  <2>1. Writing(a \o s, w, Plain)
    BY <1>3, AskWrite, AskKinds
  <2>2. CallsOf(s) \subseteq CallsOf(a \o s)
    BY <1>1, <1>3, JoinedCalls DEF Reading, Writing
  <2>. QED  BY <1>3, <2>1, <2>2 DEF Sound
<1>4. ASSUME requireIdempotencyKey(op), NEW w, Writing(s, w, Asks), KeyedWrite(w, Expected(op))
      PROVE  Sound(op, a \o s)
  <2>1. Writing(a \o s, w, Asks)
    BY <1>1, <1>4, AskWrite, AskKinds
  <2>. QED  BY <1>4, <2>1 DEF Sound
<1>. QED  BY <1>2, <1>3, <1>4 DEF Sound

LEMMA HandlersSound == ASSUME route \in DOMAIN apiRoutes, NEW op \in Operations PROVE Sound(op, apiRoutes[route][op])
<1>. USE DEF apiRoutes, Operations
<1>1. CASE route = "watchlist"  BY <1>1, WatchlistSound
<1>2. CASE route = "push"  BY <1>2, PushSound
<1>3. CASE route = "alerts"  BY <1>3, AlertsSound
<1>4. CASE route = "portfolios"  BY <1>4, PortfoliosSound
<1>5. CASE route = "transactions"  BY <1>5, TransactionsSound
<1>6. CASE route = "summary"  BY <1>6, SummarySound
<1>7. CASE route = "scenario"  BY <1>7, ScenarioSound
<1>8. CASE route = "snapshots"  BY <1>8, SnapshotsSound
<1>9. CASE route = "monitorStatus"  BY <1>9, MonitorStatusSound
<1>10. CASE route = "allocation"  BY <1>10, AllocationSound
<1>11. CASE route = "goal"  BY <1>11, GoalSound
<1>12. CASE route = "research"  BY <1>12, ResearchSound
<1>13. CASE route = "rebalances"  BY <1>13, RebalancesSound
<1>14. CASE route = "contributions"  BY <1>14, ContributionsSound
<1>. QED  BY <1>1, <1>2, <1>3, <1>4, <1>5, <1>6, <1>7, <1>8, <1>9, <1>10, <1>11, <1>12, <1>13, <1>14

(* A request's program is sound: it begins with the checks.                *)
LEMMA ProgramSound == ASSUME route \in DOMAIN apiRoutes, NEW op \in Operations PROVE Sound(op, Program(op))
<1>1. \A what : Asking(<<{Check(what)}>>, Plain)
  <2>1. \A what : Check(what).do \in Plain
    BY Kinds DEF Plain
  <2>. QED  BY <2>1, AskOne
<1>2. Asking(requireUser \o enforceRateLimit \o readInput, Plain)
  BY <1>1, AskAsk DEF requireUser, enforceRateLimit, readInput
<1>. QED  BY <1>2, HandlersSound, SoundAfterChecks DEF Program

(* What is left of a program when a call of its first step is done.         *)
Rest(s, c) == IF Head(s) = {c} THEN Tail(s) ELSE <<Head(s) \ {c}>> \o Tail(s)

Remains(s, c, u) ==
  /\ IsProgram(u)
  /\ \A i \in DOMAIN u : u[i] \subseteq s[i] \/ u[i] = s[i + 1]
  /\ \/ /\ s[1] = {c}
        /\ \A i \in DOMAIN u : i + 1 \in DOMAIN s /\ u[i] = s[i + 1]
        /\ \A i \in DOMAIN s : i # 1 => i - 1 \in DOMAIN u /\ u[i - 1] = s[i]
     \/ /\ s[1] # {c} /\ DOMAIN u = DOMAIN s /\ u[1] = s[1] \ {c}
        /\ \A i \in DOMAIN s : i # 1 => u[i] = s[i]
  /\ 1 \in DOMAIN s /\ c \in s[1] /\ \A i \in DOMAIN s : i \in Nat /\ i > 0
  /\ \A i \in DOMAIN u : i \in Nat /\ i > 0

LEMMA RestRemains ==
  ASSUME NEW s, NEW c, IsProgram(s), s # <<>>, c \in Head(s)
  PROVE  Remains(s, c, Rest(s, c))
<1>1. PICK S : s \in Seq(S)
  BY DEF IsProgram
<1>2. /\ Len(s) \in Nat /\ Len(s) > 0 /\ DOMAIN s = 1..Len(s) /\ Head(s) = s[1]
      /\ Tail(s) \in Seq(S) /\ Len(Tail(s)) = Len(s) - 1 /\ DOMAIN Tail(s) = 1..(Len(s) - 1)
      /\ \A i \in 1..(Len(s) - 1) : Tail(s)[i] = s[i + 1]
  BY <1>1
<1>3. CASE Head(s) = {c}
  <2>. DEFINE u == Tail(s)
  <2>. HIDE DEF u
  <2>1. u \in Seq(S) /\ DOMAIN u = 1..(Len(s) - 1) /\ \A i \in DOMAIN u : u[i] = s[i + 1]
    BY <1>2 DEF u
  <2>2. IsProgram(u)
    BY <2>1 DEF IsProgram
  <2>3. ASSUME NEW i \in DOMAIN s, i # 1 PROVE i - 1 \in DOMAIN u /\ u[i - 1] = s[i]
    <3>1. i - 1 \in DOMAIN u /\ (i - 1) + 1 = i
      BY <1>2, <2>1, <2>3
    <3>. QED  BY <2>1, <3>1
  <2>4. \A i \in DOMAIN u : i + 1 \in DOMAIN s
    BY <1>2, <2>1
  <2>5. s[1] = {c} /\ 1 \in DOMAIN s /\ c \in s[1] /\ \A i \in DOMAIN s : i \in Nat /\ i > 0
    BY <1>2, <1>3
  <2>6. \A i \in DOMAIN u : i \in Nat /\ i > 0
    BY <1>2, <2>1
  <2>7. Remains(s, c, u)
    BY <2>1, <2>2, <2>3, <2>4, <2>5, <2>6 DEF Remains
  <2>. QED  BY <1>3, <2>7 DEF Rest, u
<1>4. CASE Head(s) # {c}
  <2>. DEFINE h == <<Head(s) \ {c}>>
              t == Tail(s)
              u == h \o t
  <2>1. IsProgram(h) /\ DOMAIN h = {1} /\ h[1] = Head(s) \ {c}
    BY OneStep
  <2>2. Len(h) = 1
    OBVIOUS
  <2>3. IsProgram(t) /\ Len(t) = Len(s) - 1 /\ DOMAIN t = 1..(Len(s) - 1)
        /\ \A i \in 1..(Len(s) - 1) : t[i] = s[i + 1]
    BY <1>2 DEF IsProgram
  <2>. HIDE DEF h, t
  <2>4. IsProgram(u) /\ Concatenated(h, t, u)
    BY <2>1, <2>3, Joined
  <2>. HIDE DEF u
  <2>5. DOMAIN u = DOMAIN s /\ u[1] = s[1] \ {c}
    BY <1>2, <2>1, <2>2, <2>3, <2>4 DEF Concatenated
  <2>6. ASSUME NEW i \in DOMAIN s, i # 1 PROVE u[i] = s[i]
    <3>1. i - 1 \in 1..(Len(s) - 1) /\ 1 + (i - 1) = i /\ (i - 1) + 1 = i
      BY <1>2, <2>6
    <3>2. u[1 + (i - 1)] = t[i - 1]
      BY <2>2, <2>3, <2>4, <3>1 DEF Concatenated
    <3>. QED  BY <2>3, <3>1, <3>2
  <2>7. Remains(s, c, u)
    BY <1>2, <1>4, <2>4, <2>5, <2>6 DEF Remains
  <2>. QED  BY <1>4, <2>7 DEF Rest, h, t, u
<1>. QED  BY <1>3, <1>4

AllShow(s) == \A c \in CallsOf(s) : IsSelect(c)
HasWrite(s) == \E c \in CallsOf(s) : c.do \in Written

LEMMA RestCalls ==
  ASSUME NEW s, NEW c, NEW u, Remains(s, c, u)
  PROVE  CallsOf(u) \subseteq CallsOf(s) /\ CallsOf(s) \subseteq CallsOf(u) \cup {c} /\ c \in CallsOf(s)
<1>1. ASSUME NEW i \in DOMAIN u, NEW d \in u[i] PROVE d \in CallsOf(s)
  <2>1. CASE s[1] = {c}
    BY <1>1, <2>1 DEF Remains, CallsOf
  <2>2. CASE s[1] # {c}
    BY <1>1, <2>2 DEF Remains, CallsOf
  <2>. QED  BY <2>1, <2>2
<1>2. ASSUME NEW i \in DOMAIN s, NEW d \in s[i], d # c PROVE d \in CallsOf(u)
  <2>1. CASE s[1] = {c}
    <3>1. i # 1
      BY <1>2, <2>1
    <3>2. i - 1 \in DOMAIN u /\ u[i - 1] = s[i]
      BY <2>1, <3>1 DEF Remains
    <3>. QED  BY <1>2, <3>2 DEF CallsOf
  <2>2. CASE s[1] # {c}
    <3>1. i \in DOMAIN u /\ d \in u[i]
      BY <1>2, <2>2 DEF Remains
    <3>. QED  BY <3>1 DEF CallsOf
  <2>. QED  BY <2>1, <2>2
<1>3. c \in CallsOf(s)
  BY DEF Remains, CallsOf
<1>. QED  BY <1>1, <1>2, <1>3 DEF CallsOf

LEMMA RestOrdered ==
  ASSUME NEW s, NEW c, NEW u, Remains(s, c, u), Ordered(s)
  PROVE  /\ Ordered(u)
         /\ \A d \in CallsOf(u) : d = c \/ Before(c, d) \/ (d.do \notin Written /\ c.do \notin Written)
         /\ c.do \in Written => AllShow(u)
<1>1. CASE s[1] = {c}
  <2>1. \A i \in DOMAIN u : i + 1 \in DOMAIN s /\ u[i] = s[i + 1] /\ 1 < i + 1
    BY <1>1 DEF Remains
  <2>2. \A i, j \in DOMAIN u : i < j => i + 1 < j + 1
    BY DEF Remains
  <2>3. Ordered(u)
    BY <2>1, <2>2 DEF Ordered
  <2>4. ASSUME NEW d \in CallsOf(u) PROVE Before(c, d)
    <3>1. PICK i \in DOMAIN u : d \in u[i]
      BY DEF CallsOf
    <3>2. 1 < i + 1 /\ 1 \in DOMAIN s /\ i + 1 \in DOMAIN s /\ d \in s[i + 1] /\ c \in s[1]
      BY <2>1, <3>1 DEF Remains
    <3>. QED  BY <3>2 DEF Ordered
  <2>5. c.do \in Written => AllShow(u)
    BY <2>4 DEF Before, AllShow
  <2>6. \A d \in CallsOf(u) : d = c \/ Before(c, d) \/ (d.do \notin Written /\ c.do \notin Written)
    BY <2>4
  <2>. QED  BY <2>3, <2>5, <2>6
<1>2. CASE s[1] # {c}
  <2>1. DOMAIN u = DOMAIN s /\ \A i \in DOMAIN u : u[i] \subseteq s[i]
    BY <1>2 DEF Remains
  <2>2. Ordered(u)
    BY <2>1 DEF Ordered
  <2>3. ASSUME c.do \in Written PROVE FALSE
    <3>1. \A d \in s[1] : d = c
      BY <2>3 DEF Ordered, Remains
    <3>. QED  BY <1>2, <3>1 DEF Remains
  <2>4. ASSUME NEW d \in CallsOf(u), d.do \in Written PROVE Before(c, d)
    <3>1. PICK i \in DOMAIN u : d \in u[i]
      BY DEF CallsOf
    <3>2. i # 1
      BY <2>1, <2>3, <2>4, <3>1 DEF Ordered, Remains
    <3>3. 1 < i /\ 1 \in DOMAIN s /\ i \in DOMAIN s /\ d \in s[i] /\ c \in s[1]
      BY <2>1, <3>1, <3>2 DEF Remains
    <3>. QED  BY <3>3 DEF Ordered
  <2>. QED  BY <2>2, <2>3, <2>4
<1>. QED  BY <1>1, <1>2

LEMMA RestRowsFirst ==
  ASSUME NEW s, NEW c, NEW u, Remains(s, c, u), RowsFirst(s)
  PROVE  /\ RowsFirst(u)
         /\ c = Select(RunRows) => \A t \in Details : Select(t) \in CallsOf(u)
<1>1. CASE s[1] = {c}
  <2>1. \A i \in DOMAIN u : i + 1 \in DOMAIN s /\ u[i] = s[i + 1]
    BY <1>1 DEF Remains
  <2>2. ASSUME NEW i \in DOMAIN u, Select(RunRows) \in u[i], NEW t \in Details
        PROVE  \E j \in DOMAIN u : i < j /\ Select(t) \in u[j]
    <3>1. PICK j \in DOMAIN s : i + 1 < j /\ Select(t) \in s[j]
      BY <2>1, <2>2 DEF RowsFirst
    <3>2. j # 1 /\ i \in Nat /\ j \in Nat /\ i > 0
      BY <3>1 DEF Remains
    <3>3. j - 1 \in DOMAIN u /\ u[j - 1] = s[j] /\ i < j - 1
      BY <1>1, <3>1, <3>2 DEF Remains
    <3>. QED  BY <3>1, <3>3
  <2>3. ASSUME c = Select(RunRows), NEW t \in Details PROVE Select(t) \in CallsOf(u)
    <3>1. PICK j \in DOMAIN s : 1 < j /\ Select(t) \in s[j]
      BY <2>3 DEF RowsFirst, Remains
    <3>2. j - 1 \in DOMAIN u /\ u[j - 1] = s[j]
      BY <1>1, <3>1 DEF Remains
    <3>. QED  BY <3>1, <3>2 DEF CallsOf
  <2>. QED  BY <2>2, <2>3 DEF RowsFirst
<1>2. CASE s[1] # {c}
  <2>1. DOMAIN u = DOMAIN s /\ \A i \in DOMAIN u : u[i] \subseteq s[i] /\ (i > 1 => u[i] = s[i])
    BY <1>2 DEF Remains
  <2>2. ASSUME NEW i \in DOMAIN s, Select(RunRows) \in s[i], NEW t \in Details
        PROVE  \E j \in DOMAIN u : i < j /\ Select(t) \in u[j]
    <3>1. PICK j \in DOMAIN s : i < j /\ Select(t) \in s[j]
      BY <2>2 DEF RowsFirst
    <3>2. j > 1
      BY <3>1 DEF Remains
    <3>. QED  BY <2>1, <3>1, <3>2
  <2>3. c \in s[1] /\ 1 \in DOMAIN s
    BY DEF Remains
  <2>. QED  BY <2>1, <2>2, <2>3 DEF RowsFirst, CallsOf
<1>. QED  BY <1>1, <1>2

-----------------------------------------------------------------------------
(* What a log holds: the commits of a table, and those under a key.         *)

CommitsIn(log, t) == {c \in DOMAIN log : t \in log[c].tables}
KeyIn(log, k) == {c \in DOMAIN log : k # None /\ log[c].key = k}
Told(log, k, e) == \E c \in KeyIn(log, k) : log[c].event = e

(* A log is a sequence, no key has two commits, each table a last one.      *)
LogOK(log) ==
  /\ \E S : log \in Seq(S)
  /\ \A k : \A c, d \in KeyIn(log, k) : c = d
  /\ \A t : \E x \in CommitsIn(log, t) \cup {0} : \A y \in CommitsIn(log, t) \cup {0} : x >= y

LastCommit(log, t) == Max(CommitsIn(log, t) \cup {0})

LEMMA LastOfTable ==
  ASSUME NEW log, LogOK(log), NEW t
  PROVE  /\ LastCommit(log, t) \in DOMAIN log \cup {0}
         /\ \A c \in CommitsIn(log, t) : LastCommit(log, t) >= c
<1>1. \E x \in CommitsIn(log, t) \cup {0} : \A y \in CommitsIn(log, t) \cup {0} : x >= y
  BY DEF LogOK
<1>2. LastCommit(log, t) \in CommitsIn(log, t) \cup {0} /\ \A y \in CommitsIn(log, t) \cup {0} : LastCommit(log, t) >= y
  BY <1>1 DEF LastCommit, Max
<1>. QED  BY <1>2 DEF CommitsIn

LEMMA LogDomain == ASSUME NEW log, LogOK(log) PROVE Len(log) \in Nat /\ DOMAIN log = 1..Len(log)
BY DEF LogOK

(* A log is extended by nothing, or by later commits.                       *)
Extends(log, log2) ==
  /\ \A i \in DOMAIN log : i \in DOMAIN log2 /\ log2[i] = log[i]
  /\ \A i \in DOMAIN log2 : i \in DOMAIN log \/ ~ (i <= 0 \/ \E j \in DOMAIN log : i <= j)

LEMMA AppendExtends ==
  ASSUME NEW log, LogOK(log), NEW e, NEW log2, log2 = Append(log, e), KeyIn(log, e.key) = {}
  PROVE  /\ LogOK(log2) /\ Extends(log, log2)
         /\ Len(log2) \in DOMAIN log2 /\ log2[Len(log2)] = e /\ Len(log2) # 0
<1>1. PICK S : log \in Seq(S)
  BY DEF LogOK
<1>2. log2 \in Seq(S \cup {e}) /\ Len(log2) = Len(log) + 1 /\ DOMAIN log2 = 1..(Len(log) + 1)
      /\ DOMAIN log = 1..Len(log) /\ Len(log) \in Nat
      /\ (\A i \in DOMAIN log : log2[i] = log[i]) /\ log2[Len(log) + 1] = e
  <2>1. log \in Seq(S \cup {e}) /\ e \in S \cup {e}
    BY <1>1
  <2>. QED  BY <2>1
<1>. DEFINE n == Len(log) + 1
<1>3. n \in DOMAIN log2 /\ n \notin DOMAIN log /\ n # 0 /\ \A i \in DOMAIN log2 : i \in DOMAIN log \/ i = n
  BY <1>2
<1>4. \A i \in DOMAIN log : i < n
  BY <1>2
<1>5. Extends(log, log2)
  BY <1>2 DEF Extends
<1>6. ASSUME NEW k, NEW c \in KeyIn(log2, k), NEW d \in KeyIn(log2, k) PROVE c = d
  <2>1. CASE c \in DOMAIN log /\ d \in DOMAIN log
    BY <1>2, <1>6, <2>1 DEF LogOK, KeyIn
  <2>2. CASE (c \in DOMAIN log /\ d = n) \/ (d \in DOMAIN log /\ c = n)
    <3>1. k = e.key /\ k # None
      BY <1>2, <1>6, <2>2 DEF KeyIn
    <3>2. KeyIn(log, e.key) # {}
      BY <1>2, <1>6, <2>2, <3>1 DEF KeyIn
    <3>. QED  BY <3>2
  <2>. QED  BY <1>3, <1>6, <2>1, <2>2 DEF KeyIn
<1>7. ASSUME NEW t PROVE \E x \in CommitsIn(log2, t) \cup {0} : \A y \in CommitsIn(log2, t) \cup {0} : x >= y
  <2>1. CommitsIn(log2, t) = CommitsIn(log, t) \cup (IF t \in e.tables THEN {n} ELSE {})
    BY <1>2, <1>3 DEF CommitsIn
  <2>2. CASE t \in e.tables
    <3>1. n \in CommitsIn(log2, t) /\ \A y \in CommitsIn(log2, t) \cup {0} : y \in 0..n
      BY <1>2, <2>1, <2>2 DEF CommitsIn
    <3>2. \A y \in CommitsIn(log2, t) \cup {0} : n >= y
      BY <1>2, <3>1
    <3>. QED  BY <3>1, <3>2
  <2>3. CASE t \notin e.tables
    <3>1. CommitsIn(log2, t) = CommitsIn(log, t)
      BY <2>1, <2>3
    <3>. QED  BY <3>1 DEF LogOK
  <2>. QED  BY <2>2, <2>3
<1>8. LogOK(log2)
  BY <1>2, <1>6, <1>7 DEF LogOK
<1>. QED  BY <1>2, <1>3, <1>5, <1>8

-----------------------------------------------------------------------------
(* The requests under way.  Of each: what it has still to do, what its      *)
(* answer will be entitled to say, and what its view shows already.         *)

Needs(rt, op) == rt \in {"transactions", "rebalances", "contributions"} /\ op \in KeyedOperations
ProgramOf(rt, op) == requireUser \o enforceRateLimit \o readInput \o apiRoutes[rt][op]
Mutating(rt, op) == HasWrite(ProgramOf(rt, op))
Live == Unanswered \cup {"done", "reapproval"}
Due(rq, res) == IF res = "reapproving" THEN "expired" ELSE Expected(rq.op)

CallOK(rt, rq, res, c) ==
  \/ c.do \in Plain
  \/ IsSelect(c)
  \/ c.do = "assess" /\ Needs(rt, rq.op)
  \/ ~ Needs(rt, rq.op) /\ KeylessWrite(c)
  \/ Needs(rt, rq.op) /\ KeyedWrite(c, Due(rq, res))

(* What is left to do: after a write, or a known key, only to show.         *)
TodoOK(log, rt, rq, s, res, o) ==
  /\ IsProgram(s) /\ Ordered(s) /\ RowsFirst(s)
  /\ \A c \in CallsOf(s) : CallOK(rt, rq, res, c)
  /\ IF Needs(rt, rq.op) THEN rq.key # None ELSE rq.key = None
  /\ res \in {"done", "reapproval"} => s = <<>>
  /\ res = "repeating" \/ o # 0 => AllShow(s)
  /\ Needs(rt, rq.op) => HasWrite(s) \/ (AllShow(s) /\ KeyIn(log, rq.key) # {})

(* What the answer may say: the write is to come, is done, or was done      *)
(* under the same key.                                                      *)
ToldOK(log, rt, rq, s, res, o) ==
  /\ res \in {"open", "storing", "done"} /\ Mutating(rt, rq.op) =>
       o # 0 \/ Told(log, rq.key, Expected(rq.op)) \/ HasWrite(s)
  /\ res = "reapproving" => Needs(rt, rq.op) /\ (Told(log, rq.key, "expired") \/ HasWrite(s))
  /\ res \in {"repeating", "reapproval"} => Told(log, rq.key, "expired")

(* What the view shows: with a row all of its details that are not still to *)
(* be read, nothing of a table that is still to be written, and what was    *)
(* written by the request or under its key.                                 *)
Covers(log, v, n, ts) == \A t \in ts \cap DOMAIN v : v[t] >= n
ShownOK(log, rq, s, o, v) ==
  /\ \A t \in DOMAIN v : v[t] \in DOMAIN log \cup {0}
  /\ RunRows \in DOMAIN v => \A t \in Details :
       \/ Select(t) \in CallsOf(s)
       \/ t \in DOMAIN v /\ \A c \in CommitsIn(log, t) : c <= v[RunRows] => v[t] >= c
  /\ \A w \in CallsOf(s) : w.do \in Written =>
       w.tables \cap DOMAIN v = {} /\ (w.do \in {"entry", "keyed"} => DOMAIN v = {})
  /\ o # 0 => o \in DOMAIN log /\ Covers(log, v, o, log[o].tables)
  /\ \A c \in KeyIn(log, rq.key) : Covers(log, v, c, log[c].tables)

RowOK(log, rt, rq, s, res, o, v) ==
  /\ res \in Live => TodoOK(log, rt, rq, s, res, o) /\ ToldOK(log, rt, rq, s, res, o) /\ ShownOK(log, rq, s, o, v)
  /\ res = "refused" => o = 0

LEMMA KeyedHere ==
  ASSUME NEW rt, NEW rq, NEW res, NEW c, CallOK(rt, rq, res, c), c.do \in Written
  PROVE  IF Needs(rt, rq.op) THEN KeyedWrite(c, Due(rq, res)) ELSE KeylessWrite(c)
<1>1. c.do \notin Plain /\ c.do # "assess" /\ ~ IsSelect(c)
  BY SelectKind DEF Plain, Written
<1>. QED  BY <1>1 DEF CallOK

(* Commits of others disturb no request under way.                          *)
LEMMA RowStable ==
  ASSUME NEW log, NEW log2, LogOK(log), LogOK(log2), Extends(log, log2),
         NEW rt, NEW rq, NEW s, NEW res, NEW o, NEW v, RowOK(log, rt, rq, s, res, o, v)
  PROVE  RowOK(log2, rt, rq, s, res, o, v)
<1>. SUFFICES ASSUME res \in Live
              PROVE  TodoOK(log2, rt, rq, s, res, o) /\ ToldOK(log2, rt, rq, s, res, o) /\ ShownOK(log2, rq, s, o, v)
  BY DEF RowOK
<1>1. TodoOK(log, rt, rq, s, res, o) /\ ToldOK(log, rt, rq, s, res, o) /\ ShownOK(log, rq, s, o, v)
  BY DEF RowOK
<1>2. \A k : KeyIn(log, k) \subseteq KeyIn(log2, k) /\ \A c \in KeyIn(log, k) : log2[c] = log[c]
  BY DEF KeyIn, Extends
<1>3. \A k, e : Told(log, k, e) => Told(log2, k, e)
  BY <1>2 DEF Told
<1>4. TodoOK(log2, rt, rq, s, res, o)
  BY <1>1, <1>2 DEF TodoOK
<1>5. ToldOK(log2, rt, rq, s, res, o)
  BY <1>1, <1>3 DEF ToldOK
<1>6. \A t \in DOMAIN v : v[t] \in DOMAIN log2 \cup {0}
  BY <1>1 DEF ShownOK, Extends
<1>7. ASSUME RunRows \in DOMAIN v, NEW t \in Details, Select(t) \notin CallsOf(s)
      PROVE  t \in DOMAIN v /\ \A c \in CommitsIn(log2, t) : c <= v[RunRows] => v[t] >= c
  <2>1. t \in DOMAIN v /\ \A c \in CommitsIn(log, t) : c <= v[RunRows] => v[t] >= c
    BY <1>1, <1>7 DEF ShownOK
  <2>2. v[RunRows] \in DOMAIN log \cup {0}
    BY <1>1, <1>7 DEF ShownOK
  <2>3. ASSUME NEW c \in CommitsIn(log2, t), c <= v[RunRows] PROVE c \in CommitsIn(log, t)
    <3>1. c \in DOMAIN log2 /\ t \in log2[c].tables
      BY DEF CommitsIn
    <3>2. c \in DOMAIN log
      BY <2>2, <2>3, <3>1 DEF Extends
    <3>. QED  BY <3>1, <3>2 DEF Extends, CommitsIn
  <2>. QED  BY <2>1, <2>3
<1>8. o # 0 => o \in DOMAIN log2 /\ Covers(log2, v, o, log2[o].tables)
  BY <1>1 DEF ShownOK, Extends, Covers
<1>9. ASSUME NEW c \in KeyIn(log2, rq.key) PROVE Covers(log2, v, c, log2[c].tables)
  <2>1. CASE c \in KeyIn(log, rq.key)
    BY <1>1, <1>2, <2>1 DEF ShownOK, Covers
  <2>2. CASE c \notin KeyIn(log, rq.key)
    <3>1. Needs(rt, rq.op)
      BY <1>1 DEF TodoOK, KeyIn
    <3>2. KeyIn(log, rq.key) = {}
      BY <1>2, <2>2 DEF LogOK
    <3>3. PICK w \in CallsOf(s) : w.do \in Written
      BY <1>1, <3>1, <3>2 DEF TodoOK, HasWrite
    <3>4. KeyedWrite(w, Due(rq, res))
      BY <1>1, <3>1, <3>3, KeyedHere DEF TodoOK
    <3>5. DOMAIN v = {}
      BY <1>1, <3>3, <3>4 DEF ShownOK, KeyedWrite
    <3>. QED  BY <3>5 DEF Covers
  <2>. QED  BY <2>1, <2>2
<1>10. \A w \in CallsOf(s) : w.do \in Written =>
       w.tables \cap DOMAIN v = {} /\ (w.do \in {"entry", "keyed"} => DOMAIN v = {})
  BY <1>1 DEF ShownOK
<1>11. ShownOK(log2, rq, s, o, v)
  BY <1>6, <1>7, <1>8, <1>9, <1>10 DEF ShownOK
<1>. QED  BY <1>4, <1>5, <1>11

-----------------------------------------------------------------------------
(* A call done.                                                             *)

Viewed(v, c, log) ==
  IF c.do \notin {"select", "write", "entry"} THEN v
  ELSE LET t == CHOOSE x \in c.tables : TRUE
       IN [x \in DOMAIN v \cup {t} |-> IF x = t THEN LastCommit(log, t) ELSE v[x]]

Adds(v, v2, t, log) ==
  DOMAIN v2 = DOMAIN v \cup {t} /\ v2[t] = LastCommit(log, t) /\ \A x \in DOMAIN v : x # t => v2[x] = v[x]

LEMMA ViewGrows ==
  ASSUME NEW log, NEW v, NEW c, NEW t, c.tables = {t}, c.do \in {"select", "write", "entry"}
  PROVE  Adds(v, Viewed(v, c, log), t, log)
<1>1. (CHOOSE x \in c.tables : TRUE) = t
  OBVIOUS
<1>2. Viewed(v, c, log) = [x \in DOMAIN v \cup {t} |-> IF x = t THEN LastCommit(log, t) ELSE v[x]]
  BY <1>1 DEF Viewed
<1>. QED  BY <1>2 DEF Adds

LEMMA TodoRest ==
  ASSUME NEW log, NEW rt, NEW rq, NEW s, NEW res, NEW o, TodoOK(log, rt, rq, s, res, o),
         s # <<>>, NEW c \in Head(s),
         Needs(rt, rq.op) => c.do \notin Written \/ KeyIn(log, rq.key) # {},
         NEW o2, o2 = o \/ c.do \in Written,
         NEW res2, Due(rq, res2) = Due(rq, res), res2 \notin {"done", "reapproval"},
         res2 = "repeating" => res = "repeating"
  PROVE  TodoOK(log, rt, rq, Rest(s, c), res2, o2)
<1>. DEFINE u == Rest(s, c)
<1>. HIDE DEF u
<1>1. Remains(s, c, u)
  BY RestRemains DEF TodoOK, u
<1>2. IsProgram(u) /\ Ordered(u) /\ RowsFirst(u) /\ (c.do \in Written => AllShow(u))
  BY <1>1, RestOrdered, RestRowsFirst DEF Remains, TodoOK
<1>3. CallsOf(u) \subseteq CallsOf(s) /\ CallsOf(s) \subseteq CallsOf(u) \cup {c}
  BY <1>1, RestCalls
<1>4. \A d \in CallsOf(u) : CallOK(rt, rq, res2, d)
  BY <1>3 DEF TodoOK, CallOK
<1>5. AllShow(s) => AllShow(u)
  BY <1>3 DEF AllShow
<1>6. HasWrite(s) => HasWrite(u) \/ c.do \in Written
  BY <1>3 DEF HasWrite
<1>7. res2 = "repeating" \/ o2 # 0 => AllShow(u)
  BY <1>2, <1>5 DEF TodoOK
<1>8. Needs(rt, rq.op) => HasWrite(u) \/ (AllShow(u) /\ KeyIn(log, rq.key) # {})
  BY <1>2, <1>5, <1>6 DEF TodoOK
<1>9. TodoOK(log, rt, rq, u, res2, o2)
  BY <1>2, <1>4, <1>7, <1>8 DEF TodoOK
<1>. QED  BY <1>9 DEF u

LEMMA ShowsSame ==
  ASSUME NEW log, NEW rq, NEW s, NEW o, NEW v, ShownOK(log, rq, s, o, v),
         NEW u, CallsOf(u) \subseteq CallsOf(s),
         \A d \in Details : Select(d) \in CallsOf(s) => Select(d) \in CallsOf(u)
  PROVE  ShownOK(log, rq, u, o, v)
BY DEF ShownOK

LEMMA ShowsMore ==
  ASSUME NEW log, LogOK(log), NEW rq, NEW s, NEW o, NEW v, ShownOK(log, rq, s, o, v),
         NEW u, CallsOf(u) \subseteq CallsOf(s), NEW t, NEW v2, Adds(v, v2, t, log),
         \A d \in Details : d # t /\ Select(d) \in CallsOf(s) => Select(d) \in CallsOf(u),
         t = RunRows => \A d \in Details : Select(d) \in CallsOf(u),
         \A w \in CallsOf(u) : w.do \in Written => t \notin w.tables /\ w.do \notin {"entry", "keyed"}
  PROVE  ShownOK(log, rq, u, o, v2)
<1>1. v2[t] \in DOMAIN log \cup {0} /\ \A c \in CommitsIn(log, t) : v2[t] >= c
  BY LastOfTable DEF Adds
<1>2. \A x \in DOMAIN v2 : v2[x] \in DOMAIN log \cup {0}
  BY <1>1 DEF Adds, ShownOK
<1>3. ASSUME NEW n, n \in DOMAIN log, Covers(log, v, n, log[n].tables) PROVE Covers(log, v2, n, log[n].tables)
  <2>1. ASSUME NEW x \in log[n].tables, x \in DOMAIN v2 PROVE v2[x] >= n
    <3>1. CASE x = t
      BY <1>1, <1>3, <3>1, <2>1 DEF CommitsIn
    <3>2. CASE x # t
      BY <1>3, <3>2, <2>1 DEF Adds, Covers
    <3>. QED  BY <3>1, <3>2
  <2>. QED  BY <2>1 DEF Covers
<1>4. ASSUME RunRows \in DOMAIN v2, NEW d \in Details, Select(d) \notin CallsOf(u)
      PROVE  d \in DOMAIN v2 /\ \A c \in CommitsIn(log, d) : c <= v2[RunRows] => v2[d] >= c
  <2>1. t # RunRows /\ RunRows \in DOMAIN v /\ v2[RunRows] = v[RunRows]
    BY <1>4 DEF Adds
  <2>2. CASE d = t
    BY <1>1, <2>2 DEF Adds
  <2>3. CASE d # t
    <3>1. Select(d) \notin CallsOf(s)
      BY <1>4, <2>3
    <3>2. d \in DOMAIN v /\ \A c \in CommitsIn(log, d) : c <= v[RunRows] => v[d] >= c
      BY <2>1, <3>1 DEF ShownOK
    <3>. QED  BY <2>1, <2>3, <3>2 DEF Adds
  <2>. QED  BY <2>2, <2>3
<1>5. ASSUME NEW w \in CallsOf(u), w.do \in Written
      PROVE  w.tables \cap DOMAIN v2 = {} /\ w.do \notin {"entry", "keyed"}
  BY <1>5 DEF ShownOK, Adds
<1>6. o # 0 => o \in DOMAIN log /\ Covers(log, v2, o, log[o].tables)
  BY <1>3 DEF ShownOK
<1>7. \A c \in KeyIn(log, rq.key) : Covers(log, v2, c, log[c].tables)
  BY <1>3 DEF ShownOK, KeyIn
<1>. QED  BY <1>2, <1>4, <1>5, <1>6, <1>7 DEF ShownOK

(* A call that writes nothing.                                              *)
LEMMA RowPasses ==
  ASSUME NEW log, LogOK(log), NEW rt, NEW rq, NEW s, NEW res, NEW o, NEW v, RowOK(log, rt, rq, s, res, o, v),
         res \in Unanswered, s # <<>>, NEW c \in Head(s), c.do \notin Written, c.do = "select" => IsSelect(c)
  PROVE  RowOK(log, rt, rq, Rest(s, c), res, o, Viewed(v, c, log))
<1>. DEFINE u == Rest(s, c)
            v2 == Viewed(v, c, log)
<1>0. TodoOK(log, rt, rq, s, res, o) /\ ToldOK(log, rt, rq, s, res, o) /\ ShownOK(log, rq, s, o, v)
  BY DEF RowOK, Live
<1>. HIDE DEF u, v2
<1>1. Remains(s, c, u)
  BY <1>0, RestRemains DEF TodoOK, u
<1>2. CallsOf(u) \subseteq CallsOf(s) /\ CallsOf(s) \subseteq CallsOf(u) \cup {c}
  BY <1>1, RestCalls
<1>3. TodoOK(log, rt, rq, u, res, o)
  BY <1>0, TodoRest DEF u, Unanswered
<1>4. ToldOK(log, rt, rq, u, res, o)
  <2>1. HasWrite(s) => HasWrite(u)
    BY <1>2 DEF HasWrite
  <2>. QED  BY <1>0, <2>1 DEF ToldOK
<1>5. ShownOK(log, rq, u, o, v2)
  <2>1. CASE c.do # "select"
    <3>1. v2 = v
      BY <2>1 DEF v2, Viewed, Written
    <3>2. \A d \in Details : Select(d) # c
      BY <2>1, SelectOf
    <3>. QED  BY <1>0, <1>2, <3>1, <3>2, ShowsSame
  <2>2. CASE c.do = "select"
    <3>1. PICK t : c = Select(t)
      BY <2>2 DEF IsSelect
    <3>2. c.tables = {t}
      BY <3>1, SelectOf
    <3>3. Adds(v, v2, t, log)
      BY <2>2, <3>2, ViewGrows DEF v2
    <3>4. \A d \in Details : d # t => Select(d) # c
      BY <3>2, SelectOf
    <3>5. t = RunRows => \A d \in Details : Select(d) \in CallsOf(u)
      BY <1>0, <1>1, <3>1, RestRowsFirst DEF TodoOK
    <3>6. ASSUME NEW w \in CallsOf(u), w.do \in Written PROVE t \notin w.tables /\ w.do \notin {"entry", "keyed"}
      <4>1. Before(c, w)
        BY <1>0, <1>1, <3>6, RestOrdered DEF TodoOK
      <4>. QED  BY <2>2, <3>2, <3>6, <4>1 DEF Before
    <3>. QED  BY <1>0, <1>2, <3>3, <3>4, <3>5, <3>6, ShowsMore
  <2>. QED  BY <2>1, <2>2
<1>6. RowOK(log, rt, rq, u, res, o, v2)
  BY <1>3, <1>4, <1>5 DEF RowOK, Unanswered
<1>. QED  BY <1>6 DEF u, v2

(* A call that writes; its commit is new, or its key was known.             *)
Carried(log, rq, o, c, o2) ==
  \/ o2 # 0 /\ o2 \in DOMAIN log /\ log[o2].tables = c.tables /\ log[o2].key = rq.key
     /\ (c.do \in {"entry", "keyed"} /\ c.event \notin {"removed", "restored"} => log[o2].event = c.event)
  \/ o2 = o /\ c.do \in {"entry", "keyed"} /\ Told(log, rq.key, c.event)

LEMMA DueIsKept == ASSUME NEW op PROVE Expected(op) \notin {"removed", "restored", "expired", "added"}
BY DEF Expected

LEMMA RowServed ==
  ASSUME NEW log, LogOK(log), NEW rt, NEW rq, NEW s, NEW res, NEW o, NEW v, RowOK(log, rt, rq, s, res, o, v),
         res \in Unanswered, s # <<>>, NEW c \in Head(s), c.do \in Written,
         NEW o2, Carried(log, rq, o, c, o2),
         NEW res2, res2 = res \/ (res = "open" /\ res2 = "storing")
  PROVE  RowOK(log, rt, rq, Rest(s, c), res2, o2, Viewed(v, c, log))
<1>. DEFINE u == Rest(s, c)
            v2 == Viewed(v, c, log)
<1>0. TodoOK(log, rt, rq, s, res, o) /\ ToldOK(log, rt, rq, s, res, o) /\ ShownOK(log, rq, s, o, v)
  BY DEF RowOK, Live
<1>. HIDE DEF u, v2
<1>1. Remains(s, c, u)
  BY <1>0, RestRemains DEF TodoOK, u
<1>2. CallsOf(u) \subseteq CallsOf(s) /\ CallsOf(s) \subseteq CallsOf(u) \cup {c} /\ c \in CallsOf(s)
  BY <1>1, RestCalls
<1>3. ~ AllShow(s) /\ o = 0 /\ res # "repeating"
  <2>1. ~ IsSelect(c)
    BY SelectKind DEF Written
  <2>2. ~ AllShow(s)
    BY <1>2, <2>1 DEF AllShow
  <2>. QED  BY <1>0, <2>2 DEF TodoOK
<1>4. IF Needs(rt, rq.op) THEN KeyedWrite(c, Due(rq, res)) ELSE KeylessWrite(c)
  BY <1>0, <1>2, KeyedHere DEF TodoOK
<1>5. Needs(rt, rq.op) => Told(log, rq.key, Due(rq, res)) /\ KeyIn(log, rq.key) # {}
  <2>. SUFFICES ASSUME Needs(rt, rq.op) PROVE Told(log, rq.key, Due(rq, res)) /\ KeyIn(log, rq.key) # {}
    OBVIOUS
  <2>1. c.event = Due(rq, res) /\ c.do \in {"entry", "keyed"}
    BY <1>4 DEF KeyedWrite
  <2>2. c.event \notin {"removed", "restored"}
    BY <2>1, DueIsKept DEF Due
  <2>3. rq.key # None
    BY <1>0 DEF TodoOK
  <2>4. Told(log, rq.key, c.event)
    BY <2>1, <2>2, <2>3 DEF Carried, Told, KeyIn
  <2>. QED  BY <2>1, <2>4 DEF Told
<1>6. o2 # 0 \/ Needs(rt, rq.op)
  BY <1>4 DEF Carried, KeylessWrite
<1>7. Due(rq, res2) = Due(rq, res) /\ res2 \in {"open", "storing", "reapproving"} /\ (res2 = "reapproving" => res = res2)
  BY <1>3 DEF Due, Unanswered
<1>8. TodoOK(log, rt, rq, u, res2, o2)
  BY <1>0, <1>5, <1>7, TodoRest DEF u
<1>9. ToldOK(log, rt, rq, u, res2, o2)
  <2>1. res2 \in {"open", "storing"} => o2 # 0 \/ Told(log, rq.key, Expected(rq.op))
    BY <1>5, <1>6, <1>7 DEF Due
  <2>2. res2 = "reapproving" => Needs(rt, rq.op) /\ Told(log, rq.key, "expired")
    BY <1>0, <1>5, <1>7 DEF Due, ToldOK
  <2>. QED  BY <1>7, <2>1, <2>2 DEF ToldOK
<1>10. ShownOK(log, rq, s, o2, v)
  <2>1. c.tables \cap DOMAIN v = {}
    BY <1>0, <1>2 DEF ShownOK
  <2>2. o2 # 0 => o2 \in DOMAIN log /\ Covers(log, v, o2, log[o2].tables)
    BY <1>3, <2>1 DEF Carried, Covers
  <2>. QED  BY <1>0, <2>2 DEF ShownOK
<1>11. AllShow(u)
  BY <1>0, <1>1, RestOrdered DEF TodoOK
<1>12. \A d : Select(d) # c
  BY SelectOf DEF Written
<1>13. \A d \in Details : Select(d) \in CallsOf(s) => Select(d) \in CallsOf(u)
  BY <1>2, <1>12
<1>14. ShownOK(log, rq, u, o2, v2)
  <2>1. CASE c.do \notin {"write", "entry"}
    <3>1. v2 = v
      BY <2>1 DEF v2, Viewed, Written
    <3>. QED  BY <1>2, <1>10, <1>13, <3>1, ShowsSame
  <2>2. CASE c.do \in {"write", "entry"}
    <3>1. PICK t : c.tables = {t} /\ t # RunRows
      <4>1. "portfolio_transactions" # RunRows
        BY DEF RunRows
      <4>. QED  BY <1>4, <2>2, <4>1 DEF KeyedWrite, KeylessWrite, OtherTable
    <3>2. Adds(v, v2, t, log)
      BY <2>2, <3>1, ViewGrows DEF v2
    <3>3. \A w \in CallsOf(u) : w.do \notin Written
      BY <1>11, SelectKind DEF AllShow, Written
    <3>. QED  BY <1>2, <1>10, <1>13, <3>1, <3>2, <3>3, ShowsMore
  <2>. QED  BY <2>1, <2>2
<1>15. RowOK(log, rt, rq, u, res2, o2, v2)
  BY <1>7, <1>8, <1>9, <1>14 DEF RowOK
<1>. QED  BY <1>15 DEF u, v2

LEMMA NothingToCall == IsProgram(<<>>) /\ CallsOf(<<>>) = {} /\ AllShow(<<>>) /\ ~ HasWrite(<<>>)
<1>1. <<>> \in Seq({}) /\ DOMAIN <<>> = {}
  OBVIOUS
<1>. QED  BY <1>1 DEF IsProgram, CallsOf, AllShow, HasWrite

(* The programs that replace what was left.                                 *)
LEMMA ReplayShows == Reading(getPortfolioRebalanceRun, {})
BY RunsRead DEF getPortfolioRebalanceRun

LEMMA ExpiryWrites ==
  \E w : Writing(transitionPortfolioRebalanceRun("expired"), w, {}) /\ KeyedWrite(w, "expired")
<1>. DEFINE w == Keyed({RunRows, EventRows}, "expired")
<1>1. w.do = "keyed" /\ w.event = "expired"
  BY KeyedKinds
<1>2. transitionPortfolioRebalanceRun("expired") = <<{w}>> \o getPortfolioRebalanceRun
  BY DEF transitionPortfolioRebalanceRun
<1>. HIDE DEF w
<1>3. Writing(<<{w}>> \o getPortfolioRebalanceRun, w, {}) /\ KeyedWrite(w, "expired")
  BY <1>1, ReplayShows, WriteRead DEF Written, KeyedWrite
<1>. QED  BY <1>2, <1>3

(* A keyed request that has asked something has shown nothing.              *)
LEMMA StillToWrite ==
  ASSUME NEW log, NEW rt, NEW rq, NEW s, NEW res, NEW o, NEW v,
         TodoOK(log, rt, rq, s, res, o), ShownOK(log, rq, s, o, v), NEW c \in CallsOf(s), ~ IsSelect(c),
         Needs(rt, rq.op)
  PROVE  DOMAIN v = {} /\ o = 0
<1>1. ~ AllShow(s)
  BY DEF AllShow
<1>2. PICK w \in CallsOf(s) : w.do \in Written
  BY <1>1 DEF TodoOK, HasWrite
<1>3. KeyedWrite(w, Due(rq, res))
  BY <1>2, KeyedHere DEF TodoOK
<1>. QED  BY <1>1, <1>2, <1>3 DEF ShownOK, TodoOK, KeyedWrite

LEMMA RowReplayed ==
  ASSUME NEW log, LogOK(log), NEW rt, NEW rq, NEW s, NEW res, NEW o, NEW v, RowOK(log, rt, rq, s, res, o, v),
         res \in Unanswered, NEW c \in CallsOf(s), c.do = "known",
         NEW i \in KeyIn(log, rq.key), log[i].event \in {Expected(rq.op), "expired"},
         NEW res2, res2 = IF log[i].event = "expired" THEN "repeating" ELSE "open"
  PROVE  RowOK(log, rt, rq, getPortfolioRebalanceRun, res2, o, v)
<1>. DEFINE u == getPortfolioRebalanceRun
<1>. HIDE DEF u
<1>0. TodoOK(log, rt, rq, s, res, o) /\ ToldOK(log, rt, rq, s, res, o) /\ ShownOK(log, rq, s, o, v)
  BY DEF RowOK, Live
<1>1. Needs(rt, rq.op)
  BY <1>0 DEF TodoOK, KeyIn
<1>2. DOMAIN v = {} /\ o = 0
  <2>1. ~ IsSelect(c)
    BY SelectKind
  <2>. QED  BY <1>0, <1>1, <2>1, StillToWrite
<1>3. Reading(u, {})
  BY ReplayShows DEF u
<1>4. IsProgram(u) /\ Ordered(u) /\ RowsFirst(u) /\ AllShow(u) /\ \A d \in CallsOf(u) : d.do \notin Written
  <2>1. {} \cap Written = {}
    OBVIOUS
  <2>2. Ordered(u) /\ \A d \in CallsOf(u) : d.do \notin Written
    BY <1>3, <2>1, ReadOrdered
  <2>3. IsProgram(u) /\ RowsFirst(u) /\ AllShow(u)
    BY <1>3 DEF Reading, AllShow
  <2>. QED  BY <2>2, <2>3
<1>5. TodoOK(log, rt, rq, u, res2, o)
  <2>1. \A d \in CallsOf(u) : CallOK(rt, rq, res2, d)
    BY <1>4 DEF AllShow, CallOK
  <2>2. res2 \notin {"done", "reapproval"}
    OBVIOUS
  <2>. QED  BY <1>0, <1>1, <1>4, <2>1, <2>2 DEF TodoOK
<1>6. ToldOK(log, rt, rq, u, res2, o)
  <2>1. CASE log[i].event = "expired"
    <3>1. Told(log, rq.key, "expired") /\ res2 = "repeating"
      BY <2>1 DEF Told
    <3>. QED  BY <3>1 DEF ToldOK
  <2>2. CASE log[i].event # "expired"
    <3>1. Told(log, rq.key, Expected(rq.op)) /\ res2 = "open"
      BY <2>2 DEF Told
    <3>. QED  BY <3>1 DEF ToldOK
  <2>. QED  BY <2>1, <2>2
<1>7. ShownOK(log, rq, u, o, v)
  BY <1>2, <1>4 DEF ShownOK, Covers
<1>8. RowOK(log, rt, rq, u, res2, o, v)
  BY <1>5, <1>6, <1>7 DEF RowOK
<1>. QED  BY <1>8 DEF u

LEMMA RowExpires ==
  ASSUME NEW log, LogOK(log), NEW rt, NEW rq, NEW s, NEW res, NEW o, NEW v, RowOK(log, rt, rq, s, res, o, v),
         res \in Unanswered, NEW c \in CallsOf(s), c.do = "assess"
  PROVE  RowOK(log, rt, rq, transitionPortfolioRebalanceRun("expired"), "reapproving", o, v)
<1>. DEFINE u == transitionPortfolioRebalanceRun("expired")
<1>. HIDE DEF u
<1>0. TodoOK(log, rt, rq, s, res, o) /\ ToldOK(log, rt, rq, s, res, o) /\ ShownOK(log, rq, s, o, v)
  BY DEF RowOK, Live
<1>1. ~ IsSelect(c)
  BY SelectKind
<1>2. Needs(rt, rq.op)
  <2>1. c.do \notin Plain /\ ~ KeylessWrite(c)
    BY DEF Plain, KeylessWrite
  <2>. QED  BY <1>0, <1>1, <2>1 DEF TodoOK, CallOK
<1>3. DOMAIN v = {} /\ o = 0
  BY <1>0, <1>1, <1>2, StillToWrite
<1>4. PICK w : Writing(u, w, {}) /\ KeyedWrite(w, "expired")
  BY ExpiryWrites DEF u
<1>5. HasWrite(u)
  BY <1>4 DEF Writing, HasWrite
<1>6. TodoOK(log, rt, rq, u, "reapproving", o)
  <2>1. \A d \in CallsOf(u) : CallOK(rt, rq, "reapproving", d)
    BY <1>2, <1>4 DEF Writing, CallOK, Due
  <2>. QED  BY <1>0, <1>2, <1>3, <1>4, <1>5, <2>1 DEF TodoOK, Writing
<1>7. ToldOK(log, rt, rq, u, "reapproving", o)
  BY <1>2, <1>5 DEF ToldOK
<1>8. ShownOK(log, rq, u, o, v)
  BY <1>3, <1>0 DEF ShownOK, Covers
<1>9. RowOK(log, rt, rq, u, "reapproving", o, v)
  BY <1>6, <1>7, <1>8 DEF RowOK
<1>. QED  BY <1>9 DEF u

LEMMA RowAnswered ==
  ASSUME NEW log, NEW rt, NEW rq, NEW res, NEW o, NEW v, RowOK(log, rt, rq, <<>>, res, o, v), res \in Unanswered
  PROVE  RowOK(log, rt, rq, <<>>, IF res \in {"open", "storing"} THEN "done" ELSE "reapproval", o, v)
<1>. DEFINE res2 == IF res \in {"open", "storing"} THEN "done" ELSE "reapproval"
            u == <<>>
<1>. HIDE DEF u
<1>0. TodoOK(log, rt, rq, u, res, o) /\ ToldOK(log, rt, rq, u, res, o) /\ ShownOK(log, rq, u, o, v)
  BY DEF RowOK, Live, u
<1>1. CallsOf(u) = {} /\ AllShow(u) /\ ~ HasWrite(u)
  BY NothingToCall DEF u
<1>2. TodoOK(log, rt, rq, u, res2, o)
  BY <1>0, <1>1 DEF TodoOK, u
<1>3. ToldOK(log, rt, rq, u, res2, o)
  BY <1>0, <1>1 DEF ToldOK, Unanswered
<1>4. RowOK(log, rt, rq, u, res2, o, v)
  BY <1>0, <1>2, <1>3 DEF RowOK
<1>. QED  BY <1>4 DEF u

LEMMA RowRefused ==
  ASSUME NEW log, NEW rt, NEW rq, NEW s, NEW res, NEW o, NEW v, RowOK(log, rt, rq, s, res, o, v),
         res \in Unanswered, NEW c \in CallsOf(s), ~ IsSelect(c)
  PROVE  o = 0
BY DEF RowOK, Live, TodoOK, AllShow

LEMMA RowReceived ==
  ASSUME NEW log, NEW rq, route \in DOMAIN apiRoutes, rq.op \in Operations,
         IF Needs(route, rq.op) THEN rq.key # None ELSE rq.key = None
  PROVE  RowOK(log, route, rq, Program(rq.op), "open", 0, <<>>)
<1>. DEFINE s == Program(rq.op)
            v == <<>>
<1>1. Sound(rq.op, s) /\ s = ProgramOf(route, rq.op)
  BY ProgramSound DEF Program, ProgramOf
<1>2. DOMAIN v = {}
  OBVIOUS
<1>3. requireIdempotencyKey(rq.op) <=> Needs(route, rq.op)
  BY DEF requireIdempotencyKey, Needs
<1>. HIDE DEF s, v
<1>4. IsProgram(s) /\ Ordered(s) /\ RowsFirst(s)
  BY <1>1, ReadOrdered, AskKinds DEF Sound, Reading, Writing
<1>5. \A c \in CallsOf(s) : CallOK(route, rq, "open", c)
  <2>1. CASE Needs(route, rq.op)
    BY <1>1, <1>3, <2>1 DEF Sound, Writing, CallOK, Due, Asks
  <2>2. CASE ~ Needs(route, rq.op)
    BY <1>1, <1>3, <2>2 DEF Sound, Writing, Reading, CallOK
  <2>. QED  BY <2>1, <2>2
<1>6. Needs(route, rq.op) => HasWrite(s)
  BY <1>1, <1>3 DEF Sound, Writing, HasWrite
<1>7. TodoOK(log, route, rq, s, "open", 0)
  BY <1>4, <1>5, <1>6 DEF TodoOK
<1>8. ToldOK(log, route, rq, s, "open", 0)
  BY <1>1 DEF ToldOK, Mutating
<1>9. ShownOK(log, rq, s, 0, v)
  BY <1>2 DEF ShownOK, Covers
<1>10. RowOK(log, route, rq, s, "open", 0, v)
  BY <1>7, <1>8, <1>9 DEF RowOK
<1>. QED  BY <1>10 DEF s, v

-----------------------------------------------------------------------------
(* The invariant: the log is sound, and so is every request.                *)

RowInv(r) == RowOK(commits, route, request[r], todo[r], result[r], own[r], view[r])
OverClients == /\ DOMAIN request = Clients /\ DOMAIN todo = Clients /\ DOMAIN result = Clients
               /\ DOMAIN own = Clients /\ DOMAIN view = Clients
GatewayInv ==
  route \in DOMAIN apiRoutes /\ OverClients /\ LogOK(commits) /\ \A r \in Clients : RowInv(r)

LEMMA InitSound == GatewayInit => GatewayInv
<1>. SUFFICES ASSUME GatewayInit PROVE GatewayInv
  OBVIOUS
<1>1. route \in DOMAIN apiRoutes
  BY GatewayAssumption DEF GatewayInit
<1>2. LogOK(commits)
  <2>1. commits \in Seq({}) /\ DOMAIN commits = {}
    BY DEF GatewayInit
  <2>2. \A t : CommitsIn(commits, t) \cup {0} = {0}
    BY <2>1 DEF CommitsIn
  <2>. QED  BY <2>1, <2>2 DEF LogOK, KeyIn
<1>3. \A r \in Clients : RowInv(r)
  BY DEF GatewayInit, RowInv, RowOK, Live, Unanswered
<1>. QED  BY <1>1, <1>2, <1>3 DEF GatewayInv, GatewayInit, OverClients

(* A step moves one request, and may add to the log.                        *)
Sets(f, g, r, x) == DOMAIN g = Clients /\ \A q \in Clients : g[q] = IF q = r THEN x ELSE f[q]
Moves(r, rq, s, res, o, v) ==
  /\ Sets(request, request', r, rq) /\ Sets(todo, todo', r, s) /\ Sets(result, result', r, res)
  /\ Sets(own, own', r, o) /\ Sets(view, view', r, v)
  /\ route' = route

LEMMA Updated ==
  ASSUME NEW f, DOMAIN f = Clients, NEW r \in Clients
  PROVE  /\ Sets(f, f, r, f[r])
         /\ \A x : Sets(f, [f EXCEPT ![r] = x], r, x)
BY DEF Sets

LEMMA MovesKeep ==
  ASSUME GatewayInv, NEW r \in Clients, NEW rq, NEW s, NEW res, NEW o, NEW v,
         Moves(r, rq, s, res, o, v),
         LogOK(commits'), Extends(commits, commits'), RowOK(commits', route, rq, s, res, o, v)
  PROVE  GatewayInv'
<1>1. OverClients'
  BY DEF OverClients, Moves, Sets
<1>2. ASSUME NEW q \in Clients PROVE RowInv(q)'
  <2>1. CASE q = r
    <3>1. /\ request'[q] = rq /\ todo'[q] = s /\ result'[q] = res
          /\ own'[q] = o /\ view'[q] = v /\ route' = route
      BY <2>1 DEF Moves, Sets
    <3>. QED  BY <3>1 DEF RowInv
  <2>2. CASE q # r
    <3>1. /\ request'[q] = request[q] /\ todo'[q] = todo[q] /\ result'[q] = result[q]
          /\ own'[q] = own[q] /\ view'[q] = view[q] /\ route' = route
      BY <2>2 DEF Moves, Sets
    <3>2. RowOK(commits', route, request[q], todo[q], result[q], own[q], view[q])
      BY RowStable DEF GatewayInv, RowInv
    <3>. QED  BY <3>1, <3>2 DEF RowInv
  <2>. QED  BY <2>1, <2>2
<1>. QED  BY <1>1, <1>2 DEF GatewayInv, Moves

LEMMA SameLog == ASSUME NEW log, LogOK(log) PROVE Extends(log, log)
BY DEF Extends

LEMMA Terms ==
  ASSUME NEW r \in Clients
  PROVE  /\ \A k : CommitOfKey(k) = KeyIn(commits, k)
         /\ \A e : Replays(r, e) <=> Told(commits, request[r].key, e)
         /\ \A c : Left(r, c) = Rest(todo[r], c)
BY DEF CommitOfKey, KeyIn, Replays, Told, Left, Rest

LEMMA ViewTerm == ASSUME NEW r, NEW c, NEW log PROVE Shown(r, c, log) = Viewed(view[r], c, log)
BY DEF Shown, Viewed, LastCommit, CommitsIn

(* A call that may be made now.                                             *)
LEMMA CalledNow ==
  ASSUME GatewayInv, NEW r \in Clients, NEW c \in Calls(r)
  PROVE  /\ result[r] \in Unanswered /\ todo[r] # <<>> /\ c \in Head(todo[r])
         /\ RowInv(r) /\ c \in CallsOf(todo[r])
         /\ CallOK(route, request[r], result[r], c)
         /\ IF Needs(route, request[r].op) THEN request[r].key # None ELSE request[r].key = None
<1>1. result[r] \in Unanswered /\ todo[r] # <<>> /\ c \in Head(todo[r]) /\ RowInv(r)
  BY DEF Calls, GatewayInv
<1>2. TodoOK(commits, route, request[r], todo[r], result[r], own[r])
  BY <1>1 DEF RowInv, RowOK, Live
<1>3. c \in CallsOf(todo[r])
  <2>1. Remains(todo[r], c, Rest(todo[r], c))
    BY <1>1, <1>2, RestRemains DEF TodoOK
  <2>. QED  BY <2>1, RestCalls
<1>. QED  BY <1>1, <1>2, <1>3 DEF TodoOK

LEMMA PassKeeps == ASSUME GatewayInv, NEW r \in Clients, NEW c \in Calls(r), Pass(r, c) PROVE GatewayInv'
<1>1. /\ result[r] \in Unanswered /\ todo[r] # <<>> /\ c \in Head(todo[r]) /\ RowInv(r)
      /\ CallOK(route, request[r], result[r], c)
  BY CalledNow
<1>2. c.do \notin Written
  BY DEF Pass, Written
<1>3. c.do = "select" => IsSelect(c)
  BY <1>1 DEF CallOK, Plain, KeylessWrite, KeyedWrite
<1>. DEFINE s == Rest(todo[r], c)
            v == Viewed(view[r], c, commits)
<1>4. Moves(r, request[r], s, result[r], own[r], v) /\ commits' = commits
  BY Terms, ViewTerm, Updated DEF Pass, Moves, GatewayInv, OverClients
<1>5. RowOK(commits, route, request[r], s, result[r], own[r], v)
  BY <1>1, <1>2, <1>3, RowPasses DEF RowInv, GatewayInv
<1>. HIDE DEF s, v
<1>. QED  BY <1>4, <1>5, SameLog, MovesKeep DEF GatewayInv

LEMMA ReplayKeeps ==
  ASSUME GatewayInv, NEW r \in Clients, NEW c \in Calls(r), replayRebalanceRequest(r, c) PROVE GatewayInv'
<1>1. result[r] \in Unanswered /\ c \in CallsOf(todo[r]) /\ RowInv(r) /\ c.do = "known"
  BY CalledNow DEF replayRebalanceRequest
<1>2. PICK i \in CommitOfKey(request[r].key) :
        /\ commits[i].event \in {Expected(request[r].op), "expired"}
        /\ result' = [result EXCEPT ![r] = IF commits[i].event = "expired" THEN "repeating" ELSE "open"]
  BY DEF replayRebalanceRequest
<1>. DEFINE res == IF commits[i].event = "expired" THEN "repeating" ELSE "open"
            s == getPortfolioRebalanceRun
<1>3. i \in KeyIn(commits, request[r].key)
  BY <1>2, Terms
<1>4. RowOK(commits, route, request[r], s, res, own[r], view[r])
  BY <1>1, <1>2, <1>3, RowReplayed DEF RowInv, GatewayInv
<1>5. Moves(r, request[r], s, res, own[r], view[r]) /\ commits' = commits
  BY <1>2, Updated DEF replayRebalanceRequest, Moves, GatewayInv, OverClients
<1>. HIDE DEF s, res
<1>. QED  BY <1>4, <1>5, SameLog, MovesKeep DEF GatewayInv

LEMMA ExpireKeeps ==
  ASSUME GatewayInv, NEW r \in Clients, NEW c \in Calls(r), expireForReapproval(r, c) PROVE GatewayInv'
<1>1. result[r] \in Unanswered /\ c \in CallsOf(todo[r]) /\ RowInv(r) /\ c.do = "assess"
  BY CalledNow DEF expireForReapproval
<1>. DEFINE s == transitionPortfolioRebalanceRun("expired")
<1>2. RowOK(commits, route, request[r], s, "reapproving", own[r], view[r])
  BY <1>1, RowExpires DEF RowInv, GatewayInv
<1>3. Moves(r, request[r], s, "reapproving", own[r], view[r]) /\ commits' = commits
  BY Updated DEF expireForReapproval, Moves, GatewayInv, OverClients
<1>. HIDE DEF s
<1>. QED  BY <1>2, <1>3, SameLog, MovesKeep DEF GatewayInv

LEMMA RefuseKeeps ==
  ASSUME GatewayInv, NEW r \in Clients, NEW c \in Calls(r), Refuse(r, c) PROVE GatewayInv'
<1>1. result[r] \in Unanswered /\ c \in CallsOf(todo[r]) /\ RowInv(r)
  BY CalledNow
<1>2. ~ IsSelect(c)
  BY SelectKind DEF Refuse, Refusable
<1>3. own[r] = 0
  BY <1>1, <1>2, RowRefused DEF RowInv
<1>. DEFINE s == <<>>
<1>4. RowOK(commits, route, request[r], s, "refused", own[r], view[r])
  BY <1>3 DEF RowOK, Live, Unanswered
<1>5. Moves(r, request[r], s, "refused", own[r], view[r]) /\ commits' = commits
  BY Updated DEF Refuse, Moves, GatewayInv, OverClients
<1>. HIDE DEF s
<1>. QED  BY <1>4, <1>5, SameLog, MovesKeep DEF GatewayInv

LEMMA AnswerKeeps == ASSUME GatewayInv, NEW r \in Clients, Answer(r) PROVE GatewayInv'
<1>. DEFINE res == IF result[r] \in {"open", "storing"} THEN "done" ELSE "reapproval"
            s == todo[r]
<1>1. result[r] \in Unanswered /\ s = <<>> /\ RowInv(r)
  BY DEF Answer, GatewayInv
<1>2. RowOK(commits, route, request[r], s, res, own[r], view[r])
  BY <1>1, RowAnswered DEF RowInv
<1>3. Moves(r, request[r], s, res, own[r], view[r]) /\ commits' = commits
  BY Updated DEF Answer, Moves, GatewayInv, OverClients
<1>. HIDE DEF s, res
<1>. QED  BY <1>2, <1>3, SameLog, MovesKeep DEF GatewayInv

(* What a request that failed may leave: anything.                          *)
LEMMA RowFailed ==
  ASSUME NEW log, NEW rt, NEW rq, NEW s, NEW res, res \in {"failed", "conflict"}, NEW o, NEW v
  PROVE  RowOK(log, rt, rq, s, res, o, v)
BY DEF RowOK, Live, Unanswered

LEMMA FailKeeps == ASSUME GatewayInv, NEW r \in Clients, CallFails(r) PROVE GatewayInv'
<1>1. PICK res \in {"failed", "conflict"} : result' = [result EXCEPT ![r] = res]
  BY DEF CallFails, Fails
<1>. DEFINE s == <<>>
<1>2. Moves(r, request[r], s, res, own[r], view[r]) /\ commits' = commits
  BY <1>1, Updated DEF CallFails, Fails, Moves, GatewayInv, OverClients
<1>. HIDE DEF s
<1>. QED  BY <1>2, RowFailed, SameLog, MovesKeep DEF GatewayInv

LEMMA DispatchKeeps == ASSUME GatewayInv, NEW r \in Clients, dispatchApiRequest(r) PROVE GatewayInv'
<1>1. PICK op \in Operations, key \in ClientKeys \cup {None}, expected \in 0..Len(commits) :
        Received(r, op, key, expected) /\ todo' = [todo EXCEPT ![r] = Program(op)]
  BY DEF dispatchApiRequest
<1>. DEFINE rq == [op |-> op, key |-> key, expected |-> expected]
            s == Program(op)
            v == <<>>
<1>2. rq.op = op /\ rq.key = key
  OBVIOUS
<1>3. IF Needs(route, op) THEN key # None ELSE key = None
  <2>1. key \in IF requireIdempotencyKey(op) THEN ClientKeys ELSE {None}
    BY <1>1 DEF Received
  <2>2. requireIdempotencyKey(op) <=> Needs(route, op)
    BY DEF requireIdempotencyKey, Needs
  <2>. QED  BY <2>1, <2>2, GatewayAssumption
<1>4. Moves(r, rq, s, "open", 0, v) /\ commits' = commits
  BY <1>1, Updated DEF dispatchApiRequest, Received, Moves, GatewayInv, OverClients
<1>. HIDE DEF rq
<1>5. RowOK(commits, route, rq, s, "open", 0, v)
  BY <1>2, <1>3, RowReceived DEF GatewayInv
<1>. HIDE DEF s, v
<1>. QED  BY <1>4, <1>5, SameLog, MovesKeep DEF GatewayInv

LEMMA DoorKeeps == ASSUME GatewayInv, NEW r \in Clients, RefuseAtTheDoor(r) PROVE GatewayInv'
<1>1. PICK op \in Operations, key \in ClientKeys \cup {None} : Received(r, op, key, 0)
  BY DEF RefuseAtTheDoor
<1>. DEFINE rq == [op |-> op, key |-> key, expected |-> 0]
            s == <<>>
<1>2. Moves(r, rq, s, "refused", 0, s) /\ commits' = commits
  BY <1>1, Updated DEF RefuseAtTheDoor, Received, Moves, GatewayInv, OverClients
<1>3. RowOK(commits, route, rq, s, "refused", 0, s)
  BY DEF RowOK, Live, Unanswered
<1>. HIDE DEF rq, s
<1>. QED  BY <1>2, <1>3, SameLog, MovesKeep DEF GatewayInv

(* A write: a new commit, or a key that was known.                          *)
LEMMA CommitCarried ==
  ASSUME GatewayInv, NEW r \in Clients, NEW c \in Calls(r), Commits(r, c)
  PROVE  /\ c.do \in Written /\ LogOK(commits') /\ Extends(commits, commits')
         /\ \E o : Sets(own, own', r, o) /\ Carried(commits', request[r], own[r], c, o)
<1>1. c.do \in Written /\ LogOK(commits) /\ DOMAIN own = Clients
  BY DEF Commits, GatewayInv, OverClients
<1>2. CASE c.do \in {"entry", "keyed"} /\ CommitOfKey(request[r].key) # {}
  <2>1. Replays(r, c.event) /\ own' = own /\ commits' = commits
    BY <1>2 DEF Commits
  <2>2. Carried(commits', request[r], own[r], c, own[r])
    BY <1>2, <2>1, Terms DEF Carried
  <2>. QED  BY <1>1, <2>1, <2>2, SameLog, Updated
<1>3. CASE ~ (c.do \in {"entry", "keyed"} /\ CommitOfKey(request[r].key) # {})
  <2>. DEFINE e == [tables |-> c.tables, event |-> Effect(c), key |-> request[r].key]
              log2 == commits'
              o == Len(log2)
  <2>1. log2 = Append(commits, e) /\ own' = [own EXCEPT ![r] = o]
    BY <1>3 DEF Commits, Commit
  <2>2. e.tables = c.tables /\ e.key = request[r].key /\ (c.event \notin {"removed", "restored"} => e.event = c.event)
    BY DEF Effect
  <2>3. KeyIn(commits, request[r].key) = {}
    <3>1. CASE CommitOfKey(request[r].key) = {}
      BY <3>1, Terms
    <3>2. CASE c.do \notin {"entry", "keyed"}
      <4>1. ~ Needs(route, request[r].op)
        BY <1>1, <3>2, CalledNow, KeyedHere DEF KeyedWrite
      <4>. QED  BY <4>1, CalledNow DEF KeyIn
    <3>. QED  BY <1>3, <3>1, <3>2
  <2>. HIDE DEF e, log2
  <2>4. LogOK(log2) /\ Extends(commits, log2) /\ o \in DOMAIN log2 /\ log2[o] = e /\ o # 0
    BY <1>1, <2>1, <2>2, <2>3, AppendExtends
  <2>5. Carried(log2, request[r], own[r], c, o)
    BY <2>2, <2>4 DEF Carried
  <2>6. Sets(own, own', r, o)
    BY <1>1, <2>1, Updated
  <2>. QED  BY <1>1, <2>4, <2>5, <2>6 DEF log2
<1>. QED  BY <1>2, <1>3

LEMMA ServeKeeps == ASSUME GatewayInv, NEW r \in Clients, NEW c \in Calls(r), Serve(r, c) PROVE GatewayInv'
<1>1. /\ c.do \in Written /\ LogOK(commits') /\ Extends(commits, commits')
  BY CommitCarried DEF Serve
<1>2. PICK o : Sets(own, own', r, o) /\ Carried(commits', request[r], own[r], c, o)
  BY CommitCarried DEF Serve
<1>3. /\ result[r] \in Unanswered /\ todo[r] # <<>> /\ c \in Head(todo[r]) /\ RowInv(r)
  BY CalledNow
<1>4. RowOK(commits', route, request[r], todo[r], result[r], own[r], view[r])
  BY <1>1, <1>3, RowStable DEF RowInv, GatewayInv
<1>. DEFINE s == Rest(todo[r], c)
            v == Viewed(view[r], c, commits')
            res == IF c.do = "keyed" /\ result[r] = "open" THEN "storing" ELSE result[r]
<1>5. RowOK(commits', route, request[r], s, res, o, v)
  BY <1>1, <1>2, <1>3, <1>4, RowServed
<1>6. Sets(request, request', r, request[r]) /\ Sets(todo, todo', r, s)
      /\ Sets(result, result', r, res) /\ Sets(view, view', r, v) /\ route' = route
  BY Terms, ViewTerm, Updated DEF Serve, GatewayInv, OverClients
<1>. HIDE DEF s, v, res
<1>7. Moves(r, request[r], s, res, o, v)
  BY <1>2, <1>6 DEF Moves
<1>. QED  BY <1>1, <1>5, <1>7, MovesKeep

LEMMA LostKeeps == ASSUME GatewayInv, NEW r \in Clients, NEW c \in Calls(r), AnswerLost(r, c) PROVE GatewayInv'
<1>1. LogOK(commits') /\ Extends(commits, commits')
  BY CommitCarried DEF AnswerLost
<1>2. PICK o : Sets(own, own', r, o)
  BY CommitCarried DEF AnswerLost
<1>3. PICK res \in {"failed", "conflict"} : result' = [result EXCEPT ![r] = res]
  BY DEF AnswerLost, Fails
<1>. DEFINE s == <<>>
<1>4. Moves(r, request[r], s, res, o, view[r])
  BY <1>2, <1>3, Updated DEF AnswerLost, Fails, Moves, GatewayInv, OverClients
<1>. HIDE DEF s
<1>. QED  BY <1>1, <1>4, RowFailed, MovesKeep

LEMMA NextKeeps == GatewayInv /\ [GatewayNext]_gatewayVars => GatewayInv'
<1>. SUFFICES ASSUME GatewayInv, [GatewayNext]_gatewayVars PROVE GatewayInv'
  OBVIOUS
<1>1. CASE UNCHANGED gatewayVars
  BY <1>1 DEF gatewayVars, GatewayInv, OverClients, RowInv
<1>2. ASSUME NEW r \in Clients, dispatchApiRequest(r) \/ RefuseAtTheDoor(r) \/ CallFails(r) \/ Answer(r)
      PROVE  GatewayInv'
  BY <1>2, DispatchKeeps, DoorKeeps, FailKeeps, AnswerKeeps
<1>3. ASSUME NEW r \in Clients, NEW c \in Calls(r),
             \/ Pass(r, c) \/ replayRebalanceRequest(r, c) \/ expireForReapproval(r, c)
             \/ Refuse(r, c) \/ Serve(r, c) \/ AnswerLost(r, c)
      PROVE  GatewayInv'
  BY <1>3, PassKeeps, ReplayKeeps, ExpireKeeps, RefuseKeeps, ServeKeeps, LostKeeps
<1>. QED  BY <1>1, <1>2, <1>3 DEF GatewayNext

-----------------------------------------------------------------------------
(* What the invariant says of answers.                                      *)

LEMMA SoundAnswers == GatewayInv => AnswersTellEffects
<1>. SUFFICES ASSUME GatewayInv PROVE AnswersTellEffects
  OBVIOUS
<1>1. ASSUME NEW k \in ClientKeys PROVE Cardinality(CommitOfKey(k)) <= 1
  <2>1. \A c, d \in CommitOfKey(k) : c = d
    BY DEF GatewayInv, LogOK, CommitOfKey, KeyIn
  <2>2. CASE CommitOfKey(k) = {}
    BY <2>2, FS_EmptySet
  <2>3. ASSUME NEW c \in CommitOfKey(k) PROVE Cardinality(CommitOfKey(k)) <= 1
    <3>1. CommitOfKey(k) = {c}
      BY <2>1
    <3>. QED  BY <3>1, FS_Singleton
  <2>. QED  BY <2>2, <2>3
<1>2. ASSUME NEW r \in Clients
      PROVE  /\ result[r] = "refused" => own[r] = 0
             /\ result[r] = "done" /\ HasWrite(Program(request[r].op))
                  => own[r] # 0 \/ Replays(r, Expected(request[r].op))
             /\ result[r] = "reapproval" => Replays(r, "expired")
  <2>1. RowInv(r)
    BY DEF GatewayInv
  <2>2. CASE result[r] \in {"done", "reapproval"}
    <3>1. /\ TodoOK(commits, route, request[r], todo[r], result[r], own[r])
          /\ ToldOK(commits, route, request[r], todo[r], result[r], own[r])
      BY <2>1, <2>2 DEF RowInv, RowOK, Live
    <3>2. ~ HasWrite(todo[r])
      BY <2>2, <3>1, NothingToCall DEF TodoOK
    <3>3. Mutating(route, request[r].op) <=> HasWrite(Program(request[r].op))
      BY DEF Mutating, ProgramOf, Program
    <3>. QED  BY <2>2, <3>1, <3>2, <3>3, Terms DEF ToldOK
  <2>. QED  BY <2>1, <2>2 DEF RowInv, RowOK
<1>. QED  BY <1>1, <1>2 DEF AnswersTellEffects, HasWrite, CallsOf

LEMMA WholeAnswers == GatewayInv => AnswersAreWhole
<1>. SUFFICES ASSUME GatewayInv, NEW r \in Clients, result[r] \in {"done", "reapproval"}
     PROVE  /\ RunRows \in DOMAIN view[r] =>
                 \A t \in Details : \A c \in CommitsOf(t) :
                   c <= view[r][RunRows] => t \in DOMAIN view[r] /\ view[r][t] >= c
            /\ \A c \in {own[r]} \cup CommitOfKey(request[r].key) : c # 0 =>
                 \A t \in commits[c].tables \cap DOMAIN view[r] : view[r][t] >= c
  BY DEF AnswersAreWhole
<1>1. /\ TodoOK(commits, route, request[r], todo[r], result[r], own[r])
      /\ ShownOK(commits, request[r], todo[r], own[r], view[r])
  BY DEF GatewayInv, RowInv, RowOK, Live
<1>2. CallsOf(todo[r]) = {}
  BY <1>1, NothingToCall DEF TodoOK
<1>3. \A t : CommitsOf(t) = CommitsIn(commits, t)
  BY DEF CommitsOf, CommitsIn
<1>4. CommitOfKey(request[r].key) = KeyIn(commits, request[r].key)
  BY Terms
<1>. QED  BY <1>1, <1>2, <1>3, <1>4 DEF ShownOK, Covers

(* In every behaviour, for any clients, keys, routes and failures: what an  *)
(* answer says happened has happened, a refusal left nothing, a key has one *)
(* commit, the answer about a plan holds all that was committed with the    *)
(* state it shows, and every answer shows what its request did.             *)
THEOREM AnswersAreTrueAlways == GatewaySpec => []AnswersAreTrue
<1>1. GatewayInv => AnswersAreTrue
  BY SoundAnswers, WholeAnswers DEF AnswersAreTrue
<1>. QED  BY InitSound, NextKeeps, <1>1, PTL DEF GatewaySpec

-----------------------------------------------------------------------------
(* The limit of active alerts.  Each request that has passed the count and  *)
(* not yet inserted may add one: active alerts and such requests together   *)
(* stay below the limit and the number of slots.                            *)

Numbered(log, t, e) == {c \in CommitsIn(log, t) : log[c].event = e}
NumberIn(log, t, e) == Cardinality(Numbered(log, t, e))
ActiveIn(log, t) == NumberIn(log, t, "added") - (NumberIn(log, t, "removed") - NumberIn(log, t, "restored"))
Passing(res, s) ==
  /\ res \in Unanswered
  /\ \E c \in CallsOf(s) : Inserts(c)
  /\ CountBelow("price_alerts") \notin CallsOf(s)
Passed == {r \in Clients : Passing(result[r], todo[r])}
LimitInv == ActiveIn(commits, "price_alerts") + Cardinality(Passed) <= MaxActive - 1 + Cardinality(Clients)

LEMMA ActiveTerm == \A t : Active(t) = ActiveIn(commits, t)
BY DEF Active, Removed, Number, ActiveIn, NumberIn, Numbered, CommitsOf, CommitsIn

LEMMA NumberIsNatural == ASSUME NEW log, LogOK(log), NEW t, NEW e
  PROVE IsFiniteSet(Numbered(log, t, e)) /\ NumberIn(log, t, e) \in Nat
<1>. DEFINE X == Numbered(log, t, e)
<1>1. X \subseteq 1..Len(log) /\ Len(log) \in Nat
  BY LogDomain DEF CommitsIn, Numbered
<1>2. IsFiniteSet(1..Len(log))
  BY <1>1, FS_Interval
<1>3. IsFiniteSet(X)
  BY <1>1, <1>2, FS_Subset
<1>4. Cardinality(X) \in Nat
  BY <1>3, FS_CardinalityType
<1>. QED  BY <1>3, <1>4 DEF NumberIn

OneIf(d, t, e) == IF t \in d.tables /\ d.event = e THEN 1 ELSE 0

LEMMA NumberGrows ==
  ASSUME NEW log, LogOK(log), NEW d, NEW t, NEW e
  PROVE  NumberIn(Append(log, d), t, e) = NumberIn(log, t, e) + OneIf(d, t, e)
<1>. DEFINE n == Len(log) + 1
            log2 == Append(log, d)
            X == Numbered(log, t, e)
            Y == Numbered(log2, t, e)
<1>1. PICK S : log \in Seq(S)
  BY DEF LogOK
<1>2. /\ DOMAIN log2 = 1..n /\ DOMAIN log = 1..Len(log) /\ Len(log) \in Nat
      /\ (\A i \in DOMAIN log : log2[i] = log[i]) /\ log2[n] = d
  <2>1. log \in Seq(S \cup {d}) /\ d \in S \cup {d}
    BY <1>1
  <2>. QED  BY <2>1
<1>3. n \in DOMAIN log2 /\ n \notin DOMAIN log /\ \A i \in DOMAIN log2 : i \in DOMAIN log \/ i = n
  BY <1>2
<1>. HIDE DEF n, log2
<1>4. Y = X \cup (IF t \in d.tables /\ d.event = e THEN {n} ELSE {})
  <2>1. \A i \in DOMAIN log : i \in DOMAIN log2
    BY <1>2 DEF n, log2
  <2>2. \A i : i \in Y <=> i \in X \/ (i = n /\ t \in d.tables /\ d.event = e)
    BY <1>2, <1>3, <2>1 DEF CommitsIn, Numbered
  <2>. QED  BY <2>2
<1>5. n \notin X
  BY <1>3 DEF CommitsIn, Numbered
<1>6. IsFiniteSet(X) /\ Cardinality(X) \in Nat
  BY NumberIsNatural DEF NumberIn
<1>. HIDE DEF X, Y
<1>7. Cardinality(Y) = Cardinality(X) + IF t \in d.tables /\ d.event = e THEN 1 ELSE 0
  <2>1. CASE t \in d.tables /\ d.event = e
    <3>1. Y = X \cup {n}
      BY <1>4, <2>1
    <3>. QED  BY <1>5, <1>6, <2>1, <3>1, FS_AddElement
  <2>2. CASE ~ (t \in d.tables /\ d.event = e)
    <3>1. Y = X
      BY <1>4, <2>2
    <3>. QED  BY <1>6, <2>2, <3>1
  <2>. QED  BY <2>1, <2>2
<1>. QED  BY <1>7 DEF NumberIn, X, Y, OneIf, log2

(* Only the insert of an alert makes them more.                             *)
LEMMA ActiveGrows ==
  ASSUME GatewayInv, NEW r \in Clients, NEW c \in Calls(r), Commits(r, c)
  PROVE  \/ ActiveIn(commits', "price_alerts") <= ActiveIn(commits, "price_alerts")
         \/ Inserts(c) /\ ActiveIn(commits', "price_alerts") = ActiveIn(commits, "price_alerts") + 1
<1>. DEFINE t == "price_alerts"
<1>1. LogOK(commits) /\ c.do \in Written
  BY DEF GatewayInv, Commits
<1>2. /\ NumberIn(commits, t, "added") \in Nat /\ NumberIn(commits, t, "removed") \in Nat
      /\ NumberIn(commits, t, "restored") \in Nat
  BY <1>1, NumberIsNatural
<1>3. CASE commits' = commits
  BY <1>2, <1>3 DEF ActiveIn
<1>4. CASE commits' = Commit(request[r].key, c)
  <2>. DEFINE e == [tables |-> c.tables, event |-> Effect(c), key |-> request[r].key]
  <2>1. /\ e.tables = c.tables /\ e.event \in {c.event, "changed"}
    BY DEF Effect
  <2>2. commits' = Append(commits, e)
    BY <1>4 DEF Commit
  <2>. HIDE DEF e, t
  <2>3. ASSUME NEW ev
        PROVE  NumberIn(commits', t, ev) = NumberIn(commits, t, ev) + OneIf(e, t, ev)
    <3>1. NumberIn(Append(commits, e), t, ev) = NumberIn(commits, t, ev) + OneIf(e, t, ev)
      BY <1>1, NumberGrows
    <3>. QED  BY <2>2, <3>1
  <2>4. ~ (t \in e.tables /\ e.event = "restored")
    <3>1. CASE Needs(route, request[r].op)
      <4>1. c.event = Due(request[r], result[r])
        BY <1>1, <3>1, CalledNow, KeyedHere DEF KeyedWrite
      <4>2. c.event # "restored"
        BY <4>1, DueIsKept DEF Due
      <4>. QED  BY <2>1, <4>2
    <3>2. CASE ~ Needs(route, request[r].op)
      <4>1. KeylessWrite(c)
        BY <1>1, <3>2, CalledNow, KeyedHere
      <4>. QED  BY <2>1, <4>1 DEF KeylessWrite, t
    <3>. QED  BY <3>1, <3>2
  <2>5. NumberIn(commits', t, "restored") = NumberIn(commits, t, "restored")
    BY <1>2, <2>3, <2>4 DEF OneIf
  <2>6. NumberIn(commits', t, "removed") \in Nat /\ NumberIn(commits', t, "removed") >= NumberIn(commits, t, "removed")
    BY <1>2, <2>3 DEF OneIf
  <2>7. CASE t \in e.tables /\ e.event = "added"
    <3>1. Inserts(c)
      BY <1>1, <2>1, <2>7 DEF Inserts, t
    <3>2. NumberIn(commits', t, "added") = NumberIn(commits, t, "added") + 1
      BY <2>3, <2>7 DEF OneIf
    <3>3. NumberIn(commits', t, "removed") = NumberIn(commits, t, "removed")
      BY <1>2, <2>3, <2>7 DEF OneIf
    <3>. QED  BY <1>2, <2>5, <3>1, <3>2, <3>3 DEF ActiveIn, t
  <2>8. CASE ~ (t \in e.tables /\ e.event = "added")
    <3>1. NumberIn(commits', t, "added") = NumberIn(commits, t, "added")
      BY <1>2, <2>3, <2>8 DEF OneIf
    <3>. QED  BY <1>2, <2>5, <2>6, <3>1 DEF ActiveIn, t
  <2>. QED  BY <2>7, <2>8
<1>. QED  BY <1>3, <1>4 DEF Commits

LEMMA PassedIsFinite == /\ IsFiniteSet(Clients) /\ Cardinality(Clients) \in Nat
                        /\ \A X : X \subseteq Clients => /\ IsFiniteSet(X) /\ Cardinality(X) \in Nat
                                                         /\ Cardinality(X) <= Cardinality(Clients)
<1>1. IsFiniteSet(Clients)
  BY GatewayAssumption
<1>2. ASSUME NEW X, X \subseteq Clients
      PROVE  IsFiniteSet(X) /\ Cardinality(X) \in Nat /\ Cardinality(X) <= Cardinality(Clients)
  BY <1>1, <1>2, FS_Subset, FS_CardinalityType
<1>. QED  BY <1>1, <1>2, FS_CardinalityType

(* A step of a request that has not passed the count before it does by it.  *)
LEMMA PassedKept ==
  ASSUME NEW r \in Clients, NEW s, NEW res, Sets(todo, todo', r, s), Sets(result, result', r, res)
  PROVE  /\ Passing(res, s) => r \in Passed \/ ~ Passing(result[r], todo[r])
         /\ (Passing(res, s) => Passing(result[r], todo[r])) => Passed' \subseteq Passed
         /\ ~ Passing(res, s) => Passed' \subseteq Passed \ {r}
BY DEF Passed, Sets, Passing

(* The insert of an alert is made by a request that has passed the count.   *)
LEMMA InsertsPassed ==
  ASSUME GatewayInv, NEW r \in Clients, NEW c \in Calls(r), Inserts(c)
  PROVE  r \in Passed
<1>1. /\ result[r] \in Unanswered /\ todo[r] # <<>> /\ c \in Head(todo[r]) /\ c \in CallsOf(todo[r]) /\ RowInv(r)
  BY CalledNow
<1>. DEFINE u == Rest(todo[r], c)
<1>. HIDE DEF u
<1>2. TodoOK(commits, route, request[r], todo[r], result[r], own[r])
  BY <1>1 DEF RowInv, RowOK, Live
<1>3. Remains(todo[r], c, u)
  BY <1>1, <1>2, RestRemains DEF TodoOK, u
<1>4. AllShow(u)
  BY <1>2, <1>3, RestOrdered DEF TodoOK, Inserts
<1>5. CountBelow("price_alerts").do = "count"
  BY Kinds
<1>6. CountBelow("price_alerts") \notin CallsOf(u)
  BY <1>4, <1>5, SelectKind DEF AllShow
<1>7. CountBelow("price_alerts") # c
  BY <1>5 DEF Inserts, Written
<1>8. CountBelow("price_alerts") \notin CallsOf(todo[r])
  BY <1>3, <1>6, <1>7, RestCalls
<1>. QED  BY <1>1, <1>8 DEF Passed, Passing

(* What keeps the sum: nobody else passes; a count below the limit; or a    *)
(* commit of a request that is then done with its write.                    *)
LEMMA ActiveIsInteger == GatewayInv => ActiveIn(commits, "price_alerts") \in Int
BY NumberIsNatural DEF GatewayInv, ActiveIn

LEMMA NobodyPasses == ASSUME GatewayInv, LimitInv, commits' = commits, Passed' \subseteq Passed PROVE LimitInv'
<1>. DEFINE a == ActiveIn(commits, "price_alerts")
            p == Passed
            q == Passed'
<1>1. a \in Int /\ Cardinality(Clients) \in Nat /\ MaxActive \in Nat /\ ActiveIn(commits', "price_alerts") = a
  BY ActiveIsInteger, PassedIsFinite, GatewayAssumption
<1>2. p \subseteq Clients /\ q \subseteq p
  BY DEF Passed
<1>3. IsFiniteSet(p) /\ Cardinality(p) \in Nat
  BY <1>2, PassedIsFinite
<1>. HIDE DEF p, q
<1>4. Cardinality(q) \in Nat /\ Cardinality(q) <= Cardinality(p)
  BY <1>2, <1>3, FS_Subset, FS_CardinalityType
<1>5. a + Cardinality(p) <= MaxActive - 1 + Cardinality(Clients)
  BY DEF LimitInv, p
<1>. HIDE DEF a
<1>6. a + Cardinality(q) <= MaxActive - 1 + Cardinality(Clients)
  BY <1>1, <1>3, <1>4, <1>5
<1>. QED  BY <1>1, <1>6 DEF LimitInv, q

LEMMA BelowTheLimit ==
  ASSUME GatewayInv, commits' = commits, Active("price_alerts") < MaxActive PROVE LimitInv'
<1>. DEFINE a == ActiveIn(commits, "price_alerts")
            q == Passed'
<1>1. a \in Int /\ Cardinality(Clients) \in Nat /\ MaxActive \in Nat /\ ActiveIn(commits', "price_alerts") = a /\ a < MaxActive
  BY ActiveIsInteger, ActiveTerm, PassedIsFinite, GatewayAssumption
<1>2. q \subseteq Clients
  BY DEF Passed
<1>3. Cardinality(q) \in Nat /\ Cardinality(q) <= Cardinality(Clients)
  BY <1>2, PassedIsFinite
<1>. HIDE DEF a, q
<1>4. a + Cardinality(q) <= MaxActive - 1 + Cardinality(Clients)
  BY <1>1, <1>3
<1>. QED  BY <1>1, <1>4 DEF LimitInv, q

LEMMA CommitsStayBelow ==
  ASSUME GatewayInv, GatewayInv', LimitInv, NEW r \in Clients, NEW c \in Calls(r), Commits(r, c), Passed' \subseteq Passed \ {r}
  PROVE  LimitInv'
<1>. DEFINE a == ActiveIn(commits, "price_alerts")
            b == ActiveIn(commits', "price_alerts")
            p == Passed
            q == Passed'
<1>1. a \in Int /\ b \in Int /\ Cardinality(Clients) \in Nat /\ MaxActive \in Nat
  <2>1. b \in Int
    BY NumberIsNatural DEF GatewayInv, ActiveIn
  <2>. QED  BY <2>1, ActiveIsInteger, PassedIsFinite, GatewayAssumption
<1>2. b <= a \/ (b = a + 1 /\ r \in p)
  BY ActiveGrows, InsertsPassed
<1>3. p \subseteq Clients /\ q \subseteq p \ {r}
  BY DEF Passed
<1>4. a + Cardinality(p) <= MaxActive - 1 + Cardinality(Clients)
  BY DEF LimitInv
<1>. HIDE DEF a, b, p, q
<1>5. IsFiniteSet(p) /\ Cardinality(p) \in Nat
  BY <1>3, PassedIsFinite
<1>6. IsFiniteSet(p \ {r}) /\ Cardinality(p \ {r}) = IF r \in p THEN Cardinality(p) - 1 ELSE Cardinality(p)
  BY <1>5, FS_RemoveElement
<1>7. Cardinality(q) \in Nat /\ Cardinality(q) <= Cardinality(p \ {r})
  BY <1>3, <1>6, FS_Subset, FS_CardinalityType
<1>8. b + Cardinality(q) <= MaxActive - 1 + Cardinality(Clients)
  <2>1. CASE b <= a
    <3>1. Cardinality(q) <= Cardinality(p)
      BY <1>5, <1>6, <1>7
    <3>. QED  BY <1>1, <1>4, <1>5, <1>7, <2>1, <3>1
  <2>2. CASE b = a + 1 /\ r \in p
    <3>1. Cardinality(q) <= Cardinality(p) - 1
      BY <1>6, <1>7, <2>2
    <3>. QED  BY <1>1, <1>4, <1>5, <1>7, <2>2, <3>1
  <2>. QED  BY <1>2, <2>1, <2>2
<1>. QED  BY <1>8 DEF LimitInv, b, q

LEMMA LimitBegins == GatewayInit => LimitInv
<1>. SUFFICES ASSUME GatewayInit PROVE LimitInv
  OBVIOUS
<1>1. \A e : Numbered(commits, "price_alerts", e) = {}
  BY DEF GatewayInit, Numbered, CommitsIn
<1>2. \A e : NumberIn(commits, "price_alerts", e) = 0
  BY <1>1, FS_EmptySet DEF NumberIn
<1>3. ActiveIn(commits, "price_alerts") = 0
  BY <1>2 DEF ActiveIn
<1>4. Passed = {}
  BY DEF GatewayInit, Passed, Passing, Unanswered
<1>5. Cardinality(Passed) = 0
  BY <1>4, FS_EmptySet
<1>6. 0 + 0 <= MaxActive - 1 + Cardinality(Clients)
  BY PassedIsFinite, GatewayAssumption
<1>. QED  BY <1>3, <1>5, <1>6 DEF LimitInv

(* Programs begin before the count, and what replaces them inserts nothing. *)
LEMMA BeginsBeforeTheCount ==
  ASSUME route \in DOMAIN apiRoutes, NEW op \in Operations PROVE ~ Passing("open", Program(op))
<1>. DEFINE s == Program(op)
<1>1. Sound(op, s)
  BY ProgramSound
<1>. HIDE DEF s
<1>2. ASSUME Reading(s, Plain) PROVE ~ Passing("open", s)
  BY <1>2, ReadOrdered, AskKinds DEF Passing, Inserts
<1>3. ASSUME NEW w, Writing(s, w, Plain), Inserts(w) => CountBelow("price_alerts") \in CallsOf(s)
      PROVE  ~ Passing("open", s)
  <2>1. \A c \in CallsOf(s) : c.do \in Written => c = w
    BY <1>3, SelectKind DEF Writing, Plain, Written
  <2>. QED  BY <1>3, <2>1 DEF Passing, Inserts
<1>4. ASSUME NEW w, Writing(s, w, Asks), KeyedWrite(w, Expected(op))
      PROVE  ~ Passing("open", s)
  <2>1. \A c \in CallsOf(s) : c.do \in Written => c = w
    BY <1>4, SelectKind DEF Writing, Asks, Plain, Written
  <2>2. w.event # "added"
    BY <1>4, DueIsKept DEF KeyedWrite
  <2>. QED  BY <2>1, <2>2 DEF Passing, Inserts
<1>5. ~ Passing("open", s)
  <2>1. CASE \E w : Writing(s, w, Plain) /\ (Inserts(w) => CountBelow("price_alerts") \in CallsOf(s))
    BY <1>3, <2>1
  <2>2. CASE \E w : Writing(s, w, Asks) /\ KeyedWrite(w, Expected(op))
    BY <1>4, <2>2
  <2>. QED  BY <1>1, <1>2, <2>1, <2>2 DEF Sound
<1>. QED  BY <1>5 DEF s

LEMMA ReplacedInsertNothing ==
  ASSUME NEW res
  PROVE  /\ ~ Passing(res, getPortfolioRebalanceRun)
         /\ ~ Passing(res, transitionPortfolioRebalanceRun("expired"))
<1>1. \A c \in CallsOf(getPortfolioRebalanceRun) : c.do = "select"
  BY ReplayShows, SelectKind DEF Reading
<1>2. PICK w : Writing(transitionPortfolioRebalanceRun("expired"), w, {}) /\ KeyedWrite(w, "expired")
  BY ExpiryWrites
<1>3. \A c \in CallsOf(transitionPortfolioRebalanceRun("expired")) : c = w \/ c.do = "select"
  BY <1>2, SelectKind DEF Writing
<1>. QED  BY <1>1, <1>2, <1>3 DEF Passing, Inserts, KeyedWrite, Written

LEMMA NotPassing == ASSUME NEW res, res \notin Unanswered, NEW s PROVE ~ Passing(res, s)
BY DEF Passing

(* After its write a request passes nothing; before it, only by the count.  *)
LEMMA RestPassing ==
  ASSUME GatewayInv, NEW r \in Clients, NEW c \in Calls(r), NEW res
  PROVE  /\ c.do \in Written => ~ Passing(res, Rest(todo[r], c))
         /\ Passing(res, Rest(todo[r], c)) => Passing(result[r], todo[r]) \/ c = CountBelow("price_alerts")
<1>. DEFINE u == Rest(todo[r], c)
<1>. HIDE DEF u
<1>1. /\ result[r] \in Unanswered /\ todo[r] # <<>> /\ c \in Head(todo[r]) /\ RowInv(r)
  BY CalledNow
<1>2. TodoOK(commits, route, request[r], todo[r], result[r], own[r])
  BY <1>1 DEF RowInv, RowOK, Live
<1>3. Remains(todo[r], c, u)
  BY <1>1, <1>2, RestRemains DEF TodoOK, u
<1>4. CallsOf(u) \subseteq CallsOf(todo[r]) /\ CallsOf(todo[r]) \subseteq CallsOf(u) \cup {c}
  BY <1>3, RestCalls
<1>5. c.do \in Written => AllShow(u)
  BY <1>2, <1>3, RestOrdered DEF TodoOK
<1>6. c.do \in Written => ~ Passing(res, u)
  BY <1>5, SelectKind DEF AllShow, Passing, Inserts, Written
<1>7. Passing(res, u) => Passing(result[r], todo[r]) \/ c = CountBelow("price_alerts")
  BY <1>1, <1>4 DEF Passing
<1>. QED  BY <1>6, <1>7 DEF u

LEMMA LimitKept == GatewayInv /\ GatewayInv' /\ LimitInv /\ [GatewayNext]_gatewayVars => LimitInv'
<1>. SUFFICES ASSUME GatewayInv, GatewayInv', LimitInv, [GatewayNext]_gatewayVars PROVE LimitInv'
  OBVIOUS
<1>. USE DEF GatewayInv, OverClients
<1>1. CASE UNCHANGED gatewayVars
  BY <1>1 DEF gatewayVars, LimitInv, Passed
<1>2. ASSUME NEW r \in Clients, dispatchApiRequest(r) PROVE LimitInv'
  <2>1. PICK op \in Operations : todo' = [todo EXCEPT ![r] = Program(op)]
    BY <1>2 DEF dispatchApiRequest
  <2>2. result' = [result EXCEPT ![r] = "open"] /\ commits' = commits
    BY <1>2 DEF dispatchApiRequest
  <2>3. Passed' \subseteq Passed
    BY <2>1, <2>2, Updated, PassedKept, BeginsBeforeTheCount
  <2>. QED  BY <2>2, <2>3, NobodyPasses
<1>3. ASSUME NEW r \in Clients, RefuseAtTheDoor(r) \/ CallFails(r) PROVE LimitInv'
  <2>1. PICK res \in {"refused", "failed", "conflict"} : result' = [result EXCEPT ![r] = res]
    BY <1>3 DEF RefuseAtTheDoor, CallFails, Fails
  <2>. DEFINE s == <<>>
  <2>2. todo' = [todo EXCEPT ![r] = s] /\ commits' = commits
    BY <1>3 DEF RefuseAtTheDoor, CallFails, Fails
  <2>3. res \notin Unanswered
    BY DEF Unanswered
  <2>. HIDE DEF s
  <2>4. Passed' \subseteq Passed
    BY <2>1, <2>2, <2>3, Updated, PassedKept, NotPassing
  <2>. QED  BY <2>2, <2>4, NobodyPasses
<1>4. ASSUME NEW r \in Clients, Answer(r) PROVE LimitInv'
  <2>. DEFINE res == IF result[r] \in {"open", "storing"} THEN "done" ELSE "reapproval"
  <2>1. result' = [result EXCEPT ![r] = res] /\ todo' = todo /\ commits' = commits
    BY <1>4 DEF Answer
  <2>2. res \notin Unanswered
    BY DEF Unanswered
  <2>. HIDE DEF res
  <2>3. Passed' \subseteq Passed
    BY <2>1, <2>2, Updated, PassedKept, NotPassing
  <2>. QED  BY <2>1, <2>3, NobodyPasses
<1>5. ASSUME NEW r \in Clients, NEW c \in Calls(r), Pass(r, c) PROVE LimitInv'
  <2>1. Sets(todo, todo', r, Rest(todo[r], c)) /\ Sets(result, result', r, result[r]) /\ commits' = commits
    BY <1>5, Terms, Updated DEF Pass
  <2>2. CASE c = CountBelow("price_alerts")
    <3>1. c.do = "count" /\ c.tables = {"price_alerts"}
      BY <2>2, CallFields DEF CountBelow
    <3>2. Active("price_alerts") < MaxActive
      BY <1>5, <3>1 DEF Pass
    <3>. QED  BY <2>1, <3>2, BelowTheLimit
  <2>3. CASE c # CountBelow("price_alerts")
    <3>1. Passed' \subseteq Passed
      BY <2>1, <2>3, PassedKept, RestPassing
    <3>. QED  BY <2>1, <3>1, NobodyPasses
  <2>. QED  BY <2>2, <2>3
<1>6. ASSUME NEW r \in Clients, NEW c \in Calls(r), replayRebalanceRequest(r, c) PROVE LimitInv'
  <2>1. PICK res \in {"repeating", "open"} : result' = [result EXCEPT ![r] = res]
    BY <1>6 DEF replayRebalanceRequest
  <2>2. todo' = [todo EXCEPT ![r] = getPortfolioRebalanceRun] /\ commits' = commits
    BY <1>6 DEF replayRebalanceRequest
  <2>3. Passed' \subseteq Passed
    BY <2>1, <2>2, Updated, PassedKept, ReplacedInsertNothing
  <2>. QED  BY <2>2, <2>3, NobodyPasses
<1>7. ASSUME NEW r \in Clients, NEW c \in Calls(r), expireForReapproval(r, c) PROVE LimitInv'
  <2>1. /\ result' = [result EXCEPT ![r] = "reapproving"]
        /\ todo' = [todo EXCEPT ![r] = transitionPortfolioRebalanceRun("expired")] /\ commits' = commits
    BY <1>7 DEF expireForReapproval
  <2>2. Passed' \subseteq Passed
    BY <2>1, Updated, PassedKept, ReplacedInsertNothing
  <2>. QED  BY <2>1, <2>2, NobodyPasses
<1>8. ASSUME NEW r \in Clients, NEW c \in Calls(r), Refuse(r, c) PROVE LimitInv'
  <2>. DEFINE s == <<>>
  <2>1. result' = [result EXCEPT ![r] = "refused"] /\ todo' = [todo EXCEPT ![r] = s] /\ commits' = commits
    BY <1>8 DEF Refuse
  <2>2. "refused" \notin Unanswered
    BY DEF Unanswered
  <2>. HIDE DEF s
  <2>3. Passed' \subseteq Passed
    BY <2>1, <2>2, Updated, PassedKept, NotPassing
  <2>. QED  BY <2>1, <2>3, NobodyPasses
<1>9. ASSUME NEW r \in Clients, NEW c \in Calls(r), Serve(r, c) PROVE LimitInv'
  <2>1. Sets(todo, todo', r, Rest(todo[r], c)) /\ c.do \in Written
    BY <1>9, Terms, Updated DEF Serve, Commits
  <2>2. PICK res : Sets(result, result', r, res)
    BY <1>9, Updated DEF Serve
  <2>3. Passed' \subseteq Passed \ {r}
    BY <2>1, <2>2, PassedKept, RestPassing
  <2>. QED  BY <1>9, <2>3, CommitsStayBelow DEF Serve
<1>10. ASSUME NEW r \in Clients, NEW c \in Calls(r), AnswerLost(r, c) PROVE LimitInv'
  <2>1. PICK res \in {"failed", "conflict"} : result' = [result EXCEPT ![r] = res]
    BY <1>10 DEF AnswerLost, Fails
  <2>. DEFINE s == <<>>
  <2>2. todo' = [todo EXCEPT ![r] = s]
    BY <1>10 DEF AnswerLost, Fails
  <2>3. res \notin Unanswered
    BY DEF Unanswered
  <2>. HIDE DEF s
  <2>4. Passed' \subseteq Passed \ {r}
    BY <2>1, <2>2, <2>3, Updated, PassedKept, NotPassing
  <2>. QED  BY <1>10, <2>4, CommitsStayBelow DEF AnswerLost
<1>. QED  BY <1>1, <1>2, <1>3, <1>4, <1>5, <1>6, <1>7, <1>8, <1>9, <1>10 DEF GatewayNext

(* However many requests are served at once, the active alerts exceed their *)
(* limit by no more than their number less one.                             *)
THEOREM ActiveStayNearTheLimitAlways == GatewaySpec => []ActiveStayNearTheLimit
<1>1. GatewayInv /\ LimitInv => ActiveStayNearTheLimit
  <2>. SUFFICES ASSUME GatewayInv, LimitInv PROVE ActiveStayNearTheLimit
    OBVIOUS
  <2>. DEFINE a == ActiveIn(commits, "price_alerts")
              p == Cardinality(Passed)
  <2>1. a \in Int /\ p \in Nat /\ Cardinality(Clients) \in Nat /\ MaxActive \in Nat
    BY ActiveIsInteger, PassedIsFinite, GatewayAssumption DEF Passed
  <2>2. a + p <= MaxActive - 1 + Cardinality(Clients)
    BY DEF LimitInv
  <2>. HIDE DEF a, p
  <2>3. a <= MaxActive - 1 + Cardinality(Clients)
    BY <2>1, <2>2
  <2>. QED  BY <2>3, ActiveTerm DEF ActiveStayNearTheLimit, a
<1>. QED  BY InitSound, NextKeeps, LimitBegins, LimitKept, <1>1, PTL DEF GatewaySpec
=============================================================================
