------------------------ MODULE NoticeSendingProofs ------------------------
(***************************************************************************)
(* What holds of a notice on its way out for any number of users, browsers, *)
(* attempts and subscriptions, whatever is killed or loses its answer.      *)
(***************************************************************************)
EXTENDS NoticeSending, FiniteSetTheorems, TLAPS

\* The way of the notice: what an attempt has counted was taken by a service, and
\* the mail service knows one key only.
Received == mails # {} \/ reached # {}

Attempt(T) == [phase : {"email", "list", "push", "mark"}, todo : T, sent : Nat]

AttemptOK(a) ==
  /\ \E T : a \in Attempt(T)
  /\ a.phase = "mark" \/ a.sent > 0 => Received

OutInv ==
  /\ row \in [status : {"pending", "retry", "processing", "failed", "sent"}, attempts : Nat]
  /\ row.status = "sent" => Received
  /\ attempt # None => AttemptOK(attempt)
  /\ mails \subseteq {channel}

\* The way of the subscriptions: a browser that told its user that push is on still
\* has the subscription it told of.
BrowserType == [user : Users \cup {None}, number : Nat, subscribed : BOOLEAN, told : Users \cup {None}]

Endpoint(b, x) == <<b, x.number>>

ToldOK(b, x, subs) ==
  x.told # None =>
    /\ x.subscribed
    /\ Endpoint(b, x) \in DOMAIN subs /\ subs[Endpoint(b, x)] = x.told

SubscribedInv ==
  /\ browsers \in [Browsers -> BrowserType]
  /\ \A b \in Browsers : ToldOK(b, browsers[b], subscriptions)

-----------------------------------------------------------------------------
(* The notice.                                                              *)

\* An attempt of which one field was replaced.
Changed(b, phase, sent) == (\E T : b \in Attempt(T)) /\ b.phase = phase /\ b.sent = sent

LEMMA PhaseChanged ==
  ASSUME NEW a, \E T : a \in Attempt(T), NEW x \in {"email", "list", "push", "mark"}
  PROVE  Changed([a EXCEPT !.phase = x], x, a.sent)
<1>1. PICK T : a \in Attempt(T)
  OBVIOUS
<1>. DEFINE b == [a EXCEPT !.phase = x]
<1>2. a \in [phase : {"email", "list", "push", "mark"}, todo : T, sent : Nat]
  BY <1>1 DEF Attempt
<1>3. b \in Attempt(T) /\ b.phase = x /\ b.sent = a.sent
  BY <1>2 DEF Attempt
<1>. HIDE DEF b
<1>4. Changed(b, x, a.sent)
  BY <1>3 DEF Changed
<1>. QED  BY <1>4 DEF b

LEMMA TodoChanged ==
  ASSUME NEW a, \E T : a \in Attempt(T), NEW y
  PROVE  Changed([a EXCEPT !.todo = y], a.phase, a.sent)
<1>1. PICK T : a \in Attempt(T)
  OBVIOUS
<1>. DEFINE U == T \cup {y}
            b == [a EXCEPT !.todo = y]
<1>2. y \in U /\ a \in [phase : {"email", "list", "push", "mark"}, todo : U, sent : Nat]
  BY <1>1 DEF Attempt
<1>. HIDE DEF U
<1>3. b \in Attempt(U) /\ b.phase = a.phase /\ b.sent = a.sent
  BY <1>2 DEF Attempt
<1>. HIDE DEF b
<1>4. Changed(b, a.phase, a.sent)
  BY <1>3 DEF Changed
<1>. QED  BY <1>4 DEF b

LEMMA SentChanged ==
  ASSUME NEW a, \E T : a \in Attempt(T), NEW n \in Nat
  PROVE  Changed([a EXCEPT !.sent = n], a.phase, n)
<1>1. PICK T : a \in Attempt(T)
  OBVIOUS
<1>. DEFINE b == [a EXCEPT !.sent = n]
<1>2. a \in [phase : {"email", "list", "push", "mark"}, todo : T, sent : Nat]
  BY <1>1 DEF Attempt
<1>3. b \in Attempt(T) /\ b.phase = a.phase /\ b.sent = n
  BY <1>2 DEF Attempt
<1>. HIDE DEF b
<1>4. Changed(b, a.phase, n)
  BY <1>3 DEF Changed
<1>. QED  BY <1>4 DEF b

LEMMA OutInit == SendingInit => OutInv
BY DEF SendingInit, OutInv, Received

\* A settled row, and no attempt.
LEMMA Settled ==
  ASSUME OutInv, NEW status \in {"pending", "retry", "processing", "failed", "sent"},
         Settle(status), status = "sent" => Received',
         mails' \subseteq {channel}, mails \subseteq mails', reached \subseteq reached',
         channel' = channel
  PROVE  OutInv'
BY DEF OutInv, Settle, Received

LEMMA Failed ==
  ASSUME OutInv, MarkFailure, mails' \subseteq {channel}, mails \subseteq mails',
         reached \subseteq reached', channel' = channel
  PROVE  OutInv'
<1>1. PICK status \in {"retry", "failed"} : Settle(status)
  BY DEF MarkFailure
<1>. QED  BY <1>1, Settled

\* An attempt that goes on.
LEMMA GoesOn ==
  ASSUME OutInv, AttemptOK(attempt)', row' = row,
         mails' \subseteq {channel}, mails \subseteq mails', reached \subseteq reached',
         channel' = channel
  PROVE  OutInv'
BY DEF OutInv, Received, AttemptOK

LEMMA OutStep == OutInv /\ [SendingNext]_sendingVars => OutInv'
<1>. SUFFICES ASSUME OutInv, [SendingNext]_sendingVars PROVE OutInv'
  OBVIOUS
<1>1. CASE UNCHANGED <<channel, outVars>>
  BY <1>1 DEF OutInv, outVars, Received, AttemptOK
<1>2. CASE Claim
  <2>1. PICK phase \in {"email", "list"} :
          /\ attempt' = [phase |-> phase, todo |-> <<>>, sent |-> 0]
          /\ row' = [status |-> "processing", attempts |-> row.attempts + 1]
          /\ mails' = mails /\ reached' = reached /\ channel' = channel
    BY <1>2 DEF Claim, outside
  <2>2. attempt' \in Attempt({<<>>}) /\ attempt'.phase # "mark" /\ attempt'.sent = 0
    BY <2>1 DEF Attempt
  <2>3. AttemptOK(attempt)'
    BY <2>2 DEF AttemptOK
  <2>. QED  BY <2>1, <2>3 DEF OutInv, Received
<1>3. CASE sendEmailMessage
  <2>1. attempt # None /\ AttemptOK(attempt) /\ channel' = channel /\ reached' = reached
        /\ mails' \subseteq {channel} /\ mails \subseteq mails'
    BY <1>3 DEF sendEmailMessage, OutInv, outside, idempotencyKey
  <2>2. CASE MarkFailure
    BY <2>1, <2>2, Failed
  <2>3. CASE /\ mails' = mails \cup {idempotencyKey} /\ row' = row
             /\ attempt' = [attempt EXCEPT !.phase = "mark", !.sent = 1]
    <3>1. mails' # {}
      BY <2>3
    <3>. DEFINE b == [attempt EXCEPT !.phase = "mark"]
                d == [b EXCEPT !.sent = 1]
    <3>2. Changed(b, "mark", attempt.sent)
      BY <2>1, PhaseChanged, Zenon DEF AttemptOK, Changed
    <3>3. attempt' = d
      BY <2>3
    <3>. HIDE DEF b
    <3>4. Changed(d, "mark", 1)
      BY <3>2, SentChanged, Zenon DEF Changed
    <3>. HIDE DEF d
    <3>5. AttemptOK(attempt)'
      BY <3>1, <3>3, <3>4 DEF AttemptOK, Received, Changed
    <3>. QED  BY <2>1, <2>3, <3>5, GoesOn
  <2>. QED  BY <1>3, <2>2, <2>3 DEF sendEmailMessage
<1>4. CASE listPushSubscriptions
  <2>1. attempt # None /\ AttemptOK(attempt) /\ channel' = channel /\ reached' = reached
        /\ mails' \subseteq {channel} /\ mails' = mails
    BY <1>4 DEF listPushSubscriptions, OutInv, outside
  <2>2. CASE MarkFailure
    BY <2>1, <2>2, Failed
  <2>3. ASSUME NEW todo, attempt' = [attempt EXCEPT !.phase = "push", !.todo = todo], row' = row
        PROVE  OutInv'
    <3>. DEFINE b == [attempt EXCEPT !.phase = "push"]
                d == [b EXCEPT !.todo = todo]
    <3>1. Changed(b, "push", attempt.sent)
      BY <2>1, PhaseChanged, Zenon DEF AttemptOK, Changed
    <3>2. attempt' = d
      BY <2>3
    <3>. HIDE DEF b
    <3>3. Changed(d, "push", attempt.sent)
      BY <3>1, TodoChanged, Zenon DEF Changed
    <3>. HIDE DEF d
    <3>4. AttemptOK(attempt)'
      BY <2>1, <3>2, <3>3 DEF AttemptOK, Received, Changed
    <3>. QED  BY <2>1, <2>3, <3>4, GoesOn
  <2>. QED  BY <1>4, <2>2, <2>3 DEF listPushSubscriptions
<1>5. CASE sendPushMessage
  <2>. DEFINE rest == [attempt EXCEPT !.todo = Tail(@)]
  <2>1. attempt # None /\ AttemptOK(attempt) /\ channel' = channel /\ reached \subseteq reached'
        /\ mails' \subseteq {channel} /\ mails' = mails
    BY <1>5 DEF sendPushMessage, OutInv, outside
  <2>2. CASE MarkFailure
    BY <2>1, <2>2, Failed
  <2>3. Changed(rest, attempt.phase, attempt.sent) /\ attempt.sent \in Nat
    <3>1. attempt.sent \in Nat
      BY <2>1 DEF AttemptOK, Attempt
    <3>2. Changed(rest, attempt.phase, attempt.sent)
      BY <2>1, TodoChanged, Zenon DEF AttemptOK
    <3>. QED  BY <3>1, <3>2
  <2>4. CASE attempt' = rest /\ row' = row
    <3>. HIDE DEF rest
    <3>1. AttemptOK(attempt)'
      BY <2>1, <2>3, <2>4 DEF AttemptOK, Received, Changed
    <3>. QED  BY <2>1, <2>4, <3>1, GoesOn
  <2>5. CASE attempt' = [rest EXCEPT !.sent = @ + 1] /\ row' = row /\ reached' # {}
    <3>. HIDE DEF rest
    <3>. DEFINE d == [rest EXCEPT !.sent = rest.sent + 1]
    <3>1. Changed(d, attempt.phase, attempt.sent + 1)
      <4>1. rest.sent = attempt.sent /\ attempt.sent + 1 \in Nat
        BY <2>3 DEF Changed
      <4>2. rest.phase = attempt.phase /\ rest.sent + 1 \in Nat
        BY <2>3, <4>1 DEF Changed
      <4>3. Changed(d, rest.phase, rest.sent + 1)
        BY <2>3, <4>2, SentChanged, Zenon DEF Changed
      <4>. HIDE DEF d
      <4>. QED  BY <4>1, <4>2, <4>3
    <3>2. attempt' = d
      BY <2>5
    <3>. HIDE DEF d
    <3>3. AttemptOK(attempt)'
      BY <2>3, <2>5, <3>1, <3>2 DEF AttemptOK, Received, Changed
    <3>. QED  BY <2>1, <2>5, <3>3, GoesOn
  <2>. QED  BY <1>5, <2>2, <2>4, <2>5 DEF sendPushMessage
<1>6. CASE EndOfList
  <2>1. attempt # None /\ AttemptOK(attempt) /\ channel' = channel /\ reached' = reached
        /\ mails' \subseteq {channel} /\ mails' = mails
    BY <1>6 DEF EndOfList, OutInv, outside
  <2>2. CASE MarkFailure
    BY <2>1, <2>2, Failed
  <2>3. CASE attempt.sent > 0 /\ attempt' = [attempt EXCEPT !.phase = "mark"] /\ row' = row
    <3>. DEFINE b == [attempt EXCEPT !.phase = "mark"]
    <3>1. Changed(b, "mark", attempt.sent)
      BY <2>1, PhaseChanged, Zenon DEF AttemptOK, Changed
    <3>2. attempt' = b
      BY <2>3
    <3>. HIDE DEF b
    <3>3. AttemptOK(attempt)'
      BY <2>1, <2>3, <3>1, <3>2 DEF AttemptOK, Received, Changed
    <3>. QED  BY <2>1, <2>3, <3>3, GoesOn
  <2>. QED  BY <1>6, <2>2, <2>3 DEF EndOfList
<1>7. CASE MarkSent
  <2>1. Received /\ channel' = channel /\ reached' = reached /\ mails' = mails
        /\ mails' \subseteq {channel}
    BY <1>7 DEF MarkSent, OutInv, AttemptOK, outside
  <2>2. Received'
    BY <2>1 DEF Received
  <2>. QED  BY <1>7, <2>1, <2>2, Settled, Failed DEF MarkSent
<1>8. CASE Kill
  BY <1>8, Settled DEF Kill, outside, OutInv
<1>9. CASE \E b \in Browsers : \/ SignIn(b) \/ SignOut(b) \/ Expires(b)
                               \/ enablePushNotifications(b) \/ disablePushNotifications(b)
  BY <1>1, <1>9 DEF SignIn, SignOut, Expires, enablePushNotifications, disablePushNotifications
<1>10. CASE UNCHANGED sendingVars
  BY <1>1, <1>10 DEF sendingVars, outVars
<1>. QED  BY <1>2, <1>3, <1>4, <1>5, <1>6, <1>7, <1>8, <1>9, <1>10 DEF SendingNext

LEMMA OutInvImplies == OutInv => SentIsReceivedOnce
<1>1. ASSUME OutInv PROVE Cardinality(mails) <= 1
  <2>1. mails = {} \/ mails = {channel}
    BY <1>1 DEF OutInv
  <2>. QED  BY <2>1, FS_EmptySet, FS_Singleton
<1>. QED  BY <1>1 DEF OutInv, SentIsReceivedOnce, Received

-----------------------------------------------------------------------------
(* The subscriptions.                                                       *)

LEMMA SubscribedInit == SendingInit => SubscribedInv
BY DEF SendingInit, SubscribedInv, BrowserType, ToldOK

\* One browser changes and the subscriptions of the others are left alone.
LEMMA OneBrowser ==
  ASSUME SubscribedInv, NEW b \in Browsers, NEW x \in BrowserType,
         browsers' = [browsers EXCEPT ![b] = x], ToldOK(b, x, subscriptions'),
         \A e \in DOMAIN subscriptions :
           e[1] # b => e \in DOMAIN subscriptions' /\ subscriptions'[e] = subscriptions[e]
  PROVE  SubscribedInv'
<1>1. browsers' \in [Browsers -> BrowserType]
  BY DEF SubscribedInv
<1>2. ASSUME NEW c \in Browsers PROVE ToldOK(c, browsers'[c], subscriptions')
  <2>1. CASE c = b
    BY <2>1 DEF SubscribedInv
  <2>2. CASE c # b
    <3>1. browsers'[c] = browsers[c] /\ ToldOK(c, browsers[c], subscriptions)
      BY <2>2 DEF SubscribedInv
    <3>. DEFINE e == Endpoint(c, browsers[c])
    <3>2. e[1] # b
      BY <2>2 DEF Endpoint
    <3>. HIDE DEF e
    <3>. QED  BY <3>1, <3>2 DEF ToldOK, e
  <2>. QED  BY <2>1, <2>2
<1>. QED  BY <1>1, <1>2 DEF SubscribedInv, ToldOK

LEMMA SavedRow ==
  ASSUME NEW e, NEW user
  PROVE  /\ e \in DOMAIN savePushSubscription(e, user)
         /\ savePushSubscription(e, user)[e] = user
         /\ \A d \in DOMAIN subscriptions :
              d # e => /\ d \in DOMAIN savePushSubscription(e, user)
                       /\ savePushSubscription(e, user)[d] = subscriptions[d]
BY DEF savePushSubscription

\* What a deletion leaves of the other endpoints.
LEMMA RowDeleted ==
  ASSUME NEW e, NEW d \in DOMAIN subscriptions, d # e
  PROVE  d \in DOMAIN Without(e) /\ Without(e)[d] = subscriptions[d]
BY DEF Without

LEMMA SubscribedStep == SubscribedInv /\ [SendingNext]_sendingVars => SubscribedInv'
<1>. SUFFICES ASSUME SubscribedInv, [SendingNext]_sendingVars PROVE SubscribedInv'
  OBVIOUS
<1>1. CASE browsers' = browsers /\ subscriptions' = subscriptions
  BY <1>1 DEF SubscribedInv, ToldOK
<1>2. ASSUME NEW b \in Browsers, SignIn(b) \/ SignOut(b) \/ Expires(b)
      PROVE  SubscribedInv'
  <2>. DEFINE y == browsers[b]
  <2>1. y \in BrowserType /\ ToldOK(b, y, subscriptions) /\ subscriptions' = subscriptions
    BY <1>2 DEF SubscribedInv, SignIn, SignOut, Expires
  <2>2. ASSUME NEW u \in Users, y.user = None, browsers' = [browsers EXCEPT ![b].user = u]
        PROVE  SubscribedInv'
    <3>. DEFINE x == [y EXCEPT !.user = u]
    <3>1. x \in BrowserType /\ x.number = y.number /\ x.told = y.told /\ x.subscribed = y.subscribed
      <4>. HIDE DEF y
      <4>. QED  BY <2>1 DEF BrowserType
    <3>2. browsers' = [browsers EXCEPT ![b] = x]
      BY <2>2
    <3>. HIDE DEF x, y
    <3>3. ToldOK(b, x, subscriptions')
      BY <2>1, <3>1 DEF ToldOK, Endpoint
    <3>. QED  BY <2>1, <3>1, <3>2, <3>3, OneBrowser
  <2>3. CASE browsers' = [browsers EXCEPT ![b].user = None, ![b].told = None]
    <3>. DEFINE x == [y EXCEPT !.user = None, !.told = None]
    <3>1. x \in BrowserType /\ x.told = None
      <4>. HIDE DEF y
      <4>. QED  BY <2>1 DEF BrowserType
    <3>2. browsers' = [browsers EXCEPT ![b] = x]
      BY <2>3
    <3>. HIDE DEF x, y
    <3>3. ToldOK(b, x, subscriptions')
      BY <3>1 DEF ToldOK
    <3>. QED  BY <2>1, <3>1, <3>2, <3>3, OneBrowser
  <2>4. CASE browsers' = [browsers EXCEPT ![b].subscribed = FALSE, ![b].told = None]
    <3>. DEFINE x == [y EXCEPT !.subscribed = FALSE, !.told = None]
    <3>1. x \in BrowserType /\ x.told = None
      <4>. HIDE DEF y
      <4>. QED  BY <2>1 DEF BrowserType
    <3>2. browsers' = [browsers EXCEPT ![b] = x]
      BY <2>4
    <3>. HIDE DEF x, y
    <3>3. ToldOK(b, x, subscriptions')
      BY <3>1 DEF ToldOK
    <3>. QED  BY <2>1, <3>1, <3>2, <3>3, OneBrowser
  <2>. QED  BY <1>2, <2>2, <2>3, <2>4 DEF SignIn, SignOut, Expires
<1>3. ASSUME NEW b \in Browsers, enablePushNotifications(b) PROVE SubscribedInv'
  <2>. DEFINE y == browsers[b]
              number == IF y.subscribed THEN y.number ELSE y.number + 1
              saved == savePushSubscription(<<b, number>>, y.user)
              x(told) == [user |-> y.user, number |-> number, subscribed |-> TRUE, told |-> told]
  <2>1. y \in BrowserType /\ y.user # None
    BY <1>3 DEF SubscribedInv, enablePushNotifications, Toggle
  <2>2. PICK told \in {y.user, None} :
          /\ browsers' = [browsers EXCEPT ![b] = x(told)]
          /\ subscriptions' \in IF told = y.user THEN {saved} ELSE {saved, subscriptions}
    BY <1>3 DEF enablePushNotifications
  <2>3. x(told) \in BrowserType /\ x(told).told = told /\ x(told).number = number /\ x(told).subscribed
    <3>1. number \in Nat /\ y.user \in Users
      <4>. HIDE DEF y
      <4>. QED  BY <2>1 DEF BrowserType
    <3>. HIDE DEF y, number
    <3>. QED  BY <2>2, <3>1 DEF BrowserType
  <2>4. /\ <<b, number>> \in DOMAIN saved /\ saved[<<b, number>>] = y.user
        /\ \A e \in DOMAIN subscriptions :
             e # <<b, number>> => e \in DOMAIN saved /\ saved[e] = subscriptions[e]
    <3>. HIDE DEF y, number
    <3>. QED  BY SavedRow
  <2>. DEFINE z == x(told)
  <2>5. z \in BrowserType /\ z.told = told /\ z.number = number /\ z.subscribed
        /\ browsers' = [browsers EXCEPT ![b] = z]
    BY <2>2, <2>3
  <2>. HIDE DEF x, y, number, saved, z
  <2>6. ToldOK(b, z, subscriptions')
    <3>1. CASE told = None
      BY <2>5, <3>1 DEF ToldOK
    <3>2. CASE told = y.user
      BY <2>2, <2>4, <2>5, <3>2 DEF ToldOK, Endpoint
    <3>. QED  BY <2>2, <3>1, <3>2
  <2>7. ASSUME NEW e \in DOMAIN subscriptions, e[1] # b
        PROVE  e \in DOMAIN subscriptions' /\ subscriptions'[e] = subscriptions[e]
    <3>1. e # <<b, number>>
      BY <2>7
    <3>. QED  BY <2>2, <2>4, <3>1
  <2>. QED  BY <2>5, <2>6, <2>7, OneBrowser
<1>4. ASSUME NEW b \in Browsers, disablePushNotifications(b) PROVE SubscribedInv'
  <2>. DEFINE y == browsers[b]
              deleted == deletePushSubscription(EndpointOf(b), y.user)
  <2>1. y \in BrowserType
    BY DEF SubscribedInv
  <2>2. PICK kept \in {TRUE, FALSE} :
          /\ browsers' = [browsers EXCEPT ![b].subscribed = kept, ![b].told = None]
          /\ subscriptions' \in {deleted, subscriptions}
    <3>1. PICK answered \in BOOLEAN :
            /\ browsers' = [browsers EXCEPT ![b].subscribed = ~answered, ![b].told = None]
            /\ subscriptions' \in IF answered THEN {deleted} ELSE {deleted, subscriptions}
      BY <1>4 DEF disablePushNotifications
    <3>2. subscriptions' \in {deleted, subscriptions}
      BY <3>1
    <3>3. CASE answered
      BY <3>1, <3>2, <3>3
    <3>4. CASE ~answered
      BY <3>1, <3>2, <3>4
    <3>. QED  BY <3>3, <3>4
  <2>. DEFINE x == [y EXCEPT !.subscribed = kept, !.told = None]
  <2>3. x \in BrowserType /\ x.told = None
    <3>. HIDE DEF y
    <3>. QED  BY <2>1 DEF BrowserType
  <2>4. browsers' = [browsers EXCEPT ![b] = x]
    BY <2>2
  <2>5. ASSUME NEW e \in DOMAIN subscriptions, e[1] # b
        PROVE  e \in DOMAIN subscriptions' /\ subscriptions'[e] = subscriptions[e]
    <3>1. e # EndpointOf(b)
      BY <2>5 DEF EndpointOf
    <3>2. e \in DOMAIN deleted /\ deleted[e] = subscriptions[e]
      BY <3>1, RowDeleted DEF deletePushSubscription
    <3>. HIDE DEF deleted
    <3>. QED  BY <2>2, <3>2
  <2>. HIDE DEF x, y
  <2>6. ToldOK(b, x, subscriptions')
    BY <2>3 DEF ToldOK
  <2>. QED  BY <2>3, <2>4, <2>5, <2>6, OneBrowser
<1>5. CASE sendPushMessage
  <2>1. browsers' = browsers
    BY <1>5 DEF sendPushMessage, outside, browserVars
  <2>2. CASE subscriptions' = subscriptions
    BY <1>1, <2>1, <2>2
  <2>3. ASSUME NEW endpoint, endpoint \notin Living, subscriptions' = Without(endpoint)
        PROVE  SubscribedInv'
    <3>1. ASSUME NEW b \in Browsers PROVE ToldOK(b, browsers[b], subscriptions')
      <4>. DEFINE x == browsers[b]
                  e == Endpoint(b, x)
      <4>1. SUFFICES ASSUME x.told # None
                     PROVE  x.subscribed /\ e \in DOMAIN subscriptions' /\ subscriptions'[e] = x.told
        BY DEF ToldOK
      <4>2. x.subscribed /\ e \in DOMAIN subscriptions /\ subscriptions[e] = x.told
        BY <4>1 DEF SubscribedInv, ToldOK
      <4>3. e \in Living
        BY <4>2 DEF Living, EndpointOf, Endpoint
      <4>. HIDE DEF e, x
      <4>. QED  BY <2>3, <4>2, <4>3, RowDeleted
    <3>. QED  BY <2>1, <3>1 DEF SubscribedInv, ToldOK
  <2>. QED  BY <1>5, <2>2, <2>3 DEF sendPushMessage
<1>6. CASE \/ Claim \/ sendEmailMessage \/ listPushSubscriptions \/ EndOfList \/ MarkSent \/ Kill
           \/ UNCHANGED sendingVars
  BY <1>1, <1>6 DEF Claim, sendEmailMessage, listPushSubscriptions, EndOfList, MarkSent, Kill, outside,
                    browserVars, sendingVars
<1>. QED  BY <1>2, <1>3, <1>4, <1>5, <1>6 DEF SendingNext

\* NoticesReachTheSubscribed: whatever is killed, repeated, unanswered or switched on and off, a
\* notice marked sent was taken by a service and stands once in the inbox, and a browser that told
\* its user that push is on is subscribed for this user (web-push.ts, mail.ts, store.ts).
THEOREM NoticesReachTheSubscribedAlways == SendingSpec => []NoticesReachTheSubscribed
<1>. DEFINE Inv == OutInv /\ SubscribedInv
<1>1. SendingInit => Inv
  BY OutInit, SubscribedInit
<1>2. Inv /\ [SendingNext]_sendingVars => Inv'
  BY OutStep, SubscribedStep
<1>3. Inv => NoticesReachTheSubscribed
  <2>1. SubscribedInv => EnabledIsSubscribed
    BY DEF SubscribedInv, ToldOK, EnabledIsSubscribed, EndpointOf, Endpoint
  <2>. QED  BY <2>1, OutInvImplies DEF NoticesReachTheSubscribed
<1>. QED  BY <1>1, <1>2, <1>3, PTL DEF SendingSpec
=============================================================================
