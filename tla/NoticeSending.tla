--------------------------- MODULE NoticeSending ---------------------------
(***************************************************************************)
(* One notice on its way out, and the push subscriptions it may go to.     *)
(*                                                                         *)
(* DeliveryQueue says who may attempt a notice and when; here an attempt   *)
(* is taken apart: a mail under an Idempotency-Key, or the subscriptions   *)
(* of the owner one after the other, of which the dead are deleted.  The   *)
(* users of the browsers switch their subscriptions on and off meanwhile.  *)
(*                                                                         *)
(* An endpoint is a browser and the number of its subscription.  The push  *)
(* service and the mail service are external: the first knows the living   *)
(* endpoints, the second sends once per key.                               *)
(***************************************************************************)
EXTENDS Integers, Sequences, FiniteSets, SequencesExt, TLC

CONSTANTS
  Users, Browsers,
  Owner,       \* the user the notice is for
  Limit,       \* attempts after which retryAt gives up
  MaxKills,    \* bound: attempts that are cut short
  MaxEndpoint, \* bound: subscriptions of a browser
  MaxToggles,  \* bound: pushes switched on or off
  None

VARIABLES
  channel,       \* "email" or "push"
  row,           \* the row of the queue: [status, attempts]
  attempt,       \* None, or [todo, sent] of the attempt under way
  kills,         \* attempts cut short
  mails,         \* keys under which the mail service has sent the notice
  reached,       \* browsers that were handed the notice
  subscriptions, \* rows of push_subscriptions: endpoint -> user
  browsers,      \* Browsers -> [user, number, subscribed, told]
  toggles

sendingVars == <<channel, row, attempt, kills, mails, reached, subscriptions, browsers, toggles>>
outVars == <<row, attempt, kills, mails, reached>>
browserVars == <<browsers, toggles>>

EndpointOf(b) == <<b, browsers[b].number>>

Living == {EndpointOf(b) : b \in {c \in Browsers : browsers[c].subscribed}}

-----------------------------------------------------------------------------
\* The users and their browsers

SignIn(b) ==
  /\ browsers[b].user = None
  /\ \E u \in Users : browsers' = [browsers EXCEPT ![b].user = u]
  /\ UNCHANGED <<channel, outVars, subscriptions, toggles>>

\* Signing out leaves the subscription where it is.
SignOut(b) ==
  /\ browsers[b].user # None
  /\ browsers' = [browsers EXCEPT ![b].user = None, ![b].told = None]
  /\ UNCHANGED <<channel, outVars, subscriptions, toggles>>

Toggle(b) ==
  /\ browsers[b].user # None
  /\ toggles < MaxToggles
  /\ toggles' = toggles + 1

\* Mutant: a row that is there stays as it is.
saveNewSubscription(endpoint, user) ==
  [e \in DOMAIN subscriptions \cup {endpoint} |->
     IF e \in DOMAIN subscriptions THEN subscriptions[e] ELSE user]

\* The endpoint is the key: whoever saves it last owns it.
savePushSubscription(endpoint, user) ==
  [e \in DOMAIN subscriptions \cup {endpoint} |-> IF e = endpoint THEN user ELSE subscriptions[e]]

\* The subscription the browser has, or a new one, is saved; the answer may be
\* lost on its way, or the call may not arrive.
enablePushNotifications(b) ==
  /\ Toggle(b)
  /\ browsers[b].subscribed \/ browsers[b].number < MaxEndpoint
  /\ LET user == browsers[b].user
         number == IF browsers[b].subscribed THEN browsers[b].number ELSE browsers[b].number + 1
         saved == savePushSubscription(<<b, number>>, user)
     IN  \E told \in {user, None} :
           /\ browsers' = [browsers EXCEPT ![b] =
                [user |-> user, number |-> number, subscribed |-> TRUE, told |-> told]]
           /\ subscriptions' \in IF told = user THEN {saved} ELSE {saved, subscriptions}
  /\ UNCHANGED <<channel, outVars>>

Without(endpoint) ==
  [e \in DOMAIN subscriptions \ {endpoint} |-> subscriptions[e]]

deletePushSubscription(endpoint, user) ==
  IF endpoint \in DOMAIN subscriptions /\ subscriptions[endpoint] = user
  THEN Without(endpoint) ELSE subscriptions

\* The row is deleted and then the subscription; a lost answer keeps the latter.
disablePushNotifications(b) ==
  /\ Toggle(b)
  /\ browsers[b].subscribed
  /\ LET deleted == deletePushSubscription(EndpointOf(b), browsers[b].user)
     IN  \E answered \in BOOLEAN :
           /\ browsers' = [browsers EXCEPT ![b].subscribed = ~answered, ![b].told = None]
           /\ subscriptions' \in IF answered THEN {deleted} ELSE {deleted, subscriptions}
  /\ UNCHANGED <<channel, outVars>>

\* The browser or its push service gives the subscription up.
Expires(b) ==
  /\ browsers[b].subscribed
  /\ browsers' = [browsers EXCEPT ![b].subscribed = FALSE, ![b].told = None]
  /\ UNCHANGED <<channel, outVars, subscriptions, toggles>>

-----------------------------------------------------------------------------
\* An attempt

outside == UNCHANGED <<channel, browserVars>>

\* Mutant: every attempt has a key of its own.
keyOfAttempt == row.attempts

\* The key names the plan, digest or alert and the channel, nothing of the attempt.
idempotencyKey == channel

Settle(status) ==
  /\ row' = [row EXCEPT !.status = status]
  /\ attempt' = None

\* deliverOne, catch: another attempt, or none.
MarkFailure == Settle(IF row.attempts >= Limit THEN "failed" ELSE "retry")

Claim ==
  /\ attempt = None
  /\ row.status \in {"pending", "retry"}
  /\ row' = [status |-> "processing", attempts |-> row.attempts + 1]
  /\ attempt' = [phase |-> IF channel = "email" THEN "email" ELSE "list", todo |-> <<>>, sent |-> 0]
  /\ UNCHANGED <<kills, mails, reached, subscriptions>> /\ outside

\* The service takes the mail; what it answers may be lost or late.
sendEmailMessage ==
  /\ attempt # None /\ attempt.phase = "email"
  /\ \/ /\ mails' \in {mails \cup {idempotencyKey}, mails}
        /\ MarkFailure
     \/ /\ mails' = mails \cup {idempotencyKey}
        /\ attempt' = [attempt EXCEPT !.phase = "mark", !.sent = 1]
        /\ UNCHANGED row
  /\ UNCHANGED <<kills, reached, subscriptions>> /\ outside

\* The subscriptions of the owner are read once; the call may fail, and there
\* may be none.
listPushSubscriptions ==
  /\ attempt # None /\ attempt.phase = "list"
  /\ LET own == {e \in DOMAIN subscriptions : subscriptions[e] = Owner}
     IN  \/ MarkFailure
         \/ /\ own # {}
            /\ attempt' = [attempt EXCEPT !.phase = "push", !.todo = SetToSeq(own)]
            /\ UNCHANGED row
  /\ UNCHANGED <<kills, mails, reached, subscriptions>> /\ outside

\* The next subscription: it takes the notice; or it is dead and deleted, and
\* the attempt ends when that fails; or the call fails or has no answer in
\* time, and the notice may arrive nevertheless.
sendPushMessage ==
  /\ attempt # None /\ attempt.phase = "push" /\ attempt.todo # <<>>
  /\ LET endpoint == Head(attempt.todo)
         browser == endpoint[1]
         rest == [attempt EXCEPT !.todo = Tail(@)]
         living == endpoint \in Living
     IN  \/ /\ living
            /\ reached' = reached \cup {browser}
            /\ attempt' = [rest EXCEPT !.sent = @ + 1]
            /\ UNCHANGED <<row, subscriptions>>
         \/ /\ ~living
            /\ \/ subscriptions' = Without(endpoint) /\ attempt' = rest /\ UNCHANGED row
               \/ MarkFailure /\ UNCHANGED subscriptions
            /\ UNCHANGED reached
         \/ /\ reached' \in IF living THEN {reached, reached \cup {browser}} ELSE {reached}
            /\ attempt' = rest
            /\ UNCHANGED <<row, subscriptions>>
  /\ UNCHANGED <<kills, mails>> /\ outside

\* One browser that took the notice is enough.
EndOfList ==
  /\ attempt # None /\ attempt.phase = "push" /\ attempt.todo = <<>>
  /\ IF attempt.sent > 0
     THEN attempt' = [attempt EXCEPT !.phase = "mark"] /\ UNCHANGED row
     ELSE MarkFailure
  /\ UNCHANGED <<kills, mails, reached, subscriptions>> /\ outside

\* The row is marked; when the call that marks it fails, the attempt failed.
MarkSent ==
  /\ attempt # None /\ attempt.phase = "mark"
  /\ Settle("sent") \/ MarkFailure
  /\ UNCHANGED <<kills, mails, reached, subscriptions>> /\ outside

\* The function is killed, or the call that marks the failure fails; the row is
\* swept when its lease has run out.
Kill ==
  /\ attempt # None /\ kills < MaxKills
  /\ kills' = kills + 1
  /\ Settle("retry")
  /\ UNCHANGED <<mails, reached, subscriptions>> /\ outside

-----------------------------------------------------------------------------

SendingInit ==
  /\ channel \in {"email", "push"}
  /\ row = [status |-> "pending", attempts |-> 0]
  /\ attempt = None
  /\ kills = 0 /\ toggles = 0
  /\ mails = {} /\ reached = {}
  /\ subscriptions = <<>>
  /\ browsers = [b \in Browsers |-> [user |-> None, number |-> 0, subscribed |-> FALSE, told |-> None]]

SendingNext ==
  \/ \E b \in Browsers : SignIn(b)
  \/ \E b \in Browsers : SignOut(b)
  \/ \E b \in Browsers : enablePushNotifications(b)
  \/ \E b \in Browsers : disablePushNotifications(b)
  \/ \E b \in Browsers : Expires(b)
  \/ Claim
  \/ sendEmailMessage
  \/ listPushSubscriptions
  \/ sendPushMessage
  \/ EndOfList
  \/ MarkSent
  \/ Kill

SendingSpec == SendingInit /\ [][SendingNext]_sendingVars

-----------------------------------------------------------------------------

\* A notice that is marked sent was taken by the mail service or by a browser,
\* and the owner finds it once in the inbox however often kills, lost answers
\* and failed marks repeat the attempt (sendEmailMessage and sendPushMessage).
SentIsReceivedOnce ==
  /\ row.status = "sent" => mails # {} \/ reached # {}
  /\ Cardinality(mails) <= 1

\* A browser that told its user that push is on receives the notices of this
\* user, whoever used the browser before, whatever attempts still hold a list
\* of dead endpoints (savePushSubscription, deletePushSubscriptionById).
EnabledIsSubscribed ==
  \A b \in Browsers :
    browsers[b].told # None =>
      /\ EndpointOf(b) \in DOMAIN subscriptions
      /\ subscriptions[EndpointOf(b)] = browsers[b].told

\* A notice marked sent was received, and once; and a browser that says push is on is subscribed,
\* for the user it said it to.
NoticesReachTheSubscribed == SentIsReceivedOnce /\ EnabledIsSubscribed
=============================================================================
