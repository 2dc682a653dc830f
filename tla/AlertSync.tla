------------------------------ MODULE AlertSync ------------------------------
(***************************************************************************)
(* The server's price alerts in one browser: what it shows of them, and the calls *)
(* that list, create, delete and mark them.  A change the user makes shows at    *)
(* once, and overtakes the load under way; the server's answer to a creation is  *)
(* added whenever it comes.  The evaluators of the server trigger alerts         *)
(* meanwhile.  The alerts only the browser knows are BrowserMarket's.             *)
(***************************************************************************)
EXTENDS Naturals, FiniteSets

CONSTANTS
  Users,
  Ids,                   \* the alerts a user can create, one after another
  Nobody,
  MaxLogins,             \* sign-ins, sign-outs and renewals of the token
  MaxFailures            \* calls that fail

VARIABLES
  account,     \* who is signed in here
  table,       \* each user's alerts on the server
  shown,       \* the server's alerts the browser holds, and stores
  listing,     \* the latest load, unless it was overtaken or has ended
  loaded,      \* a load of the session has been applied
  following,   \* the interval and the subscription are on
  calls,       \* changes sent and not yet applied
  created,     \* answers to creations on their way back
  strays,      \* alerts added after the session that created them
  logins, failures

alertVars == <<account, table, shown, listing, loaded, following, calls, created, strays, logins, failures>>

States == {"none", "armed", "triggered", "seen", "deleted"}
Listed(rows) == {a \in Users \X Ids : rows[a[1]][a[2]] \in {"armed", "triggered", "seen"}}
Nothing == [u \in Users |-> [i \in Ids |-> "none"]]
NoListing == [stage |-> "none", user |-> Nobody, alerts |-> [i \in Ids |-> "none"]]
ListingOf(u) == [NoListing EXCEPT !.stage = "asked", !.user = u]

RemoteTypeOK ==
    /\ account \in Users \cup {Nobody}
    /\ table \in [Users -> [Ids -> States]] /\ shown \in [Users -> [Ids -> States]]
    /\ listing \in [stage : {"none", "asked", "read"}, user : Users \cup {Nobody}, alerts : [Ids -> States]]
    /\ loaded \in BOOLEAN /\ following \in BOOLEAN
    /\ calls \subseteq [kind : {"create", "remove", "seen"}, user : Users, id : Ids]
    /\ created \subseteq Users \X Ids /\ strays \subseteq Users \X Ids
    /\ logins \in 0..MaxLogins /\ failures \in 0..MaxFailures

RemoteInit ==
    /\ account = Nobody /\ table = Nothing /\ shown = Nothing
    /\ listing = NoListing /\ loaded = FALSE /\ following = FALSE
    /\ calls = {} /\ created = {} /\ strays = {}
    /\ logins = 0 /\ failures = 0

-----------------------------------------------------------------------------
(* The session and its loads.                                                  *)

\* Mutant: a load of the session before goes on.
AccountChangesUnderListing(u) ==
    /\ logins < MaxLogins
    /\ account # Nobody \/ u # Nobody
    /\ account' = u /\ logins' = logins + 1
    /\ listing' = (IF listing # NoListing \/ u = Nobody THEN listing ELSE ListingOf(u))
    /\ loaded' = FALSE /\ following' = FALSE
    /\ IF u = Nobody THEN shown' = Nothing /\ strays' = {} ELSE UNCHANGED <<shown, strays>>
    /\ UNCHANGED <<table, calls, created, failures>>

\* The session's user or token changes: its loads are dropped, and a browser nobody is signed in at
\* lets go of the server's alerts.
AccountChanges(u) ==
    /\ logins < MaxLogins
    /\ account # Nobody \/ u # Nobody
    /\ account' = u /\ logins' = logins + 1
    /\ listing' = (IF u = Nobody THEN NoListing ELSE ListingOf(u))
    /\ loaded' = FALSE /\ following' = FALSE
    /\ IF u = Nobody THEN shown' = Nothing /\ strays' = {} ELSE UNCHANGED <<shown, strays>>
    /\ UNCHANGED <<table, calls, created, failures>>

\* Once the first load has ended, well or badly, the alerts are polled.
StartFollowing ==
    /\ account # Nobody /\ listing = NoListing /\ ~following
    /\ following' = TRUE
    /\ UNCHANGED <<account, table, shown, listing, loaded, calls, created, strays, logins, failures>>

\* A poll, or an event of an alert or of a delivery, starts a load.
PollAlerts ==
    /\ following
    /\ listing' = ListingOf(account)
    /\ UNCHANGED <<account, table, shown, loaded, following, calls, created, strays, logins, failures>>

\* The server lists the alerts.
ServerLists ==
    /\ listing.stage = "asked"
    /\ listing' = [listing EXCEPT !.stage = "read", !.alerts = table[listing.user]]
    /\ UNCHANGED <<account, table, shown, loaded, following, calls, created, strays, logins, failures>>

\* The answer replaces every alert of the server's, of whoever it is.
ShowListing ==
    /\ listing.stage = "read"
    /\ shown' = [Nothing EXCEPT ![listing.user] = listing.alerts]
    /\ listing' = NoListing /\ loaded' = TRUE /\ strays' = {}
    /\ UNCHANGED <<account, table, following, calls, created, logins, failures>>

ListingFails ==
    /\ listing # NoListing /\ failures < MaxFailures
    /\ listing' = NoListing /\ failures' = failures + 1
    /\ UNCHANGED <<account, table, shown, loaded, following, calls, created, strays, logins>>

-----------------------------------------------------------------------------
(* Changes of the user.                                                        *)

Call(kind, i) == [kind |-> kind, user |-> account, id |-> i]

\* A call that changes an alert overtakes the load under way.
Send(sent) == calls' = calls \cup sent /\ listing' = NoListing

\* The user asks for an alert: it shows once the server has answered.
CreateAlert(i) ==
    /\ account # Nobody
    /\ table[account][i] = "none" /\ Call("create", i) \notin calls
    /\ Send({Call("create", i)})
    /\ UNCHANGED <<account, table, shown, loaded, following, created, strays, logins, failures>>

\* The user deletes an alert: it goes at once, and the server is told if someone is signed in, in
\* whose name the call finds only an alert of theirs.
RemoveAlert(u, i) ==
    /\ <<u, i>> \in Listed(shown)
    /\ shown' = [shown EXCEPT ![u][i] = "none"] /\ strays' = strays \ {<<u, i>>}
    /\ IF account = Nobody THEN UNCHANGED <<calls, listing>>
         ELSE Send(IF u = account THEN {Call("remove", i)} ELSE {})
    /\ UNCHANGED <<account, table, loaded, following, created, logins, failures>>

\* Opening the list marks what it shows; the server is told if one of its alerts was new.
MarkAllSeen ==
    /\ \E u \in Users, i \in Ids : shown[u][i] = "triggered"
    /\ shown' = [u \in Users |-> [i \in Ids |-> IF shown[u][i] = "triggered" THEN "seen" ELSE shown[u][i]]]
    /\ IF account = Nobody THEN UNCHANGED <<calls, listing>>
         ELSE Send({Call("seen", CHOOSE i \in Ids : TRUE)})
    /\ UNCHANGED <<account, table, loaded, following, created, strays, logins, failures>>

\* The answer to a creation comes: the alert is shown, as it was when it was made.
Upsert(u, i) ==
    /\ <<u, i>> \in created
    /\ created' = created \ {<<u, i>>}
    /\ shown' = [shown EXCEPT ![u][i] = "armed"]
    /\ strays' = (IF u = account THEN strays ELSE strays \cup {<<u, i>>})
    /\ UNCHANGED <<account, table, listing, loaded, following, calls, logins, failures>>

-----------------------------------------------------------------------------
(* The server.                                                                 *)

\* A change is applied: only the user's own rows, and only triggered ones are marked.
CallApplied(c) ==
    LET own == table[c.user]
        after == CASE c.kind = "create" -> [own EXCEPT ![c.id] = "armed"]
                   [] c.kind = "remove" -> [own EXCEPT ![c.id] = IF @ = "none" THEN @ ELSE "deleted"]
                   [] c.kind = "seen" -> [i \in Ids |-> IF own[i] = "triggered" THEN "seen" ELSE own[i]] IN
    /\ c \in calls
    /\ calls' = calls \ {c}
    /\ table' = [table EXCEPT ![c.user] = after]
    /\ created' = (IF c.kind = "create" THEN created \cup {<<c.user, c.id>>} ELSE created)
    /\ UNCHANGED <<account, shown, listing, loaded, following, strays, logins, failures>>

\* A change fails: a creation is reported, the others are logged.
CallFails(c) ==
    /\ c \in calls /\ failures < MaxFailures
    /\ calls' = calls \ {c} /\ failures' = failures + 1
    /\ UNCHANGED <<account, table, shown, listing, loaded, following, created, strays, logins>>

\* An evaluator triggers an armed alert.
Triggered(u, i) ==
    /\ table[u][i] = "armed"
    /\ table' = [table EXCEPT ![u][i] = "triggered"]
    /\ UNCHANGED <<account, shown, listing, loaded, following, calls, created, strays, logins, failures>>

-----------------------------------------------------------------------------

Calls == [kind : {"create", "remove", "seen"}, user : Users, id : Ids]

RemoteNext ==
    \/ \E u \in Users \cup {Nobody} : AccountChanges(u)
    \/ StartFollowing \/ PollAlerts \/ ServerLists \/ ShowListing \/ ListingFails \/ MarkAllSeen
    \/ \E i \in Ids : CreateAlert(i)
    \/ \E u \in Users, i \in Ids : RemoveAlert(u, i) \/ Upsert(u, i) \/ Triggered(u, i)
    \/ \E c \in calls : CallApplied(c) \/ CallFails(c)

\* Calls are answered, and polls come again: often enough one is answered before the next.
RemoteFairness ==
    /\ WF_alertVars(StartFollowing) /\ WF_alertVars(PollAlerts) /\ WF_alertVars(ServerLists)
    /\ \A c \in Calls : WF_alertVars(CallApplied(c))
    /\ \A u \in Users, i \in Ids : WF_alertVars(Upsert(u, i))

RemoteSpec == RemoteInit /\ [][RemoteNext]_alertVars /\ RemoteFairness /\ SF_alertVars(ShowListing)

-----------------------------------------------------------------------------

\* Once a load of the session has been applied the browser shows no other user's alerts, but for an
\* alert that was created before the session and answered within it; signed out, it shows none else.
ShownIsOfTheSession ==
    loaded \/ account = Nobody => \A a \in Listed(shown) : a[1] = account \/ a \in strays

\* A browser that stays signed in shows what the server lists, again and again: deletions that failed
\* come back, and answers that came late are put right.
ShowsTheServersAlerts == []<>(account = Nobody \/ Listed(shown) = {a \in Listed(table) : a[1] = account})

=============================================================================
