---------------------------- MODULE WatchlistSync ----------------------------
(***************************************************************************)
(* The watchlist of one browser and the list the server keeps for the signed-in *)
(* user.  An edit changes the browser at once and is sent in a call of its own; *)
(* the list is loaded at the start of a session and by every poll or event, and *)
(* a load that an edit or a newer load has overtaken is dropped.  Calls take as *)
(* long as they like, are answered in any order, and fail.  A list is a set:    *)
(* its order, the symbols the browser knows and the cap of 100 are left out.      *)
(***************************************************************************)
EXTENDS Naturals, FiniteSets

CONSTANTS
  Owners,
  Symbols,
  NoUser,
  MaxEdits,              \* edits, here and on another device
  MaxSessions,           \* sign-ins, sign-outs and renewals of the token
  MaxLosses              \* calls that fail

VARIABLES
  session,     \* who is signed in here
  watch,       \* the list of the browser
  lists,       \* the list of each user on the server
  load,        \* the latest load, unless it was overtaken or has ended
  opened,      \* the first load of the session has ended
  polling,     \* the interval and the subscription are on
  writes,      \* calls that replace the list of a user, not yet applied
  held,        \* what the browser held when the session began, less what was removed since
  edits, sessions, losses

listVars == <<session, watch, lists, load, opened, polling, writes, held, edits, sessions, losses>>

NoLoad == [stage |-> "none", merge |-> FALSE, symbols |-> {}]
Asked(merge) == [stage |-> "asked", merge |-> merge, symbols |-> {}]

ListTypeOK ==
    /\ session \in Owners \cup {NoUser}
    /\ watch \subseteq Symbols /\ held \subseteq Symbols
    /\ lists \in [Owners -> SUBSET Symbols]
    /\ load \in [stage : {"none", "asked", "read", "merging"}, merge : BOOLEAN, symbols : SUBSET Symbols]
    /\ opened \in BOOLEAN /\ polling \in BOOLEAN
    /\ writes \subseteq [user : Owners, symbols : SUBSET Symbols]
    /\ edits \in 0..MaxEdits /\ sessions \in 0..MaxSessions /\ losses \in 0..MaxLosses

ListInit ==
    /\ session = NoUser
    /\ watch \in SUBSET Symbols
    /\ lists \in [Owners -> SUBSET Symbols]
    /\ load = NoLoad /\ opened = FALSE /\ polling = FALSE
    /\ writes = {} /\ held = {}
    /\ edits = 0 /\ sessions = 0 /\ losses = 0

-----------------------------------------------------------------------------
(* The session.                                                                *)

\* The provider of the session reports another user, the same one with a new token, or nobody: the
\* effect of the old session is undone, and that of the new one loads the list to merge it.
SessionChanges(u) ==
    /\ sessions < MaxSessions
    /\ session # NoUser \/ u # NoUser
    /\ session' = u /\ sessions' = sessions + 1
    /\ load' = (IF u = NoUser THEN NoLoad ELSE Asked(TRUE))
    /\ opened' = FALSE /\ polling' = FALSE
    /\ held' = (IF u = NoUser THEN {} ELSE watch)
    /\ UNCHANGED <<watch, lists, writes, edits, losses>>

\* Once the first load has ended, well or badly, the list is polled.
StartPolling ==
    /\ session # NoUser /\ opened /\ ~polling
    /\ polling' = TRUE
    /\ UNCHANGED <<session, watch, lists, load, opened, writes, held, edits, sessions, losses>>

\* The first load of the alerts fails: the polls begin while that of the list is still under way.
AlertsLoadFails ==
    /\ session # NoUser /\ ~opened /\ ~polling /\ losses < MaxLosses
    /\ polling' = TRUE /\ losses' = losses + 1
    /\ UNCHANGED <<session, watch, lists, load, opened, writes, held, edits, sessions>>

-----------------------------------------------------------------------------
(* Loads.                                                                      *)

\* A poll, or an event of the subscription, starts a load: the one under way is overtaken.
PollList ==
    /\ polling
    /\ load' = Asked(FALSE)
    /\ UNCHANGED <<session, watch, lists, opened, polling, writes, held, edits, sessions, losses>>

\* The server reads the list.
ServerReads ==
    /\ load.stage = "asked"
    /\ load' = [load EXCEPT !.stage = "read", !.symbols = lists[session]]
    /\ UNCHANGED <<session, watch, lists, opened, polling, writes, held, edits, sessions, losses>>

\* The answer of a poll replaces the list of the browser.
Replace ==
    /\ load.stage = "read" /\ ~load.merge
    /\ watch' = load.symbols /\ load' = NoLoad
    /\ UNCHANGED <<session, lists, opened, polling, writes, held, edits, sessions, losses>>

\* Mutant: the first answer replaces the list like any other.
MergeReplaces ==
    /\ load.stage = "read" /\ load.merge
    /\ watch' = load.symbols /\ load' = NoLoad /\ opened' = TRUE
    /\ UNCHANGED <<session, lists, polling, writes, held, edits, sessions, losses>>

\* The first answer is merged with what the browser holds, and the merged list sent if it is another.
Merge ==
    LET merged == watch \cup load.symbols IN
    /\ load.stage = "read" /\ load.merge
    /\ watch' = merged
    /\ IF merged = load.symbols
         THEN load' = NoLoad /\ opened' = TRUE /\ UNCHANGED writes
         ELSE /\ load' = [load EXCEPT !.stage = "merging", !.symbols = merged]
              /\ writes' = writes \cup {[user |-> session, symbols |-> merged]}
              /\ UNCHANGED opened
    /\ UNCHANGED <<session, lists, polling, held, edits, sessions, losses>>

\* The call with the merged list is applied or has failed: the first load has ended.
MergeAnswered ==
    /\ load.stage = "merging"
    /\ [user |-> session, symbols |-> load.symbols] \notin writes
    /\ load' = NoLoad /\ opened' = TRUE
    /\ UNCHANGED <<session, watch, lists, polling, writes, held, edits, sessions, losses>>

\* Mutant: the polls only begin after a first load that succeeded.
LoadFailsForGood ==
    /\ load.stage \in {"asked", "read"} /\ losses < MaxLosses
    /\ load' = NoLoad /\ losses' = losses + 1
    /\ UNCHANGED <<session, watch, lists, opened, polling, writes, held, edits, sessions>>

\* A load fails; the first one leaves the lists unmerged, and the polls begin all the same.
LoadFails ==
    /\ load.stage \in {"asked", "read"} /\ losses < MaxLosses
    /\ load' = NoLoad /\ opened' = TRUE /\ losses' = losses + 1
    /\ UNCHANGED <<session, watch, lists, polling, writes, held, edits, sessions>>

-----------------------------------------------------------------------------
(* Edits.                                                                      *)

\* The user adds or removes a symbol: the load under way is overtaken, and the whole list is sent.
Toggle(s) ==
    LET next == IF s \in watch THEN watch \ {s} ELSE watch \cup {s} IN
    /\ edits < MaxEdits
    /\ watch' = next /\ held' = held \ {s} /\ edits' = edits + 1
    /\ IF session = NoUser
         THEN UNCHANGED <<load, opened, writes>>
         ELSE /\ writes' = writes \cup {[user |-> session, symbols |-> next]}
              /\ load' = NoLoad /\ opened' = (opened \/ load.merge)
    /\ UNCHANGED <<session, lists, polling, sessions, losses>>

\* Another tab of the browser edits the list and sends it; here it comes as an event of the storage,
\* which overtakes nothing.
OtherTabToggles(s) ==
    LET next == IF s \in watch THEN watch \ {s} ELSE watch \cup {s} IN
    /\ edits < MaxEdits
    /\ watch' = next /\ held' = held \ {s} /\ edits' = edits + 1
    /\ writes' = (IF session = NoUser THEN writes ELSE writes \cup {[user |-> session, symbols |-> next]})
    /\ UNCHANGED <<session, lists, load, opened, polling, sessions, losses>>

\* Another device of a user edits the list of the server.
OtherDeviceToggles(u, s) ==
    /\ edits < MaxEdits /\ edits' = edits + 1
    /\ lists' = [lists EXCEPT ![u] = IF s \in @ THEN @ \ {s} ELSE @ \cup {s}]
    /\ held' = held \ {s}
    /\ UNCHANGED <<session, watch, load, opened, polling, writes, sessions, losses>>

\* A call that replaces a list is applied, in whatever order the calls arrive.
WriteApplied(w) ==
    /\ w \in writes
    /\ lists' = [lists EXCEPT ![w.user] = w.symbols]
    /\ writes' = writes \ {w}
    /\ UNCHANGED <<session, watch, load, opened, polling, held, edits, sessions, losses>>

\* A call that replaces a list fails: it is only logged.
WriteFails(w) ==
    /\ w \in writes /\ losses < MaxLosses
    /\ writes' = writes \ {w} /\ losses' = losses + 1
    /\ UNCHANGED <<session, watch, lists, load, opened, polling, held, edits, sessions>>

-----------------------------------------------------------------------------

ListNext ==
    \/ \E u \in Owners \cup {NoUser} : SessionChanges(u)
    \/ StartPolling \/ AlertsLoadFails \/ PollList \/ ServerReads \/ Replace \/ Merge \/ MergeAnswered \/ LoadFails
    \/ \E s \in Symbols : Toggle(s) \/ OtherTabToggles(s) \/ \E u \in Owners : OtherDeviceToggles(u, s)
    \/ \E w \in writes : WriteApplied(w) \/ WriteFails(w)

\* Calls are answered, and polls come again: often enough one is answered before the next.
ListFairness ==
    /\ WF_listVars(StartPolling) /\ WF_listVars(PollList) /\ WF_listVars(ServerReads)
    /\ WF_listVars(Merge) /\ WF_listVars(MergeAnswered)
    /\ \A u \in Owners, l \in SUBSET Symbols : WF_listVars(WriteApplied([user |-> u, symbols |-> l]))

ListSpec == ListInit /\ [][ListNext]_listVars /\ ListFairness /\ SF_listVars(Replace)

-----------------------------------------------------------------------------

\* Whatever was overtaken, lost or answered late, a signed-in browser whose user rests shows what
\* the server keeps, again and again: an edit or a load in flight makes them differ only for a while.
ShowsTheServersList == []<>(session = NoUser \/ watch = lists[session])

\* What the browser held when the session began, and no one removed since, stays in its list, for the
\* first load merges the two: if no call fails, no edit comes between, and the browser has one user. With
\* another user's session between two of hers, a list sent in the first may be applied in the second.
SignInKeepsTheLocalList ==
    losses = 0 /\ edits = 0 /\ (\A u, v \in Owners : u = v) => held \subseteq watch

=============================================================================
