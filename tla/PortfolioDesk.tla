---------------------------- MODULE PortfolioDesk ----------------------------
(***************************************************************************)
(* The portfolio page of a signed-in browser: the list of portfolios, the one   *)
(* selected, what is shown of it, the load that is under way, and the requests    *)
(* its panels and dialogs make.  A request keeps the selection of the moment it    *)
(* was made: its answer starts the load of that portfolio over, whatever is        *)
(* selected by then.                                                               *)
(***************************************************************************)
EXTENDS Integers, Sequences, FiniteSets

CONSTANTS
  Portfolios, None,
  Begun,         \* what became of the plans before
  Linked,        \* the portfolio a link to the page names, or None
  MaxChanges,    \* changes of the server's data
  MaxRequests,   \* requests of the panels and dialogs
  MaxFaults,   \* requests that are not answered well
  MaxSignIns    \* times the user signs in

ASSUME DeskAssumption ==
  /\ None \notin Portfolios /\ None \notin [of : Portfolios, at : Nat]
  /\ Linked \in Portfolios \cup {None}
  /\ Begun \subseteq Seq({"pending", "approved", "closed"})

VARIABLES
  signedIn, signIns,
  active,        \* the server's portfolios that are not archived
  kept,          \* how often the server changed each part of a portfolio
  statuses,      \* the status of a portfolio's last plan after each change
  listed,        \* portfolios: the list shown
  selected,      \* selectedId
  dataId,        \* selectedDataIdRef: the portfolio the shown data are of
  panels,        \* what is shown of each part, or None
  fetching,      \* the request for the list, and the portfolio to select after it
  loading,       \* selectedControllerRef: the load under way, and what the server had when it began
  job,           \* the one request of the goal and plan panels (workflowBusy)
  entry,         \* the one request of a dialog or of a button of the toolbar
  handled,       \* handledLinkRef
  changes, requests, faults

deskVars == <<signedIn, signIns, active, kept, statuses, listed, selected, dataId, panels, fetching, loading, job,
              entry, handled, changes, requests, faults>>
serverVars == <<active, kept, statuses, changes>>

Panes == {"summary", "plans", "goal", "policy"}
Optional == {"goal", "policy"}      \* a failed answer counts as "there is none"
Kept == {"plans", "goal"}           \* the parts whose versions are told apart

NoPanels == [part \in Panes |-> None]
NoRequest == [act |-> "none", of |-> None, at |-> 0, state |-> "idle"]
NotLoading == [of |-> None, since |-> [part \in Kept |-> 0]]
NoList == [state |-> "idle", after |-> None]
OpenStatuses == {"pending", "approved"}

\* The summary is shown only if it is of the selected portfolio, and everything else only with it.
activeSummary == signedIn /\ selected # None /\ panels["summary"] # None /\ panels["summary"].of = selected

shownStatus ==
    LET plans == panels["plans"] IN
    IF plans = None \/ plans.at = 0 THEN "none" ELSE statuses[plans.of][plans.at]
openRun == shownStatus \in OpenStatuses
workflowBusy == job # NoRequest

DeskInit ==
    /\ signedIn = FALSE /\ signIns = 0
    /\ active = Portfolios
    /\ \E begun \in Begun : statuses = [p \in Portfolios |-> begun]
    /\ kept = [p \in Portfolios |-> [part \in Kept |-> IF part = "plans" THEN Len(statuses[p]) ELSE 0]]
    /\ listed = {} /\ selected = None /\ dataId = None /\ panels = NoPanels
    /\ fetching = NoList /\ loading = NotLoading /\ job = NoRequest /\ entry = NoRequest /\ handled = FALSE
    /\ changes = 0 /\ requests = 0 /\ faults = 0

-----------------------------------------------------------------------------
(* The page's own operations, as they were made for portfolio p. *)

resetSelectedState == panels' = NoPanels

\* refreshSelected: the load under way is aborted; data of another portfolio are cleared first.
refreshSelected(p, before) ==
    IF p = None THEN dataId' = None /\ resetSelectedState /\ loading' = NotLoading
    ELSE /\ dataId' = p
         /\ panels' = IF dataId # p THEN NoPanels ELSE before
         /\ loading' = [of |-> p, since |-> kept[p]]

\* selectPortfolio, with the effect that loads the new selection.
selectPortfolio(p) ==
    /\ selected' = p
    /\ resetSelectedState
    /\ IF p = None THEN dataId' = None /\ loading' = NotLoading
       ELSE dataId' = p /\ loading' = [of |-> p, since |-> kept[p]]

\* refreshPortfolios: a new request for the list; the one before is aborted.
refreshPortfolios(after) == fetching' = [state |-> "sent", after |-> after]

-----------------------------------------------------------------------------
(* The session, the list and the selection. *)

SignIn ==
    /\ ~signedIn /\ signIns < MaxSignIns
    /\ signedIn' = TRUE /\ signIns' = signIns + 1
    /\ refreshPortfolios(None)
    /\ refreshSelected(None, panels)
    /\ UNCHANGED <<serverVars, listed, selected, job, entry, handled, requests, faults>>

SignOut ==
    /\ signedIn /\ signedIn' = FALSE
    /\ fetching' = NoList /\ listed' = {} /\ selected' = None
    /\ refreshSelected(None, panels)
    /\ UNCHANGED <<serverVars, signIns, job, entry, handled, requests, faults>>

\* The list is there: a selection that is still listed stays, else the linked portfolio or the first is selected.
\* After a creation the new portfolio is selected.
ListAnswered ==
    /\ fetching.state = "sent"
    /\ listed' = active /\ fetching' = NoList
    /\ LET first == IF active = {} THEN None ELSE CHOOSE p \in active : TRUE
           next == IF fetching.after # None THEN fetching.after
                   ELSE IF selected \in active THEN selected
                   ELSE IF Linked \in active THEN Linked ELSE first IN
       IF next = selected /\ fetching.after = None THEN UNCHANGED <<selected, dataId, panels, loading>>
       ELSE selected' = next /\ refreshSelected(next, IF fetching.after = None THEN panels ELSE NoPanels)
    /\ UNCHANGED <<signedIn, signIns, serverVars, job, entry, handled, requests, faults>>

\* The list could not be read: nothing asks for it again.
ListFailed ==
    /\ fetching.state = "sent" /\ faults < MaxFaults /\ faults' = faults + 1
    /\ fetching' = NoList
    /\ UNCHANGED <<signedIn, signIns, serverVars, listed, selected, dataId, panels, loading, job, entry, handled, requests>>

UserSelects(p) ==
    /\ signedIn /\ p \in listed /\ p # selected
    /\ selectPortfolio(p)
    /\ UNCHANGED <<signedIn, signIns, serverVars, listed, fetching, job, entry, handled, requests, faults>>

\* A link to a listed portfolio is followed once.
FollowLink ==
    /\ ~handled /\ Linked \in listed /\ handled' = TRUE
    /\ IF selected # Linked THEN selectPortfolio(Linked) ELSE UNCHANGED <<selected, dataId, panels, loading>>
    /\ UNCHANGED <<signedIn, signIns, serverVars, listed, fetching, job, entry, requests, faults>>

-----------------------------------------------------------------------------
(* Loading what is selected. *)

\* Every minute, and at the user's wish, the load starts over.
PollDesk ==
    /\ signedIn /\ selected # None
    /\ refreshSelected(selected, panels)
    /\ UNCHANGED <<signedIn, signIns, serverVars, listed, selected, fetching, job, entry, handled, requests, faults>>

\* The answers of one load: each part as the server had it at some moment since the load began.
Answers(seen) == [part \in Panes |->
    [of |-> loading.of, at |-> IF part \in Kept THEN seen[part] ELSE 0]]

LoadAnswered ==
    /\ loading # NotLoading
    /\ \E plans \in loading.since["plans"]..kept[loading.of]["plans"],
          goal \in loading.since["goal"]..kept[loading.of]["goal"] :
         panels' = Answers([part \in Kept |-> IF part = "plans" THEN plans ELSE goal])
    /\ loading' = NotLoading
    /\ UNCHANGED <<signedIn, signIns, serverVars, listed, selected, dataId, fetching, job, entry, handled, requests, faults>>

\* A read fails: without an optional part the page shows the rest, without another it keeps what it has.
LoadFailed ==
    /\ loading # NotLoading /\ faults < MaxFaults /\ faults' = faults + 1
    /\ \/ UNCHANGED panels
       \/ \E missing \in SUBSET Optional \ {{}} :
            panels' = [part \in Panes |-> IF part \in missing THEN None ELSE Answers(kept[loading.of])[part]]
    /\ loading' = NotLoading
    /\ UNCHANGED <<signedIn, signIns, serverVars, listed, selected, dataId, fetching, job, entry, handled, requests>>

-----------------------------------------------------------------------------
(* The panels of goals and plans: one request at a time, made for what is shown. *)

Ask(act, at) ==
    /\ activeSummary /\ ~workflowBusy
    /\ requests < MaxRequests /\ requests' = requests + 1
    /\ job' = [act |-> act, of |-> selected, at |-> at, state |-> "sent"]
    /\ UNCHANGED <<signedIn, signIns, serverVars, listed, selected, dataId, panels, fetching, loading, entry, handled,
                   faults>>

\* A plan needs a policy and no plan in progress.
onGenerate == activeSummary /\ panels["policy"] # None /\ ~openRun /\ Ask("generate", panels["plans"].at)
onApprove == shownStatus = "pending" /\ Ask("approve", panels["plans"].at)
onReject == openRun /\ Ask("reject", panels["plans"].at)
onComplete == shownStatus = "approved" /\ Ask("complete", panels["plans"].at)

\* A goal is saved on the version shown, or as the first one if none is shown (-1: no goal is expected).
saveGoal == Ask("goal", IF panels["goal"] = None THEN -1 ELSE panels["goal"].at)

\* It is paused, resumed, archived or completed.
mutateGoalStatus == panels["goal"] # None /\ Ask("goal", panels["goal"].at)

\* The server changes a part of portfolio p.
Change(p, part) ==
    /\ changes < MaxChanges /\ changes' = changes + 1
    /\ kept' = [kept EXCEPT ![p][part] = @ + 1]

ChangePlan(p, status) ==
    Change(p, "plans") /\ statuses' = [statuses EXCEPT ![p] = Append(@, status)]

status(p) == IF statuses[p] = <<>> THEN "none" ELSE statuses[p][Len(statuses[p])]

\* The request was served; its answer is the part in this version.
Done(version) == [act |-> job.act, of |-> job.of, at |-> version, state |-> "done"]

\* What the server makes of the request: it may refuse, and a refused one may have ended the plan all the same.
JobServed ==
    /\ job.state = "sent"
    /\ LET p == job.of IN
       \/ /\ job.act = "generate" /\ status(p) \notin OpenStatuses /\ p \in active
          /\ ChangePlan(p, "pending") /\ job' = Done(kept[p]["plans"] + 1)
       \/ /\ job.act = "approve" /\ status(p) = "pending" /\ job.at = kept[p]["plans"]
          /\ ChangePlan(p, "approved") /\ job' = Done(kept[p]["plans"] + 1)
       \/ /\ job.act \in {"reject", "complete"} /\ status(p) \in OpenStatuses /\ job.at = kept[p]["plans"]
          /\ ChangePlan(p, "closed") /\ job' = Done(kept[p]["plans"] + 1)
       \/ /\ job.act = "goal" /\ job.at = kept[p]["goal"]
          /\ Change(p, "goal") /\ job' = Done(kept[p]["goal"] + 1)
          /\ UNCHANGED statuses
       \/ job' = [job EXCEPT !.state = "refused"] /\ UNCHANGED <<kept, statuses, changes>>
       \/ /\ job.act \in {"approve", "complete"} /\ status(p) \in OpenStatuses
          /\ ChangePlan(p, "closed") /\ job' = [job EXCEPT !.state = "refused"]
    /\ UNCHANGED <<signedIn, signIns, active, listed, selected, dataId, panels, fetching, loading, entry, handled, requests, faults>>

\* Mutant: the answer is shown, and the load under way goes on.
JobAnsweredWithoutLoad ==
    /\ job.state = "done"
    /\ LET part == IF job.act = "goal" THEN "goal" ELSE "plans" IN
       panels' = [panels EXCEPT ![part] = [of |-> job.of, at |-> job.at]]
    /\ job' = NoRequest
    /\ UNCHANGED <<signedIn, signIns, serverVars, listed, selected, dataId, loading, fetching, entry, handled, requests, faults>>

\* The answer is shown, and the portfolio it was made for is loaded anew.
JobAnswered ==
    /\ job.state = "done"
    /\ UNCHANGED <<signedIn, signIns, serverVars, listed, selected, fetching, entry, handled, requests, faults>>
    /\ LET part == IF job.act = "goal" THEN "goal" ELSE "plans" IN
       refreshSelected(job.of, [panels EXCEPT ![part] = [of |-> job.of, at |-> job.at]])
    /\ job' = NoRequest

\* A refusal, or an answer that was lost: an error is shown, after the same load.
JobFailed ==
    /\ \/ job.state = "refused" /\ UNCHANGED faults
       \/ job.state \in {"sent", "done"} /\ faults < MaxFaults /\ faults' = faults + 1
    /\ UNCHANGED <<signedIn, signIns, serverVars, listed, selected, fetching, entry, handled, requests>>
    /\ refreshSelected(job.of, panels)
    /\ job' = NoRequest

-----------------------------------------------------------------------------
(* The dialogs and the toolbar. *)

\* A transaction, a reversal or a thesis; the policy; a portfolio is archived or created.
Enter(act) ==
    /\ signedIn /\ entry = NoRequest
    /\ CASE act \in {"books", "archive"} -> selected # None
         [] act = "policy" -> activeSummary
         [] act = "create" -> active # Portfolios
    /\ requests < MaxRequests /\ requests' = requests + 1
    /\ entry' = [act |-> act, of |-> selected, at |-> 0, state |-> "sent"]
    /\ UNCHANGED <<signedIn, signIns, serverVars, listed, selected, dataId, panels, fetching, loading, job, handled,
                   faults>>

EntryServed ==
    /\ entry.state = "sent"
    /\ \/ /\ entry.act \in {"books", "policy"} /\ UNCHANGED serverVars
          /\ entry' = [entry EXCEPT !.state = "done"]
       \/ /\ entry.act = "archive" /\ active' = active \ {entry.of} /\ UNCHANGED <<kept, statuses, changes>>
          /\ entry' = [entry EXCEPT !.state = "done"]
       \/ /\ entry.act = "create"
          /\ \E p \in Portfolios \ active :
               active' = active \cup {p} /\ entry' = [act |-> "create", of |-> p, at |-> 0, state |-> "done"]
          /\ UNCHANGED <<kept, statuses, changes>>
    /\ UNCHANGED <<signedIn, signIns, listed, selected, dataId, panels, fetching, loading, job, handled, requests, faults>>

EntryAnswered ==
    /\ entry.state = "done" /\ entry' = NoRequest
    /\ UNCHANGED <<signedIn, signIns, serverVars, listed, selected, job, handled, requests, faults>>
    /\ CASE entry.act = "books" -> refreshSelected(entry.of, panels) /\ UNCHANGED fetching
         [] entry.act = "policy" -> /\ panels' = [panels EXCEPT !["policy"] = [of |-> entry.of, at |-> entry.at]]
                                    /\ UNCHANGED <<dataId, loading, fetching>>
         [] entry.act = "archive" -> refreshPortfolios(None) /\ UNCHANGED <<dataId, panels, loading>>
         [] entry.act = "create" -> refreshPortfolios(entry.of) /\ UNCHANGED <<dataId, panels, loading>>

\* Refused or not answered: the dialog says so, and nothing is loaded.
EntryFailed ==
    /\ entry.state \in {"sent", "done"} /\ faults < MaxFaults /\ faults' = faults + 1
    /\ entry' = NoRequest
    /\ UNCHANGED <<signedIn, signIns, serverVars, listed, selected, dataId, panels, fetching, loading, job, handled, requests>>

\* Another device, or the daily maintenance, changes a part.
Elsewhere(p) ==
    /\ \/ Change(p, "goal") /\ UNCHANGED statuses
       \/ status(p) \in OpenStatuses /\ ChangePlan(p, "closed")
       \/ status(p) \notin OpenStatuses /\ ChangePlan(p, "pending")
    /\ UNCHANGED <<signedIn, signIns, active, listed, selected, dataId, panels, fetching, loading, job, entry, handled,
                   requests, faults>>

-----------------------------------------------------------------------------

DeskNext ==
    \/ SignIn \/ SignOut
    \/ ListAnswered \/ ListFailed
    \/ \E p \in Portfolios : UserSelects(p) \/ Elsewhere(p)
    \/ FollowLink
    \/ PollDesk \/ LoadAnswered \/ LoadFailed
    \/ onGenerate \/ onApprove \/ onReject \/ onComplete \/ saveGoal \/ mutateGoalStatus
    \/ JobServed \/ JobAnswered \/ JobFailed
    \/ \E act \in {"books", "policy", "archive", "create"} : Enter(act)
    \/ EntryServed \/ EntryAnswered \/ EntryFailed

\* A timer polls, requests are answered in the end, and now and then a load is answered before the next poll.
DeskFairness ==
    /\ WF_deskVars(PollDesk)
    /\ WF_deskVars(JobServed) /\ WF_deskVars(JobAnswered \/ JobFailed)
    /\ WF_deskVars(EntryServed) /\ WF_deskVars(EntryAnswered)

DeskSpec == DeskInit /\ [][DeskNext]_deskVars /\ DeskFairness /\ SF_deskVars(LoadAnswered)

-----------------------------------------------------------------------------

\* The answers of a load never put an older state of a plan or goal in the place of a newer one that was shown,
\* as by the answer of a request.
NothingOlder ==
    LoadAnswered => \A part \in Kept :
        panels[part] # None /\ panels'[part] # None /\ panels[part].of = panels'[part].of
          => panels'[part].at >= panels[part].at

\* Whatever answers came for portfolios selected before: plans and goal are shown under their own portfolio only,
\* and the page never goes back to an older state of them.
\* (The policy is not promised: its dialog's answer is shown unasked.)
ShownInOrder ==
    /\ [](activeSummary => \A part \in Kept : panels[part] # None => panels[part].of = selected)
    /\ [][NothingOlder]_deskVars

\* A page that stays signed in shows the portfolio selected and its last plan, again and again.
ShowsTheSelection ==
    []<>(signedIn /\ selected # None
           => activeSummary /\ panels["plans"].at = kept[selected]["plans"])

=============================================================================
