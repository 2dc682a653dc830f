--------------------------- MODULE MCPlanWorkflow ---------------------------
(***************************************************************************)
(* One run for parts of the server that meet in no variable: the plans of a    *)
(* portfolio, the monitor rules with their digests, and a notice on its way    *)
(* out.  A behaviour is one of one part; the others rest where they start.     *)
(* The plans have three parts, which share PlanWorkflow's state and actions:   *)
(*   plans  both kinds of plan, overlapping invocations, few edits             *)
(*   race   contribution plans, overlapping while their goal is edited         *)
(*   goal   contribution plans, one invocation at a time, more edits           *)
(***************************************************************************)
EXTENDS PlanWorkflow, MonitorRules, NoticeSending

CONSTANTS
  Parts,                 \* the parts to check
  FewEdits,              \* bound: edits of the owner where invocations overlap
  k1, k2, k3, s1, p, q, u1, u2, b1, b2

VARIABLE part

allVars == <<part, vars, monitorVars, sendingVars>>

-----------------------------------------------------------------------------
(* The instances.                                                              *)

\* User keys are interchangeable, and so are server invocations.
Symmetry == Permutations(Keys) \cup Permutations(Procs)

OnePortfolio == [r \in Rules |-> 1]

-----------------------------------------------------------------------------

MCInit ==
  /\ part \in Parts
  /\ Init /\ MonitorInit
  /\ SendingInit /\ (part = "notice" \/ channel = "email")

\* The owner's edits: no completion of a plan, no reversal of what it booked.
Edited ==
  Edits - 2
  - Cardinality({r \in DOMAIN runs : runs[r].booked > 0})
  - Cardinality({i \in DOMAIN events : events[i].event = "execution_reversed"})

Busy == {x \in Procs : calls[x].step # "idle"}
Overlapping == Cardinality(Busy) > 1
OnlyContributions == \A x \in Busy : calls[x].kind = "contribution"
OneGenerates == \E x \in Busy : calls[x].request.op = "generate"

\* Two contribution plans, one of them being generated, overlap in part "race", where
\* the goal alone is edited; every other two invocations do in part "plans".
PlanBounds ==
  /\ part = "plans" =>
       Edited <= FewEdits /\ (Overlapping => ~(OnlyContributions /\ OneGenerates))
  /\ part = "race" =>
       /\ OnlyContributions
       /\ Edited = goal.version /\ Edited <= FewEdits + 1
       /\ Overlapping => OneGenerates
  /\ part = "goal" => OnlyContributions /\ ~Overlapping

MCNext ==
  \/ /\ part \in {"plans", "race", "goal"}
     /\ Next
     /\ UNCHANGED <<part, monitorVars, sendingVars>>
     /\ PlanBounds'
  \/ part = "monitors" /\ MonitorNext /\ UNCHANGED <<part, vars, sendingVars>>
  \/ part = "notice" /\ SendingNext /\ UNCHANGED <<part, vars, monitorVars>>

MCSpec == MCInit /\ [][MCNext]_allVars
=============================================================================
