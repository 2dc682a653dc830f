---------------------------- MODULE PlanLifecycle ----------------------------
(***************************************************************************)
(* What the owner of a portfolio is promised about investment plans: at    *)
(* most one waits for him at a time, a plan is carried out at most once    *)
(* and only after he approved it, and a plan that was completed, rejected  *)
(* or expired stays so.  Versions, keys, events and calls are not seen.    *)
(***************************************************************************)
EXTENDS Naturals, Sequences

VARIABLES
  plans,   \* the status of each plan ever proposed
  booked   \* the plans whose fills are in the ledger

vars == <<plans, booked>>

Open(r) == plans[r] \in {"pending", "approved"}

Init == plans = <<>> /\ booked = {}

\* A new plan takes the place of the open one, if there is one.
Propose ==
  /\ \/ /\ \A r \in DOMAIN plans : ~Open(r)
        /\ plans' = Append(plans, "pending")
     \/ \E r \in DOMAIN plans :
          /\ Open(r) /\ \A s \in DOMAIN plans : Open(s) => s = r
          /\ plans' = Append([plans EXCEPT ![r] = "expired"], "pending")
  /\ UNCHANGED booked

Approve(r) ==
  /\ plans[r] = "pending"
  /\ plans' = [plans EXCEPT ![r] = "approved"]
  /\ UNCHANGED booked

Close(r) ==
  /\ Open(r)
  /\ \E status \in {"rejected", "expired"} : plans' = [plans EXCEPT ![r] = status]
  /\ UNCHANGED booked

CarryOut(r) ==
  /\ plans[r] = "approved" /\ r \notin booked
  /\ plans' = [plans EXCEPT ![r] = "completed"]
  /\ booked' = booked \cup {r}

Next ==
  \/ Propose
  \/ \E r \in DOMAIN plans : Approve(r) \/ Close(r) \/ CarryOut(r)

Spec == Init /\ [][Next]_vars
=============================================================================
