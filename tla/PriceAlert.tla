------------------------------ MODULE PriceAlert ------------------------------
(***************************************************************************)
(* What the owner of price alerts is promised: an alert that is armed      *)
(* fires when, and only when, the observed price steps from one side of    *)
(* its target to the other, and it fires once.                             *)
(***************************************************************************)
EXTENDS Integers

CONSTANTS
  Alerts,      \* alerts that may ever be created
  Condition,   \* Alerts -> {"above", "below"}
  Prices,      \* observable prices
  Target       \* the target of every alert

VARIABLES
  state,   \* Alerts -> {"none", "armed", "triggered", "deleted"}
  last     \* Alerts -> the price observed last

vars == <<state, last>>

Crosses(condition, previous, current) ==
  IF condition = "above" THEN previous < Target /\ current >= Target
  ELSE previous > Target /\ current <= Target

Init == state = [a \in Alerts |-> "none"] /\ last = [a \in Alerts |-> 0]

Observe(a, price) ==
  /\ last' = [last EXCEPT ![a] = price]
  /\ \/ /\ state[a] = "none"
        /\ state' = [state EXCEPT ![a] = "armed"]
     \/ /\ state[a] = "armed" /\ ~Crosses(Condition[a], last[a], price)
        /\ state' = state
     \/ /\ state[a] = "armed" /\ Crosses(Condition[a], last[a], price)
        /\ state' = [state EXCEPT ![a] = "triggered"]

Delete(a) ==
  /\ state[a] \in {"armed", "triggered"}
  /\ state' = [state EXCEPT ![a] = "deleted"]
  /\ UNCHANGED last

Next == \E a \in Alerts : Delete(a) \/ \E price \in Prices : Observe(a, price)

Spec == Init /\ [][Next]_vars
=============================================================================
