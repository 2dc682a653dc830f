----------------------------- MODULE LocalAlerts -----------------------------
(***************************************************************************)
(* The alerts only a browser knows, in several of its tabs.  Each tab has an     *)
(* engine of its own with its own prices, and watches every alert by them; the   *)
(* list is stored whole, and each store comes to the other tabs as an event.     *)
(***************************************************************************)
EXTENDS Integers, Sequences, FiniteSets

CONSTANTS
  Tabs, Alerts,
  Above,                 \* the alerts that wait for a rise, the others for a fall
  Ticks, Target,        \* one symbol, one target
  Seed,                  \* the price every engine starts with
  MaxStores               \* stores of the list

VARIABLES
  price,       \* the price of each tab's engine
  alerts,      \* each tab's list: the state of each alert it holds
  last,        \* each tab's lastPrices
  stored,      \* the list in the storage
  events,      \* lists on their way to each tab
  stores,
  added,       \* alerts ever added
  witnessed    \* the prices each tab had since it holds an alert

localVars == <<price, alerts, last, stored, events, stores, added, witnessed>>

NoPrice == -1
AlertsOf(list) == DOMAIN list

didCrossThreshold(a, previous, current) ==
    IF a \in Above THEN previous < Target /\ current >= Target
    ELSE previous > Target /\ current <= Target

TabsTypeOK ==
    /\ price \in [Tabs -> Ticks] /\ last \in [Tabs -> [Alerts -> Ticks \cup {NoPrice}]]
    /\ \A t \in Tabs : AlertsOf(alerts[t]) \subseteq Alerts /\ alerts[t] \in [AlertsOf(alerts[t]) -> {"armed", "triggered"}]
    /\ stores \in 0..MaxStores /\ added \subseteq Alerts /\ witnessed \in [Tabs -> [Alerts -> SUBSET Ticks]]

NoAlerts == [a \in {} |-> "armed"]

TabsInit ==
    /\ price = [t \in Tabs |-> Seed]
    /\ alerts = [t \in Tabs |-> NoAlerts] /\ stored = NoAlerts
    /\ last = [t \in Tabs |-> [a \in Alerts |-> NoPrice]]
    /\ events = [t \in Tabs |-> <<>>]
    /\ stores = 0 /\ added = {}
    /\ witnessed = [t \in Tabs |-> [a \in Alerts |-> {}]]

\* The list of a tab is stored, and sent to the others.
persist(t, list) ==
    /\ stores < MaxStores /\ stores' = stores + 1
    /\ stored' = list
    /\ events' = [u \in Tabs |-> IF u = t THEN events[u] ELSE Append(events[u], list)]

\* Mutant: alerts that are gone keep their baseline.
refreshBaselinesOfNew(t, list) ==
    /\ alerts' = [alerts EXCEPT ![t] = list]
    /\ last' = [last EXCEPT ![t] = [a \in Alerts |->
            IF a \in AlertsOf(list) /\ last[t][a] = NoPrice THEN price[t] ELSE last[t][a]]]
    /\ witnessed' = [witnessed EXCEPT ![t] = [a \in Alerts |->
            IF a \notin AlertsOf(list) THEN {} ELSE witnessed[t][a] \cup {price[t]}]]

\* A tab takes a list over.  Alerts it held keep their baseline, new ones get the present price, and
\* those that are gone lose theirs.
refreshBaselines(t, list) ==
    /\ alerts' = [alerts EXCEPT ![t] = list]
    /\ last' = [last EXCEPT ![t] = [a \in Alerts |->
            IF a \notin AlertsOf(list) THEN NoPrice ELSE IF last[t][a] = NoPrice THEN price[t] ELSE last[t][a]]]
    /\ witnessed' = [witnessed EXCEPT ![t] = [a \in Alerts |->
            IF a \notin AlertsOf(list) THEN {} ELSE witnessed[t][a] \cup {price[t]}]]

-----------------------------------------------------------------------------

\* The user adds an alert in a tab; the price of the moment is its baseline.
addAlert(t, a) ==
    /\ a \notin added /\ added' = added \cup {a}
    /\ LET list == [b \in AlertsOf(alerts[t]) \cup {a} |-> IF b = a THEN "armed" ELSE alerts[t][b]] IN
       persist(t, list) /\ refreshBaselines(t, list)
    /\ UNCHANGED price

\* The user deletes an alert in a tab.
removeAlert(t, a) ==
    /\ a \in AlertsOf(alerts[t])
    /\ LET list == [b \in AlertsOf(alerts[t]) \ {a} |-> alerts[t][b]] IN
       persist(t, list) /\ refreshBaselines(t, list)
    /\ UNCHANGED <<price, added>>

\* The engine of a tab publishes a price: the tab remembers it, and triggers the alerts it crosses.
Batch(t, p) ==
    LET own == alerts[t]
        crossed == {a \in AlertsOf(own) : own[a] = "armed" /\ didCrossThreshold(a, last[t][a], p)}
        list == [a \in AlertsOf(own) |-> IF a \in crossed THEN "triggered" ELSE own[a]] IN
    /\ p # price[t]
    /\ price' = [price EXCEPT ![t] = p]
    /\ last' = [last EXCEPT ![t] = [a \in Alerts |-> IF a \in AlertsOf(own) /\ own[a] = "armed" THEN p ELSE last[t][a]]]
    /\ witnessed' = [witnessed EXCEPT ![t] = [a \in Alerts |-> IF a \in AlertsOf(own) THEN @[a] \cup {p} ELSE {}]]
    /\ alerts' = [alerts EXCEPT ![t] = list]
    /\ IF crossed # {} THEN persist(t, list) ELSE UNCHANGED <<stored, events, stores>>
    /\ UNCHANGED added

\* The event of another tab's store: the tab takes the whole list over.
StorageEvent(t) ==
    /\ events[t] # <<>>
    /\ events' = [events EXCEPT ![t] = Tail(@)]
    /\ refreshBaselines(t, Head(events[t]))
    /\ UNCHANGED <<price, stored, stores, added>>

\* The tab is loaded anew: its engine starts over, and the stored alerts wait from its price on.
Reload(t) ==
    /\ price' = [price EXCEPT ![t] = Seed]
    /\ alerts' = [alerts EXCEPT ![t] = stored] /\ events' = [events EXCEPT ![t] = <<>>]
    /\ last' = [last EXCEPT ![t] = [a \in Alerts |-> IF a \in AlertsOf(stored) THEN Seed ELSE NoPrice]]
    /\ witnessed' = [witnessed EXCEPT ![t] = [a \in Alerts |-> IF a \in AlertsOf(stored) THEN {Seed} ELSE {}]]
    /\ UNCHANGED <<stored, stores, added>>

-----------------------------------------------------------------------------

TabsNext ==
    \E t \in Tabs :
        \/ \E a \in Alerts : addAlert(t, a) \/ removeAlert(t, a)
        \/ \E p \in Ticks : Batch(t, p)
        \/ StorageEvent(t) \/ Reload(t)

TabsSpec == TabsInit /\ [][TabsNext]_localVars

\* An alert that fires in a tab crossed its target while that very tab held it: whatever lists the tabs
\* sent each other, no price from before is a baseline, so that an alert never fires when it comes.
FiredWhileHeld ==
    \A t \in Tabs, p \in Ticks, a \in Alerts :
      Batch(t, p) /\ a \in AlertsOf(alerts[t]) /\ alerts[t][a] # alerts'[t][a]
        => \E before \in witnessed[t][a] : didCrossThreshold(a, before, p)

\* So it is in every step.
FiresOnlyWhileHeld == [][FiredWhileHeld]_localVars

\* Tabs without an event on its way show the same alerts.
TabsAgree == (\A t \in Tabs : events[t] = <<>>) => \A t, u \in Tabs : alerts[t] = alerts[u]

=============================================================================
