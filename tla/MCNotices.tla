------------------------------ MODULE MCNotices ------------------------------
(***************************************************************************)
(* One run for what users and operators are told: the queues of notices, the    *)
(* answers to requests at the gateway, and the reports of the operations        *)
(* console.  The parts meet in no variable; a behaviour is one of one part.      *)
(***************************************************************************)
EXTENDS DeliveryQueue, ApiGateway, OpsWatch

CONSTANTS
  Parts,                 \* the parts to check
  w1, w2, d1, d2, r1, r2, g1, i1, i2, alpaca

VARIABLES part

allVars == <<part, vars, watchVars, gatewayVars>>

MCRoutes ==
  {"watchlist", "push", "alerts", "portfolios", "transactions", "summary", "scenario", "snapshots",
   "monitorStatus", "allocation", "goal", "research", "rebalances", "contributions"}
MCConfigured == {[i \in Instances |-> IF i = i1 THEN {alpaca} ELSE {}], [i \in Instances |-> {alpaca}]}

-----------------------------------------------------------------------------

MCInit ==
  /\ part \in Parts
  /\ Init /\ (part # "queues" => queue = "alert")
  /\ WatchInit /\ (part # "ops" => configured = CHOOSE c \in Configured : TRUE)
  /\ GatewayInit /\ (part # "gateway" => route = "push")

MCNext ==
  \/ part = "queues" /\ Next /\ UNCHANGED <<part, watchVars, gatewayVars>>
  \/ part = "ops" /\ WatchNext /\ UNCHANGED <<part, vars, gatewayVars>>
  \/ part = "gateway" /\ GatewayNext /\ UNCHANGED <<part, vars, watchVars>>

\* The fairness of DeliveryQueue, in its own behaviours.
MCFairness ==
  /\ WF_vars(part = "queues" /\ Tick) /\ WF_vars(part = "queues" /\ Expire)
  /\ \A d \in Deliveries :
       /\ SF_vars(part = "queues" /\ Takes(d))
       /\ SF_vars(part = "queues" /\ Answers(d))

MCSpec == MCInit /\ [][MCNext]_allVars /\ MCFairness

-----------------------------------------------------------------------------
(* The properties of the parts.                                                *)

\* In a behaviour of the queues every notice settles.
EveryNoticeIsSettled == part = "queues" => EveryNoticeSettles
=============================================================================
