-------------------------- MODULE MCProviderCircuit --------------------------
(* Values for checking ProviderCircuit: an instance that shares an Upstash cache  *)
(* and serves quotes, and one on its own that serves quotes and histories.        *)
EXTENDS ProviderCircuit

CONSTANTS q, h

MCDeployments == {[keys |-> {q}, shared |-> TRUE], [keys |-> {q, h}, shared |-> FALSE]}
=============================================================================
