----------------------------- MODULE MCEventHub -----------------------------
(* A model-checking instance of the fleet's event hub and its counters.      *)
EXTENDS EventHub
=============================================================================
