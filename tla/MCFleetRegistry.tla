-------------------------- MODULE MCFleetRegistry --------------------------
(* A model-checking instance of the fleet registry: three ids, a template    *)
(* that expands downwards (as to c9 and c10), and distributions that are     *)
(* mixed, one-sided and empty.                                               *)
EXTENDS FleetRegistry

MCVersions == {"OCPP16J", "OCPP201"}
MCTemplates == {[i \in 0..(MaxCount - 1) |-> NumChargers - i]}
Counts(a, b) == [v \in MCVersions |-> IF v = "OCPP16J" THEN a ELSE b]
MCDistributions == {Counts(1, 2), Counts(0, 2), Counts(0, 0)}
MCFilters ==
  {[version |-> "any", state |-> "any"],
   [version |-> "OCPP201", state |-> "DISCONNECTED"]}
=============================================================================
