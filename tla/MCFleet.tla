------------------------------ MODULE MCFleet -------------------------------
(* Model-checking instances of the fleet simulator.                          *)
EXTENDS FleetProperties

(* Handlers and transaction ids are interchangeable: no definition compares  *)
(* them other than for equality.  Not used in the runs with liveness.        *)
Symmetry == Permutations(Handlers) \cup Permutations(Txs)
=============================================================================
