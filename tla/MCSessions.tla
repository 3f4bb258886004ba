----------------------------- MODULE MCSessions -----------------------------
(* Model-checking instances of the OCPI sessions.                            *)
EXTENDS Sessions, TLC

(* Handlers are only compared for equality.  Ids are not in the set: Init    *)
(* picks one of them for the idle requests.                                  *)
Symmetry == Permutations(Handlers)
=============================================================================
