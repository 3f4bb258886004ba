------------------------------ MODULE TxLedger ------------------------------
(* What the simulator promises about one charging transaction id, whoever    *)
(* starts, stops, deletes or disconnects concurrently: its life is           *)
(*   fresh -> pending -> active -> gone -> announced                         *)
(* with shortcuts forward and never a step back.  A transaction that was     *)
(* stopped never becomes active again, and TX_STOPPED is announced only for  *)
(* one that is gone.  No Go source corresponds to this module: it is the     *)
(* specification Fleet.tla implements.                                       *)
CONSTANT Txs
VARIABLE phase

Phases == {"fresh", "pending", "active", "gone", "announced"}

Init == phase = [t \in Txs |-> "fresh"]

Move(t, from, to) == phase[t] \in from /\ phase' = [phase EXCEPT ![t] = to]

(* A client's start picks an id first and stores the transaction later; the  *)
(* charger may be gone by then.  The event loop does both at once.           *)
Reserve(t)  == Move(t, {"fresh"}, "pending")
Activate(t) == Move(t, {"fresh", "pending"}, "active")
Lose(t)     == Move(t, {"fresh", "pending"}, "gone")

(* A stop ends one transaction, a deletion or a disconnect ends several.     *)
End(S) ==
  /\ \A t \in S : phase[t] = "active"
  /\ phase' = [t \in Txs |-> IF t \in S THEN "gone" ELSE phase[t]]

Announce(t) == Move(t, {"gone"}, "announced")

Next ==
  \/ \E t \in Txs : Reserve(t) \/ Activate(t) \/ Lose(t) \/ Announce(t)
  \/ \E S \in SUBSET Txs : End(S)

Spec == Init /\ [][Next]_phase
=============================================================================
