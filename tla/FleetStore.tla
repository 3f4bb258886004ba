----------------------------- MODULE FleetStore -----------------------------
(* The fleet store of internal/fleet/store.go: a map from charger ids to     *)
(* chargers behind one mutex.  Every operation is one critical section, so   *)
(* each is one operator on `chargers`; the callers in Fleet.tla decide which *)
(* critical sections interleave.  Reads hand out deep copies (cloneCharger), *)
(* which is what TLA+ values are.                                            *)
(*                                                                           *)
(* Kept of a charger: its connection state, one configuration value (the     *)
(* heartbeat interval, 0 standing for "not given"), the status of each       *)
(* connector and the active transactions.  Left out: identity, URL, tags,    *)
(* version, remote host and the timestamps, which no property reads.         *)
EXTENDS Integers, Sequences, FiniteSets, SequencesExt

CONSTANTS
  NumChargers,       \* chargers are numbered in the order of their ids
  NumConnectors,     \* connectors of every charger; the first one is 1
  Txs,               \* transaction ids NewJobID can hand out
  Heartbeats,        \* heartbeat intervals clients send
  NoCharger          \* what the map holds for an id it does not know

ChargerIds == 1..NumChargers
Connectors == 1..NumConnectors

DefaultHeartbeat == 60
Configs == Heartbeats \cup {DefaultHeartbeat}

ConnectionStates ==
  {"DISCONNECTED", "CONNECTING", "CONNECTED", "DISCONNECTING", "ERROR"}
Statuses == {"Available", "Faulted"}

(* sim tells a transaction the event loop started from one a client started. *)
Transaction ==
  [id: Txs, conn: Connectors, start: Nat, meter: Nat, sim: BOOLEAN]

Charger ==
  [state: ConnectionStates, config: Configs, health: [Connectors -> Statuses],
   txs: Seq(Transaction)]

ASSUME FleetAssumption ==
  /\ NumChargers \in Nat \ {0}
  /\ NumConnectors \in Nat \ {0}
  /\ Heartbeats \subseteq Nat
  /\ NoCharger \notin Charger

VARIABLE chargers
-----------------------------------------------------------------------------
Present(c) == chargers[c] # NoCharger
TxsOf(c)   == IF Present(c) THEN chargers[c].txs ELSE <<>>
StateOf(c) == IF Present(c) THEN chargers[c].state ELSE "DISCONNECTED"

ApplyDefaults(charger) ==
  [charger EXCEPT !.config = IF @ = 0 THEN DefaultHeartbeat ELSE @]

(* A charger as the documented payload describes it: no runtime, no          *)
(* connection state, connectors without a status.                            *)
NewCharger(config) ==
  [state |-> "DISCONNECTED", config |-> config,
   health |-> [k \in Connectors |-> "Available"], txs |-> <<>>]

AddCharger(c, charger) ==
  /\ ~Present(c)
  /\ chargers' = [chargers EXCEPT ![c] = ApplyDefaults(charger)]

(* Mutant: the copy is stored as it is, runtime and connection state too.    *)
UpdateChargerWhole(c, charger) ==
  chargers' = IF Present(c) THEN [chargers EXCEPT ![c] = ApplyDefaults(charger)]
                            ELSE chargers

(* The write-back of a copy read earlier: the runtime and the connection     *)
(* state are those of the map, everything else is the copy's.                *)
UpdateCharger(c, charger) ==
  chargers' = IF Present(c)
              THEN [chargers EXCEPT ![c] =
                      ApplyDefaults([charger EXCEPT !.txs = TxsOf(c),
                                                    !.state = StateOf(c)])]
              ELSE chargers

RemoveCharger(c) ==
  chargers' = [chargers EXCEPT ![c] = NoCharger]

UpdateConnectionState(c, state) ==
  chargers' = IF Present(c) THEN [chargers EXCEPT ![c].state = state]
                            ELSE chargers

(* The runtime's transactions become txs, computed under the lock.           *)
UpdateRuntime(c, txs) ==
  chargers' = IF Present(c) THEN [chargers EXCEPT ![c].txs = txs]
                            ELSE chargers

UpdateConfig(c, config) ==
  /\ Present(c)
  /\ chargers' = [chargers EXCEPT ![c].config = config]
=============================================================================
