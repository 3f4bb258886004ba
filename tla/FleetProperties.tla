-------------------------- MODULE FleetProperties ---------------------------
(* What the fleet simulator of Fleet.tla guarantees, and what it does not.   *)
EXTENDS Fleet

Stored(t) == \E c \in ChargerIds : \E i \in DOMAIN TxsOf(c) : TxsOf(c)[i].id = t
Carries(h, point, t) == At(h, point) /\ req[h].tx.id = t

-----------------------------------------------------------------------------
(* Safety.                                                                   *)

(* No two places in the store hold one transaction id.                       *)
TxUnique ==
  \A c, d \in ChargerIds :
    \A i \in DOMAIN TxsOf(c), j \in DOMAIN TxsOf(d) :
      TxsOf(c)[i].id = TxsOf(d)[j].id => c = d /\ i = j

(* A transaction is active at most once, and never after its TX_STOPPED,     *)
(* although connect, status and fault requests write back copies read before *)
(* the stop (handlers_fleet.go:332, 338, 684, 715, 728): no write-back       *)
(* brings a stopped transaction back.                                        *)
ActiveOnce ==
  /\ TxUnique
  /\ \A c \in ChargerIds : \A i \in DOMAIN TxsOf(c) :
       log[TxsOf(c)[i].id].stops = 0

(* TX_STOPPED is published at most once per transaction, although two stop   *)
(* requests for it may be in flight together with starts, write-backs and    *)
(* deletions (handlers_fleet.go:618-635).                                    *)
StopOnce == \A t \in Txs : log[t].stops <= 1

(* METER_VALUE may be published after TX_STOPPED, because the loop works on  *)
(* the copy it listed (fleet_event_loop.go:25), but at most once per         *)
(* transaction: the next tick lists the chargers again.                      *)
LateTelemetryBounded == \A t \in Txs : log[t].late <= 1

(* The event loop never starts a second simulated transaction on a charger   *)
(* while its first one is active, although it decides on a copy              *)
(* (fleet_event_loop.go:37, 46, 179).                                        *)
OneSimulatedTx ==
  \A c \in ChargerIds :
    \A i, j \in DOMAIN TxsOf(c) :
      TxsOf(c)[i].sim /\ TxsOf(c)[j].sim => i = j

(* While the loop executes a step of the event cycle for a charger (DMS,     *)
(* START, UNPLUG, ...) that charger has no simulated transaction in the      *)
(* store: no UNPLUG during simulated charging (fleet_event_loop.go:37-50).   *)
CycleIdleWhileSimulating ==
  \A c \in ChargerIds :
    loop.at = "cycle" /\ IsCurrent(c) =>
      \A i \in DOMAIN TxsOf(c) : ~TxsOf(c)[i].sim

(* A charger shown CONNECTING or DISCONNECTING has a goroutine in flight     *)
(* that will settle it; a write-back of a stale copy, a deletion and         *)
(* re-creation, or a racing handler never leaves it stuck there              *)
(* (handlers_fleet.go:384-405, 1153-1162, 1170-1179).                        *)
TransitionalOwned ==
  \A c \in ChargerIds :
    /\ StateOf(c) = "CONNECTING" =>
         \E h \in Handlers : At(h, "bulkDial") /\ req[h].c = c
    /\ StateOf(c) = "DISCONNECTING" =>
         \E h \in Handlers :
           (At(h, "hangup") \/ At(h, "bulkHangup")) /\ req[h].c = c

(* The readings published for one transaction never decrease, although the   *)
(* loop may write one transaction's reading into another                     *)
(* (fleet_event_loop.go:218-223, 159).                                       *)
PublishedMeterGrows == [][\A t \in Txs : log[t].wh <= log'[t].wh]_vars

-----------------------------------------------------------------------------
(* The inductive strengthenings of the safety invariants.                    *)
(* Every id handed out is in one place only: in the store, or with the       *)
(* handler that is about to store it or about to announce its stop; only an  *)
(* id that is in none of them has been announced, and only once.             *)
OnePlace ==
  /\ TxUnique
  /\ \A c \in ChargerIds : \A i \in DOMAIN TxsOf(c) :
       TxsOf(c)[i].id \in used /\ log[TxsOf(c)[i].id].stops = 0
  /\ \A h \in Handlers : Carrying(h) =>
       /\ req[h].tx.id \in used
       /\ log[req[h].tx.id].stops = 0
       /\ \A c \in ChargerIds : \A i \in DOMAIN TxsOf(c) :
            TxsOf(c)[i].id # req[h].tx.id
       /\ \A g \in Handlers :
            Carrying(g) /\ req[g].tx.id = req[h].tx.id => g = h
  /\ \A t \in Txs : log[t].stops <= 1 /\ (log[t].stops > 0 => t \in used)

(* What the event loop may still rely on: a simulated transaction of a       *)
(* charger it has yet to visit is in the copy it holds, and it is at a step  *)
(* of the cycle only for a copy without transactions.                        *)
CopyShowsSimulated ==
  /\ \A c \in ChargerIds : loop.snap[c] # NoCharger =>
       \A i \in DOMAIN TxsOf(c) : TxsOf(c)[i].sim =>
         loop.snap[c].txs # <<>>
  /\ \A c \in ChargerIds :
       loop.at = "cycle" /\ IsCurrent(c) => loop.snap[c].txs = <<>>

(* The first transaction of a copy the event loop has yet to deal with: a    *)
(* reading is published under its id, and written to whatever is first in    *)
(* the store.                                                                *)
Copied(c) == loop.snap[c] # NoCharger /\ loop.snap[c].txs # <<>>
CopiedTx(c) == loop.snap[c].txs[1]

(* If that transaction is still active, it is where the copy shows it, first *)
(* on its charger: it is not on its way into the store, and no other copy    *)
(* has it (fleet_event_loop.go:25, 218-223).                                 *)
CopiedInPlace ==
  /\ \A c \in ChargerIds : Copied(c) =>
       /\ CopiedTx(c).id \in used
       /\ \A h \in Handlers : ~Carries(h, "storeTx", CopiedTx(c).id)
       /\ \A d \in ChargerIds :
            /\ Copied(d) /\ CopiedTx(d).id = CopiedTx(c).id => d = c
            /\ \A i \in DOMAIN TxsOf(d) :
                 TxsOf(d)[i].id = CopiedTx(c).id => d = c /\ i = 1
  /\ \A c \in ChargerIds : loop.at = "report" /\ IsCurrent(c) => Copied(c)

-----------------------------------------------------------------------------
(* Refinement: the life of a transaction id is the one TxLedger specifies.   *)
Phase(t) ==
  IF t \notin used THEN "fresh"
  ELSE IF \E h \in Handlers : Carries(h, "storeTx", t) THEN "pending"
  ELSE IF Stored(t) THEN "active"
  ELSE IF log[t].stops > 0 THEN "announced" ELSE "gone"

Ledger == INSTANCE TxLedger WITH phase <- [t \in Txs |-> Phase(t)]

(* Every behaviour of the fleet is a behaviour of the ledger: a transaction  *)
(* that left the store never returns to it, and TX_STOPPED is only announced *)
(* after it left.                                                            *)
LedgerSpec == Ledger!Spec

-----------------------------------------------------------------------------
(* Liveness.                                                                 *)

(* A charger shown CONNECTING or DISCONNECTING leaves that state, whatever   *)
(* the connector answers (handlers_fleet.go:342-367, 387-411, 1159-1181).    *)
Settles ==
  \A c \in ChargerIds :
    StateOf(c) \in {"CONNECTING", "DISCONNECTING"}
      ~> StateOf(c) \notin {"CONNECTING", "DISCONNECTING"}

-----------------------------------------------------------------------------
(* What the repository says and the code does not do; each of these is       *)
(* expected to be violated.                                                  *)

(* A delete without force=true is refused while transactions are active:     *)
(* "active transactions present" (handlers_fleet.go:190-191, README.md:70).  *)
DeleteKeepsTransactions ==
  [][\A h \in Handlers : At(h, "remove") /\ DeleteNow(h) =>
       TxsOf(req[h].c) = <<>>]_vars

(* A configuration that a PATCH answered UPDATED (handlers_fleet.go:282)     *)
(* stays until the next PATCH: nothing else changes it.                      *)
ConfigOnlyPatched ==
  [][\A c \in ChargerIds :
       Present(c) /\ Present(c)' /\ chargers'[c].config # chargers[c].config
         => \E config \in Heartbeats : PatchConfig(c, config)]_vars

(* The event cycle goes on to stop (README.md:9, fleet_event_loop.go:84-96): *)
(* a transaction that the loop started is stopped by it.                     *)
SimulatedTxEnds ==
  \A t \in Txs :
    (\E c \in ChargerIds : \E i \in DOMAIN TxsOf(c) :
       TxsOf(c)[i].sim /\ TxsOf(c)[i].id = t) ~> ~Stored(t)
=============================================================================
