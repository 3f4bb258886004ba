-------------------------------- MODULE Fleet --------------------------------
(* The fleet simulator: the request handlers and background goroutines of    *)
(* internal/app/handlers_fleet.go and the event loop of                      *)
(* internal/app/fleet_event_loop.go, running concurrently over the store of  *)
(* FleetStore.tla.                                                           *)
(*                                                                           *)
(* A handler (or goroutine) h is a small program: req[h].at is the critical  *)
(* section it executes next, the other fields are its local variables.  A    *)
(* handler goes back to "idle" when the request and the goroutine it spawned *)
(* are done.  Between any two critical sections any other one may run.       *)
(* Event publication is kept only where a property needs it, in `log`.       *)
EXTENDS FleetStore

CONSTANTS
  Handlers,       \* bound on requests and goroutines in flight
  Ops,            \* the operations clients use in an instance
  MeterStarts,    \* meterStartWh values clients send
  SimMeterStart,  \* the meter a simulated transaction starts from
  Increment,      \* energy added per tick
  MaxWh,          \* bound: the meter saturates here
  NoTx            \* a handler that carries no transaction

VARIABLES
  cycle,   \* App.eventCycle: the next step of each charger's event cycle
  req,     \* the requests and goroutines in flight
  loop,    \* the event loop: where it is in tickFleetEvents
  used,    \* ids NewJobID has handed out
  log      \* per transaction: what has been published about it

vars == <<chargers, cycle, req, loop, used, log>>

HandlerPoints ==
  {"idle", "remove", "removeForced", "forgetStep",
   "saveUrl", "saveConnecting", "dial", "announce",
   "markDisconnecting", "hangup", "clearTxs", "hungup",
   "saveHealth", "storeTx", "publishStop",
   "bulkConnect", "bulkDisconnect", "bulkDial", "bulkHangup"}

Request ==
  [at: HandlerPoints, c: ChargerIds, conn: Connectors,
   snap: Charger \cup {NoCharger}, tx: Transaction \cup {NoTx},
   todo: SUBSET ChargerIds]

IdleRequest ==
  [at |-> "idle", c |-> 1, conn |-> 1, snap |-> NoCharger, tx |-> NoTx,
   todo |-> {}]

(* What the event loop reads of the copies ListChargers gave it; snap holds  *)
(* those of this tick still to be visited.                                   *)
Listed == [state: ConnectionStates, txs: Seq(Transaction)]

LoopState ==
  [at: {"idle", "visit", "report", "cycle"},
   snap: [ChargerIds -> Listed \cup {NoCharger}], step: 0..4, wh: Nat]

ASSUME AppAssumption ==
  /\ MeterStarts \subseteq Nat
  /\ SimMeterStart \in Nat
  /\ Increment \in Nat \ {0}
  /\ MaxWh \in Nat
  /\ NoCharger \notin Listed

NoSnapshot == [c \in ChargerIds |-> NoCharger]
IdleLoop == [at |-> "idle", snap |-> NoSnapshot, step |-> 0, wh |-> 0]

Published == [stops: Nat, late: Nat, wh: Nat]

Carrying(h) == req[h].at \in {"storeTx", "publishStop"}
HoldsCopy(h) == req[h].at \in {"saveUrl", "saveConnecting", "saveHealth"}

(* A handler's local variables hold what its program point needs.            *)
LocalsOK ==
  \A h \in Handlers :
    /\ HoldsCopy(h) => req[h].snap \in Charger
    /\ Carrying(h) => req[h].tx \in Transaction
    /\ req[h].at = "storeTx" => ~req[h].tx.sim

TypeOK ==
  /\ chargers \in [ChargerIds -> Charger \cup {NoCharger}]
  /\ cycle \in [ChargerIds -> 0..4]
  /\ req \in [Handlers -> Request]
  /\ loop \in LoopState
  /\ used \in SUBSET Txs
  /\ log \in [Txs -> Published]
  /\ LocalsOK

Init ==
  /\ chargers = NoSnapshot
  /\ cycle = [c \in ChargerIds |-> 0]
  /\ req = [h \in Handlers |-> IdleRequest]
  /\ loop = IdleLoop
  /\ used = {}
  /\ log = [t \in Txs |-> [stops |-> 0, late |-> 0, wh |-> 0]]
-----------------------------------------------------------------------------
(* Handler control.                                                          *)
Idle(h) == req[h].at = "idle"
At(h, point) == req[h].at = point
Start(h, request) == Idle(h) /\ req' = [req EXCEPT ![h] = request]
Goto(h, point) == req' = [req EXCEPT ![h].at = point]
Finish(h) == req' = [req EXCEPT ![h] = IdleRequest]

(* Mutant: the step is never wrapped around.                                 *)
NextEventStepUnwrapped(c) == cycle' = [cycle EXCEPT ![c] = @ + 1]

NextEventStep(c)  == cycle' = [cycle EXCEPT ![c] = (@ + 1) % 5]
ResetEventStep(c) == cycle' = [cycle EXCEPT ![c] = 0]

-----------------------------------------------------------------------------
(* Creating, deleting and configuring a charger.                             *)
CreateCharger(c, config) ==
  /\ "create" \in Ops
  /\ AddCharger(c, NewCharger(config))
  /\ UNCHANGED <<cycle, req, loop, used, log>>

(* The check for active transactions reads a copy; the removal comes later.  *)
BeginDelete(h, c, force) ==
  /\ "delete" \in Ops
  /\ Present(c)
  /\ force \/ TxsOf(c) = <<>>
  /\ Start(h, [IdleRequest EXCEPT
                 !.at = IF force THEN "removeForced" ELSE "remove", !.c = c])
  /\ UNCHANGED <<chargers, cycle, loop, used, log>>

DeleteNow(h) ==
  /\ At(h, "remove") \/ At(h, "removeForced")
  /\ RemoveCharger(req[h].c)
  /\ IF Present(req[h].c) THEN Goto(h, "forgetStep") ELSE Finish(h)
  /\ UNCHANGED <<cycle, loop, used, log>>

ForgetStep(h) ==
  /\ At(h, "forgetStep")
  /\ ResetEventStep(req[h].c)
  /\ Finish(h)
  /\ UNCHANGED <<chargers, loop, used, log>>

PatchConfig(c, config) ==
  /\ "patch" \in Ops
  /\ UpdateConfig(c, config)
  /\ UNCHANGED <<cycle, req, loop, used, log>>

-----------------------------------------------------------------------------
(* Connecting: two write-backs of one copy, then the goroutine that dials.   *)
BeginConnect(h, c) ==
  /\ "connect" \in Ops
  /\ Present(c)
  /\ Start(h, [IdleRequest EXCEPT !.at = "saveUrl", !.c = c,
                                  !.snap = chargers[c]])
  /\ UNCHANGED <<chargers, cycle, loop, used, log>>

SaveUrl(h) ==
  /\ At(h, "saveUrl")
  /\ UpdateCharger(req[h].c, req[h].snap)
  /\ Goto(h, "saveConnecting")
  /\ UNCHANGED <<cycle, loop, used, log>>

SaveConnecting(h) ==
  /\ At(h, "saveConnecting")
  /\ UpdateCharger(req[h].c, [req[h].snap EXCEPT !.state = "CONNECTING"])
  /\ req' = [req EXCEPT ![h] = [@ EXCEPT !.at = "dial", !.snap = NoCharger]]
  /\ UNCHANGED <<cycle, loop, used, log>>

DialFail(h) ==
  /\ At(h, "dial")
  /\ UpdateConnectionState(req[h].c, "ERROR")
  /\ Finish(h)
  /\ UNCHANGED <<cycle, loop, used, log>>

DialOk(h) ==
  /\ At(h, "dial")
  /\ UpdateConnectionState(req[h].c, "CONNECTED")
  /\ Goto(h, "announce")
  /\ UNCHANGED <<cycle, loop, used, log>>

Announce(h) ==
  /\ At(h, "announce")
  /\ ResetEventStep(req[h].c)
  /\ Finish(h)
  /\ UNCHANGED <<chargers, loop, used, log>>

(* Disconnecting drops the transactions once the connector has hung up.      *)
BeginDisconnect(h, c) ==
  /\ "disconnect" \in Ops
  /\ Present(c)
  /\ Start(h, [IdleRequest EXCEPT !.at = "markDisconnecting", !.c = c])
  /\ UNCHANGED <<chargers, cycle, loop, used, log>>

MarkDisconnecting(h) ==
  /\ At(h, "markDisconnecting")
  /\ UpdateConnectionState(req[h].c, "DISCONNECTING")
  /\ Goto(h, "hangup")
  /\ UNCHANGED <<cycle, loop, used, log>>

(* Mutant: a failed hang-up leaves the connection state alone.               *)
HangupFailSilent(h) ==
  /\ At(h, "hangup")
  /\ Finish(h)
  /\ UNCHANGED <<chargers, cycle, loop, used, log>>

HangupFail(h) ==
  /\ At(h, "hangup")
  /\ UpdateConnectionState(req[h].c, "ERROR")
  /\ Finish(h)
  /\ UNCHANGED <<cycle, loop, used, log>>

HangupOk(h) ==
  /\ At(h, "hangup")
  /\ UpdateConnectionState(req[h].c, "DISCONNECTED")
  /\ Goto(h, "clearTxs")
  /\ UNCHANGED <<cycle, loop, used, log>>

ClearTxs(h) ==
  /\ At(h, "clearTxs")
  /\ UpdateRuntime(req[h].c, <<>>)
  /\ Goto(h, "hungup")
  /\ UNCHANGED <<cycle, loop, used, log>>

Hungup(h) ==
  /\ At(h, "hungup")
  /\ ResetEventStep(req[h].c)
  /\ Finish(h)
  /\ UNCHANGED <<chargers, loop, used, log>>

-----------------------------------------------------------------------------
Walking(h) == At(h, "bulkConnect") \/ At(h, "bulkDisconnect")

(* Bulk connect and disconnect: the goroutine walks the chargers that the    *)
(* filter selected, in id order, and spawns one timer goroutine g for each   *)
(* that still exists.  The timer never talks to the connector.               *)
(* Bound: one of Handlers is left to requests and timers that are not bulk.  *)
BeginBulk(h, kind, selected) ==
  /\ kind \in Ops
  /\ \E g \in Handlers \ {h} : ~Walking(g)
  /\ \A c \in selected : Present(c)
  /\ Start(h, [IdleRequest EXCEPT !.at = kind, !.todo = selected])
  /\ UNCHANGED <<chargers, cycle, loop, used, log>>

BulkTimer(kind) == IF kind = "bulkConnect" THEN "bulkDial" ELSE "bulkHangup"
BulkMark(kind) == IF kind = "bulkConnect" THEN "CONNECTING" ELSE "DISCONNECTING"

BulkNext(h, g, c) ==
  /\ Walking(h)
  /\ c \in req[h].todo
  /\ \A d \in req[h].todo : c <= d
  /\ UpdateConnectionState(c, BulkMark(req[h].at))
  /\ IF Present(c)
     THEN /\ Idle(g)
          /\ req' = [req EXCEPT ![h].todo = @ \ {c},
                                ![g] = [IdleRequest EXCEPT
                                          !.at = BulkTimer(req[h].at), !.c = c]]
     ELSE /\ g = h
          /\ req' = [req EXCEPT ![h].todo = @ \ {c}]
  /\ UNCHANGED <<cycle, loop, used, log>>

BulkEnd(h) ==
  /\ Walking(h)
  /\ req[h].todo = {}
  /\ Finish(h)
  /\ UNCHANGED <<chargers, cycle, loop, used, log>>

BulkDialed(h) ==
  /\ At(h, "bulkDial")
  /\ UpdateConnectionState(req[h].c, "CONNECTED")
  /\ Finish(h)
  /\ UNCHANGED <<cycle, loop, used, log>>

BulkHungup(h) ==
  /\ At(h, "bulkHangup")
  /\ UpdateConnectionState(req[h].c, "DISCONNECTED")
  /\ Finish(h)
  /\ UNCHANGED <<cycle, loop, used, log>>

-----------------------------------------------------------------------------
(* Connector status and faults: modify a copy, write the copy back.          *)
BeginSetHealth(h, c, k, status) ==
  /\ "status" \in Ops
  /\ Present(c)
  /\ Start(h, [IdleRequest EXCEPT
                 !.at = "saveHealth", !.c = c,
                 !.snap = [chargers[c] EXCEPT !.health[k] = status]])
  /\ UNCHANGED <<chargers, cycle, loop, used, log>>

SaveHealth(h) ==
  /\ At(h, "saveHealth")
  /\ UpdateCharger(req[h].c, req[h].snap)
  /\ Finish(h)
  /\ UNCHANGED <<cycle, loop, used, log>>

-----------------------------------------------------------------------------
(* Charging start and stop.                                                  *)
(* Mutant: ids are not fresh, as when NewJobID's four random bytes repeat.   *)
BeginStartAnyId(h, c, k, t, wh) ==
  /\ "start" \in Ops
  /\ Present(c)
  /\ used' = used \cup {t}
  /\ Start(h, [IdleRequest EXCEPT
                 !.at = "storeTx", !.c = c, !.conn = k,
                 !.tx = [id |-> t, conn |-> k, start |-> wh, meter |-> wh,
                         sim |-> FALSE]])
  /\ UNCHANGED <<chargers, cycle, loop, log>>

BeginStart(h, c, k, t, wh) ==
  /\ "start" \in Ops
  /\ Present(c)
  /\ t \notin used
  /\ used' = used \cup {t}
  /\ Start(h, [IdleRequest EXCEPT
                 !.at = "storeTx", !.c = c, !.conn = k,
                 !.tx = [id |-> t, conn |-> k, start |-> wh, meter |-> wh,
                         sim |-> FALSE]])
  /\ UNCHANGED <<chargers, cycle, loop, log>>

(* The outcome of UpdateRuntime is ignored: the client is told STARTED.      *)
StoreTx(h) ==
  /\ At(h, "storeTx")
  /\ UpdateRuntime(req[h].c, Append(TxsOf(req[h].c), req[h].tx))
  /\ Finish(h)
  /\ UNCHANGED <<cycle, loop, used, log>>

IsFirst(txs, i, t) == txs[i].id = t /\ \A j \in 1..(i - 1) : txs[j].id # t

(* Mutant: the transaction is found but not taken out of the runtime.        *)
StopTxUnremoved(h, c, k, i) ==
  /\ "stop" \in Ops
  /\ i \in 1..Len(TxsOf(c))
  /\ IsFirst(TxsOf(c), i, TxsOf(c)[i].id)
  /\ Start(h, [IdleRequest EXCEPT !.at = "publishStop", !.c = c, !.conn = k,
                                  !.tx = TxsOf(c)[i]])
  /\ UNCHANGED <<chargers, cycle, loop, used, log>>

(* Stopping looks the transaction up by its id alone, whatever connector k   *)
(* the URL names.  An id that is not active is answered 404 and changes      *)
(* nothing.                                                                  *)
StopTx(h, c, k, i) ==
  /\ "stop" \in Ops
  /\ i \in 1..Len(TxsOf(c))
  /\ IsFirst(TxsOf(c), i, TxsOf(c)[i].id)
  /\ UpdateRuntime(c, RemoveAt(TxsOf(c), i))
  /\ Start(h, [IdleRequest EXCEPT !.at = "publishStop", !.c = c, !.conn = k,
                                  !.tx = TxsOf(c)[i]])
  /\ UNCHANGED <<cycle, loop, used, log>>

PublishStop(h) ==
  /\ At(h, "publishStop")
  /\ log' = [log EXCEPT ![req[h].tx.id].stops = @ + 1]
  /\ Finish(h)
  /\ UNCHANGED <<chargers, cycle, loop, used>>

-----------------------------------------------------------------------------
(* The event loop.  One tick lists all chargers and visits the copies in id  *)
(* order.                                                                    *)
IsCurrent(c) ==
  /\ loop.snap[c] # NoCharger
  /\ \A d \in 1..(c - 1) : loop.snap[d] = NoCharger

(* Mutant: the copy stays in the list of this tick.                          *)
VisitedAgain(c) == [loop EXCEPT !.at = "visit", !.wh = 0, !.step = 0]

Visited(c) == [loop EXCEPT !.at = "visit", !.snap[c] = NoCharger, !.wh = 0,
                           !.step = 0]

AddWh(wh) == IF wh + Increment <= MaxWh THEN wh + Increment ELSE wh

ListChargers ==
  [c \in ChargerIds |->
     IF Present(c) THEN [state |-> chargers[c].state, txs |-> chargers[c].txs]
                   ELSE NoCharger]

Tick ==
  /\ "tick" \in Ops
  /\ loop.at = "idle"
  /\ loop' = [loop EXCEPT !.at = "visit", !.snap = ListChargers]
  /\ UNCHANGED <<chargers, cycle, req, used, log>>

EndTick ==
  /\ loop.at = "visit"
  /\ loop.snap = NoSnapshot
  /\ loop' = IdleLoop
  /\ UNCHANGED <<chargers, cycle, req, used, log>>

(* sendSimMeterValue: the reading of the copy's first transaction is written *)
(* to whatever transaction is first in the store now.                        *)
Reading(c) == AddWh(loop.snap[c].txs[1].meter)
Metered(c, wh) == IF TxsOf(c) = <<>> THEN <<>>
                  ELSE [TxsOf(c) EXCEPT ![1].meter = wh]

SendSimMeterValue(c) ==
  /\ loop.at = "visit"
  /\ IsCurrent(c)
  /\ loop.snap[c].txs # <<>>
  /\ UpdateRuntime(c, Metered(c, Reading(c)))
  /\ loop' = [loop EXCEPT !.at = "report", !.wh = Reading(c)]
  /\ UNCHANGED <<cycle, req, used, log>>

(* Mutant: the reading is published under the id that is first now.          *)
EmitMeterTelemetryLive(c) ==
  LET t == IF TxsOf(c) = <<>> THEN loop.snap[c].txs[1].id ELSE TxsOf(c)[1].id
      late == IF log[t].stops > 0 THEN log[t].late + 1 ELSE log[t].late IN
  /\ loop.at = "report"
  /\ IsCurrent(c)
  /\ log' = [log EXCEPT ![t] = [@ EXCEPT !.wh = loop.wh, !.late = late]]
  /\ loop' = Visited(c)
  /\ UNCHANGED <<chargers, cycle, req, used>>

(* emitMeterTelemetry publishes it under the id of the copy's transaction.   *)
EmitMeterTelemetry(c) ==
  LET t == loop.snap[c].txs[1].id
      late == IF log[t].stops > 0 THEN log[t].late + 1 ELSE log[t].late IN
  /\ loop.at = "report"
  /\ IsCurrent(c)
  /\ log' = [log EXCEPT ![t] = [@ EXCEPT !.wh = loop.wh, !.late = late]]
  /\ loop' = Visited(c)
  /\ UNCHANGED <<chargers, cycle, req, used>>

Skip(c) ==
  /\ loop.at = "visit"
  /\ IsCurrent(c)
  /\ loop.snap[c].txs = <<>>
  /\ loop.snap[c].state # "CONNECTED"
  /\ loop' = Visited(c)
  /\ UNCHANGED <<chargers, cycle, req, used, log>>

(* Mutant: the cycle goes on while the copy shows a transaction.             *)
TakeStepCharging(c) ==
  /\ loop.at = "visit"
  /\ IsCurrent(c)
  /\ loop.snap[c].state = "CONNECTED"
  /\ NextEventStep(c)
  /\ loop' = [loop EXCEPT !.at = "cycle", !.step = cycle[c]]
  /\ UNCHANGED <<chargers, req, used, log>>

TakeStep(c) ==
  /\ loop.at = "visit"
  /\ IsCurrent(c)
  /\ loop.snap[c].txs = <<>>
  /\ loop.snap[c].state = "CONNECTED"
  /\ NextEventStep(c)
  /\ loop' = [loop EXCEPT !.at = "cycle", !.step = cycle[c]]
  /\ UNCHANGED <<chargers, req, used, log>>

AtStep(c, steps) == loop.at = "cycle" /\ IsCurrent(c) /\ loop.step \in steps

(* START: startSimTransaction on the first connector.                        *)
StartSimTransaction(c, t) ==
  /\ AtStep(c, {1})
  /\ t \notin used
  /\ used' = used \cup {t}
  /\ UpdateRuntime(c, Append(TxsOf(c),
                             [id |-> t, conn |-> 1, start |-> SimMeterStart,
                              meter |-> SimMeterStart, sim |-> TRUE]))
  /\ loop' = Visited(c)
  /\ UNCHANGED <<cycle, req, log>>

(* STOP: stopSimTransaction acts on the copy, which is only visited with no  *)
(* transaction here.                                                         *)
StopSimTransaction(c) ==
  /\ AtStep(c, {3})
  /\ IF loop.snap[c].txs = <<>> \/ TxsOf(c) = <<>>
     THEN UNCHANGED chargers
     ELSE UpdateRuntime(c, Tail(TxsOf(c)))
  /\ loop' = Visited(c)
  /\ UNCHANGED <<cycle, req, used, log>>

(* DMS (0) and UNPLUG (4) only publish; METER_VALUE (2) returns at once, the *)
(* copy having no transaction.                                               *)
OtherStep(c) ==
  /\ AtStep(c, {0, 2, 4})
  /\ loop' = Visited(c)
  /\ UNCHANGED <<chargers, cycle, req, used, log>>
-----------------------------------------------------------------------------
Create == \E c \in ChargerIds, config \in Heartbeats : CreateCharger(c, config)
Patch  == \E c \in ChargerIds, config \in Heartbeats : PatchConfig(c, config)

Accept(h) ==
  \E c \in ChargerIds :
    \/ \E force \in BOOLEAN : BeginDelete(h, c, force)
    \/ BeginConnect(h, c)
    \/ BeginDisconnect(h, c)
    \/ \E k \in Connectors :
         \/ \E status \in Statuses : BeginSetHealth(h, c, k, status)
         \/ \E t \in Txs, wh \in MeterStarts : BeginStart(h, c, k, t, wh)
         \/ \E i \in 1..Len(TxsOf(c)) : StopTx(h, c, k, i)

AcceptBulk(h) ==
  \E kind \in {"bulkConnect", "bulkDisconnect"} :
    \E selected \in SUBSET ChargerIds : BeginBulk(h, kind, selected)

Dialed(h) == DialOk(h) \/ DialFail(h)
HungUp(h) == HangupOk(h) \/ HangupFail(h)

(* What the goroutine of h does next on its own.                             *)
Proceed(h) ==
  \/ DeleteNow(h) \/ ForgetStep(h)
  \/ SaveUrl(h) \/ SaveConnecting(h) \/ Dialed(h) \/ Announce(h)
  \/ MarkDisconnecting(h) \/ HungUp(h) \/ ClearTxs(h) \/ Hungup(h)
  \/ SaveHealth(h)
  \/ StoreTx(h) \/ PublishStop(h)
  \/ \E g \in Handlers, c \in ChargerIds : BulkNext(h, g, c)
  \/ BulkEnd(h) \/ BulkDialed(h) \/ BulkHungup(h)

Loop ==
  \/ Tick \/ EndTick
  \/ \E c \in ChargerIds :
       \/ SendSimMeterValue(c) \/ EmitMeterTelemetry(c)
       \/ Skip(c) \/ TakeStep(c)
       \/ \E t \in Txs : StartSimTransaction(c, t)
       \/ StopSimTransaction(c) \/ OtherStep(c)

Next ==
  \/ Create
  \/ Patch
  \/ \E h \in Handlers : Accept(h) \/ AcceptBulk(h) \/ Proceed(h)
  \/ Loop

Spec == Init /\ [][Next]_vars

(* Goroutines are scheduled and the connector answers or times out, so each  *)
(* in-flight handler makes progress; the ticker keeps firing.                *)
Fairness == (\A h \in Handlers : WF_vars(Proceed(h))) /\ WF_vars(Loop)
FairSpec == Spec /\ Fairness
=============================================================================
