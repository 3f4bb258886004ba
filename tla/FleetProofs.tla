----------------------------- MODULE FleetProofs -----------------------------
(* Proofs about the fleet simulator, for any number of chargers, connectors, *)
(* handlers, transactions and any workload.                                  *)
EXTENDS FleetProperties, SequenceTheorems, TLAPS

StoreType == [ChargerIds -> Charger \cup {NoCharger}]

-----------------------------------------------------------------------------
(* Removing one element of a sequence keeps the others in order.             *)
LEMMA RemoveAtFact ==
  ASSUME NEW S, NEW s \in Seq(S), NEW i \in 1..Len(s)
  PROVE  /\ RemoveAt(s, i) \in Seq(S)
         /\ Len(RemoveAt(s, i)) = Len(s) - 1
         /\ \A j \in 1..(Len(s) - 1) :
              RemoveAt(s, i)[j] = IF j < i THEN s[j] ELSE s[j + 1]
<1> DEFINE p == SubSeq(s, 1, i - 1)
           q == SubSeq(s, i + 1, Len(s))
<1>1. p \in Seq(S) /\ Len(p) = i - 1 /\ \A j \in 1..(i - 1) : p[j] = s[j]
  OBVIOUS
<1>2. /\ q \in Seq(S) /\ Len(q) = Len(s) - i
      /\ \A j \in 1..(Len(s) - i) : q[j] = s[i + j]
  OBVIOUS
<1>3. RemoveAt(s, i) = p \o q
  BY DEF RemoveAt
<1> HIDE DEF p, q
<1>n. Len(s) \in Nat /\ i \in Nat /\ 1 <= i /\ i <= Len(s)
  OBVIOUS
<1>4. p \o q \in Seq(S) /\ Len(p \o q) = Len(s) - 1
  <2>1. p \o q \in Seq(S)
    BY <1>1, <1>2
  <2>2. Len(p \o q) = Len(p) + Len(q)
    BY <1>1, <1>2, ConcatProperties
  <2> QED BY <2>1, <2>2, <1>1, <1>2, <1>n
<1>5. ASSUME NEW j \in 1..(Len(s) - 1)
      PROVE  (p \o q)[j] = IF j < i THEN s[j] ELSE s[j + 1]
  <2>1. CASE j < i
    <3>1. j \in 1..Len(p)
      BY <1>1, <1>n, <2>1
    <3>2. (p \o q)[j] = p[j]
      BY <1>1, <1>2, <3>1
    <3> QED BY <1>1, <1>n, <2>1, <3>1, <3>2
  <2>2. CASE ~(j < i)
    <3>1. j - (i - 1) \in 1..Len(q) /\ i + (j - (i - 1)) = j + 1
      BY <1>2, <1>n, <2>2
    <3>2. (p \o q)[j] = q[j - Len(p)]
      BY <1>1, <1>2, <1>n, <2>2
    <3> QED BY <1>1, <1>2, <1>n, <2>2, <3>1, <3>2
  <2> QED BY <2>1, <2>2
<1> QED BY <1>3, <1>4, <1>5

(* The store operations keep the store well-typed.                           *)
LEMMA StoreOpTypes ==
  ASSUME chargers \in StoreType, NEW c \in ChargerIds
  PROVE  /\ \A ch \in Charger : ApplyDefaults(ch) \in Charger
         /\ TxsOf(c) \in Seq(Transaction)
         /\ \A ch \in Charger : AddCharger(c, ch) => chargers' \in StoreType
         /\ \A ch \in Charger : UpdateCharger(c, ch) => chargers' \in StoreType
         /\ RemoveCharger(c) => chargers' \in StoreType
         /\ \A st \in ConnectionStates :
              UpdateConnectionState(c, st) => chargers' \in StoreType
         /\ \A txs \in Seq(Transaction) :
              UpdateRuntime(c, txs) => chargers' \in StoreType
         /\ \A config \in Configs :
              UpdateConfig(c, config) => chargers' \in StoreType
<1> USE DEF StoreType
<1>1. \A ch \in Charger : ApplyDefaults(ch) \in Charger
  BY DEF ApplyDefaults, Charger, Configs
<1>2. TxsOf(c) \in Seq(Transaction)
  BY DEF TxsOf, Present, Charger
<1>3. \A ch \in Charger : AddCharger(c, ch) => chargers' \in StoreType
  BY <1>1 DEF AddCharger
<1>4. \A ch \in Charger : UpdateCharger(c, ch) => chargers' \in StoreType
  <2> SUFFICES ASSUME NEW ch \in Charger, Present(c), UpdateCharger(c, ch)
               PROVE  chargers' \in StoreType
    BY DEF UpdateCharger
  <2>1. [ch EXCEPT !.txs = TxsOf(c), !.state = StateOf(c)] \in Charger
    BY <1>2 DEF StateOf, Present, Charger
  <2> QED BY <2>1, <1>1 DEF UpdateCharger
<1>5. RemoveCharger(c) => chargers' \in StoreType
  BY DEF RemoveCharger
<1>6. \A st \in ConnectionStates :
        UpdateConnectionState(c, st) => chargers' \in StoreType
  BY DEF UpdateConnectionState, Present, Charger
<1>7. \A txs \in Seq(Transaction) :
        UpdateRuntime(c, txs) => chargers' \in StoreType
  BY DEF UpdateRuntime, Present, Charger
<1>8. \A config \in Configs : UpdateConfig(c, config) => chargers' \in StoreType
  BY DEF UpdateConfig, Present, Charger
<1> QED BY <1>1, <1>2, <1>3, <1>4, <1>5, <1>6, <1>7, <1>8

-----------------------------------------------------------------------------
(* Type correctness.                                                         *)
LEMMA IdleTypes ==
  /\ IdleRequest \in Request
  /\ IdleLoop \in LoopState
  /\ NoSnapshot \in [ChargerIds -> {NoCharger}]
BY FleetAssumption
   DEF IdleRequest, Request, HandlerPoints, ChargerIds, Connectors, IdleLoop,
       LoopState, NoSnapshot

(* The parts of TypeOK that concern the handlers.                           *)
ReqOK == req \in [Handlers -> Request] /\ LocalsOK

(* Finishing a request leaves every handler with well-typed locals.         *)
LEMMA FinishType ==
  ASSUME ReqOK, NEW h \in Handlers, Finish(h)
  PROVE  ReqOK'
BY IdleTypes DEF ReqOK, LocalsOK, HoldsCopy, Carrying, At, Finish, IdleRequest

(* Accepting a request at an idle handler gives it well-typed locals.       *)
LEMMA StartType ==
  ASSUME ReqOK, NEW h \in Handlers, NEW r \in Request, Start(h, r),
         r.at \in {"saveUrl", "saveConnecting", "saveHealth"} =>
           r.snap \in Charger,
         r.at \in {"storeTx", "publishStop"} => r.tx \in Transaction,
         r.at = "storeTx" => ~r.tx.sim
  PROVE  ReqOK'
BY DEF ReqOK, LocalsOK, HoldsCopy, Carrying, At, Start

(* Moving on to another program point keeps well-typed locals.              *)
LEMMA GotoType ==
  ASSUME ReqOK, NEW h \in Handlers, NEW point \in HandlerPoints, Goto(h, point),
         point \notin {"storeTx", "publishStop", "saveUrl", "saveHealth"},
         point = "saveConnecting" => At(h, "saveUrl")
  PROVE  ReqOK'
<1>1. req' \in [Handlers -> Request]
  BY DEF ReqOK, Goto, Request
<1>2. \A g \in Handlers :
        /\ req'[g].snap = req[g].snap
        /\ req'[g].tx = req[g].tx
        /\ req'[g].at = IF g = h THEN point ELSE req[g].at
  BY DEF ReqOK, Goto, Request
<1> QED BY <1>1, <1>2 DEF ReqOK, LocalsOK, HoldsCopy, Carrying, At

(* The initial state is well typed.                                         *)
LEMMA TypeInit == Init => TypeOK
<1> SUFFICES ASSUME Init PROVE TypeOK
  OBVIOUS
<1>1. LocalsOK
  BY DEF Init, LocalsOK, HoldsCopy, Carrying, IdleRequest
<1> QED BY <1>1, IdleTypes DEF Init, TypeOK, ChargerIds, Published

(* The handlers' actions, for a well-typed state.                            *)
LEMMA TypeAccept ==
  ASSUME TypeOK, NEW h \in Handlers, Accept(h) \/ AcceptBulk(h)
  PROVE  TypeOK'
<1> USE DEF TypeOK
<1> ReqOK /\ chargers \in StoreType
  BY DEF ReqOK, StoreType
<1>1. ASSUME NEW c \in ChargerIds, NEW force \in BOOLEAN, BeginDelete(h, c, force)
      PROVE  TypeOK'
  <2> DEFINE r == [IdleRequest EXCEPT
                     !.at = IF force THEN "removeForced" ELSE "remove", !.c = c]
  <2>1. r \in Request /\ r.at \in {"removeForced", "remove"}
    BY IdleTypes DEF Request, HandlerPoints, IdleRequest
  <2>2. ReqOK'
    BY <1>1, <2>1, StartType DEF BeginDelete
  <2> QED BY <1>1, <2>2 DEF BeginDelete, ReqOK
<1>2. ASSUME NEW c \in ChargerIds, BeginConnect(h, c)
      PROVE  TypeOK'
  <2> DEFINE r == [IdleRequest EXCEPT !.at = "saveUrl", !.c = c,
                                      !.snap = chargers[c]]
  <2>1. chargers[c] \in Charger
    BY <1>2 DEF BeginConnect, Present
  <2>2. r \in Request /\ r.at = "saveUrl" /\ r.snap \in Charger
    BY <2>1, IdleTypes DEF Request, HandlerPoints, IdleRequest
  <2>3. ReqOK'
    BY <1>2, <2>2, StartType DEF BeginConnect
  <2> QED BY <1>2, <2>3 DEF BeginConnect, ReqOK
<1>3. ASSUME NEW c \in ChargerIds, BeginDisconnect(h, c)
      PROVE  TypeOK'
  <2> DEFINE r == [IdleRequest EXCEPT !.at = "markDisconnecting", !.c = c]
  <2>1. r \in Request /\ r.at = "markDisconnecting"
    BY IdleTypes DEF Request, HandlerPoints, IdleRequest
  <2>2. ReqOK'
    BY <1>3, <2>1, StartType DEF BeginDisconnect
  <2> QED BY <1>3, <2>2 DEF BeginDisconnect, ReqOK
<1>4. ASSUME NEW c \in ChargerIds, NEW k \in Connectors, NEW status \in Statuses,
             BeginSetHealth(h, c, k, status)
      PROVE  TypeOK'
  <2> DEFINE r == [IdleRequest EXCEPT
                     !.at = "saveHealth", !.c = c,
                     !.snap = [chargers[c] EXCEPT !.health[k] = status]]
  <2>1. chargers[c] \in Charger
    BY <1>4 DEF BeginSetHealth, Present
  <2>2. [chargers[c] EXCEPT !.health[k] = status] \in Charger
    BY <2>1 DEF Charger
  <2>3. r \in Request /\ r.at = "saveHealth" /\ r.snap \in Charger
    BY <2>2, IdleTypes DEF Request, HandlerPoints, IdleRequest
  <2>4. ReqOK'
    BY <1>4, <2>3, StartType DEF BeginSetHealth
  <2> QED BY <1>4, <2>4 DEF BeginSetHealth, ReqOK
<1>5. ASSUME NEW c \in ChargerIds, NEW k \in Connectors, NEW t \in Txs,
             NEW wh \in MeterStarts, BeginStart(h, c, k, t, wh)
      PROVE  TypeOK'
  <2> DEFINE tx == [id |-> t, conn |-> k, start |-> wh, meter |-> wh,
                    sim |-> FALSE]
             r == [IdleRequest EXCEPT !.at = "storeTx", !.c = c, !.conn = k,
                                      !.tx = tx]
  <2>1. tx \in Transaction /\ ~tx.sim
    BY AppAssumption DEF Transaction
  <2> HIDE DEF tx
  <2>2. r \in Request /\ r.at = "storeTx" /\ r.tx = tx
    BY <2>1, IdleTypes DEF Request, HandlerPoints, IdleRequest
  <2>3. Start(h, r)
    BY <1>5 DEF BeginStart, tx
  <2>4. ReqOK'
    BY <2>1, <2>2, <2>3, StartType
  <2> QED BY <1>5, <2>4 DEF BeginStart, ReqOK
<1>6. ASSUME NEW c \in ChargerIds, NEW k \in Connectors,
             NEW i \in 1..Len(TxsOf(c)), StopTx(h, c, k, i)
      PROVE  TypeOK'
  <2> DEFINE tx == TxsOf(c)[i]
             r == [IdleRequest EXCEPT !.at = "publishStop", !.c = c, !.conn = k,
                                      !.tx = tx]
  <2>1. TxsOf(c) \in Seq(Transaction)
    BY StoreOpTypes
  <2>2. tx \in Transaction /\ RemoveAt(TxsOf(c), i) \in Seq(Transaction)
    BY <2>1, RemoveAtFact
  <2>3. chargers' \in StoreType
    BY <1>6, <2>2, StoreOpTypes DEF StopTx
  <2> HIDE DEF tx
  <2>4. r \in Request /\ r.at = "publishStop" /\ r.tx = tx
    BY <2>2, IdleTypes DEF Request, HandlerPoints, IdleRequest
  <2>5. Start(h, r)
    BY <1>6 DEF StopTx, tx
  <2>6. ReqOK'
    BY <2>2, <2>4, <2>5, StartType
  <2> QED BY <1>6, <2>3, <2>6 DEF StopTx, ReqOK, StoreType
<1>7. ASSUME NEW kind \in {"bulkConnect", "bulkDisconnect"},
             NEW selected \in SUBSET ChargerIds, BeginBulk(h, kind, selected)
      PROVE  TypeOK'
  <2> DEFINE r == [IdleRequest EXCEPT !.at = kind, !.todo = selected]
  <2>1. r \in Request /\ r.at = kind
    BY IdleTypes DEF Request, HandlerPoints, IdleRequest
  <2>2. ReqOK'
    BY <1>7, <2>1, StartType DEF BeginBulk
  <2> QED BY <1>7, <2>2 DEF BeginBulk, ReqOK
<1> QED BY <1>1, <1>2, <1>3, <1>4, <1>5, <1>6, <1>7 DEF Accept, AcceptBulk

(* Every step a handler in flight takes on its own keeps the types.         *)
LEMMA TypeProceed ==
  ASSUME TypeOK, NEW h \in Handlers, Proceed(h)
  PROVE  TypeOK'
<1> USE DEF TypeOK
<1> ReqOK /\ chargers \in StoreType
  BY DEF ReqOK, StoreType
<1>c. req[h].c \in ChargerIds /\ req[h].at \in HandlerPoints
  BY DEF Request
<1>r. UNCHANGED <<cycle, loop, used, log>> /\ chargers' \in StoreType /\ ReqOK'
        => TypeOK'
  BY DEF ReqOK, StoreType
<1>p. {"forgetStep", "saveConnecting", "dial", "announce", "hangup", "clearTxs",
       "hungup"} \subseteq HandlerPoints
  BY DEF HandlerPoints
<1>1. ASSUME DeleteNow(h) PROVE TypeOK'
  <2>1. ReqOK'
    BY <1>1, <1>p, GotoType, FinishType DEF DeleteNow
  <2> QED BY <1>1, <1>c, <1>r, <2>1, StoreOpTypes DEF DeleteNow
<1>2. ASSUME ForgetStep(h) \/ Announce(h) \/ Hungup(h) PROVE TypeOK'
  <2>1. ReqOK'
    BY <1>2, FinishType DEF ForgetStep, Announce, Hungup
  <2>2. cycle' \in [ChargerIds -> 0..4]
    BY <1>2, <1>c DEF ForgetStep, Announce, Hungup, ResetEventStep
  <2> QED BY <1>2, <2>1, <2>2 DEF ForgetStep, Announce, Hungup, ReqOK
<1>3. ASSUME SaveUrl(h) PROVE TypeOK'
  <2>1. req[h].snap \in Charger
    BY <1>3 DEF LocalsOK, HoldsCopy, SaveUrl, At
  <2>2. ReqOK'
    BY <1>3, <1>p, GotoType DEF SaveUrl
  <2> QED BY <1>3, <1>c, <1>r, <2>1, <2>2, StoreOpTypes DEF SaveUrl
<1>4. ASSUME SaveConnecting(h) PROVE TypeOK'
  <2>1. req[h].snap \in Charger
    BY <1>4 DEF LocalsOK, HoldsCopy, SaveConnecting, At
  <2>2. [req[h].snap EXCEPT !.state = "CONNECTING"] \in Charger
    BY <2>1 DEF Charger, ConnectionStates
  <2>3. ReqOK'
    <3> DEFINE r == [req[h] EXCEPT !.at = "dial", !.snap = NoCharger]
    <3>r. r \in Request
      BY DEF Request, HandlerPoints
    <3>1. req' \in [Handlers -> Request]
      BY <1>4, <3>r DEF SaveConnecting
    <3>2. \A g \in Handlers :
            /\ req'[g].tx = req[g].tx
            /\ g # h => req'[g] = req[g]
            /\ req'[h].at = "dial"
      BY <1>4 DEF SaveConnecting, Request
    <3> QED BY <3>1, <3>2 DEF ReqOK, LocalsOK, HoldsCopy, Carrying, At
  <2> QED BY <1>4, <1>c, <1>r, <2>2, <2>3, StoreOpTypes DEF SaveConnecting
<1>5. ASSUME DialFail(h) \/ HangupFail(h) \/ BulkDialed(h) \/ BulkHungup(h)
      PROVE  TypeOK'
  <2>1. ReqOK'
    BY <1>5, FinishType DEF DialFail, HangupFail, BulkDialed, BulkHungup
  <2>2. chargers' \in StoreType
    BY <1>5, <1>c, StoreOpTypes
       DEF DialFail, HangupFail, BulkDialed, BulkHungup, ConnectionStates
  <2> QED BY <1>5, <1>r, <2>1, <2>2
          DEF DialFail, HangupFail, BulkDialed, BulkHungup
<1>6. ASSUME DialOk(h) \/ MarkDisconnecting(h) \/ HangupOk(h) PROVE TypeOK'
  <2>1. ReqOK'
    BY <1>6, <1>p, GotoType DEF DialOk, MarkDisconnecting, HangupOk
  <2>2. chargers' \in StoreType
    BY <1>6, <1>c, StoreOpTypes
       DEF DialOk, MarkDisconnecting, HangupOk, ConnectionStates
  <2> QED BY <1>6, <1>r, <2>1, <2>2 DEF DialOk, MarkDisconnecting, HangupOk
<1>7. ASSUME ClearTxs(h) PROVE TypeOK'
  <2>1. ReqOK'
    BY <1>7, <1>p, GotoType DEF ClearTxs
  <2>2. <<>> \in Seq(Transaction)
    OBVIOUS
  <2> QED BY <1>7, <1>c, <1>r, <2>1, <2>2, StoreOpTypes DEF ClearTxs
<1>8. ASSUME SaveHealth(h) PROVE TypeOK'
  <2>1. req[h].snap \in Charger
    BY <1>8 DEF LocalsOK, HoldsCopy, SaveHealth, At
  <2>2. ReqOK'
    BY <1>8, FinishType DEF SaveHealth
  <2> QED BY <1>8, <1>c, <1>r, <2>1, <2>2, StoreOpTypes DEF SaveHealth
<1>9. ASSUME StoreTx(h) PROVE TypeOK'
  <2>1. req[h].tx \in Transaction
    BY <1>9 DEF LocalsOK, Carrying, StoreTx, At
  <2>2. Append(TxsOf(req[h].c), req[h].tx) \in Seq(Transaction)
    BY <1>c, <2>1, StoreOpTypes
  <2>3. ReqOK'
    BY <1>9, FinishType DEF StoreTx
  <2> QED BY <1>9, <1>c, <1>r, <2>2, <2>3, StoreOpTypes DEF StoreTx
<1>10. ASSUME PublishStop(h) PROVE TypeOK'
  <2>1. ReqOK'
    BY <1>10, FinishType DEF PublishStop
  <2> DEFINE t == req[h].tx.id
  <2>2. t \in Txs /\ [log[t] EXCEPT !.stops = @ + 1] \in Published
    BY <1>10 DEF PublishStop, LocalsOK, Carrying, At, Transaction, Published
  <2>3. log' \in [Txs -> Published]
    BY <1>10, <2>2 DEF PublishStop
  <2> QED BY <1>10, <2>1, <2>3 DEF PublishStop, ReqOK
<1>11. ASSUME NEW g \in Handlers, NEW c \in ChargerIds, BulkNext(h, g, c)
       PROVE  TypeOK'
  <2>1. BulkMark(req[h].at) \in ConnectionStates
    BY DEF BulkMark, ConnectionStates
  <2>2. chargers' \in StoreType
    BY <1>11, <2>1, StoreOpTypes DEF BulkNext
  <2>3. ReqOK'
    <3> DEFINE r == [IdleRequest EXCEPT !.at = BulkTimer(req[h].at), !.c = c]
    <3>1. r \in Request /\ r.at \in {"bulkDial", "bulkHangup"}
      BY IdleTypes DEF BulkTimer, Request, HandlerPoints, IdleRequest
    <3> HIDE DEF r
    <3>2. [req[h] EXCEPT !.todo = @ \ {c}] \in Request
      BY DEF Request
    <3>3. CASE Present(c)
      <4>1. g # h /\ req' = [req EXCEPT ![h].todo = @ \ {c}, ![g] = r]
        BY <1>11, <3>3 DEF BulkNext, r, Walking, Idle, At
      <4>2. req' \in [Handlers -> Request]
        BY <4>1, <3>1, <3>2
      <4>3. \A f \in Handlers :
              /\ f # g => /\ req'[f].at = req[f].at
                         /\ req'[f].tx = req[f].tx
                         /\ req'[f].snap = req[f].snap
              /\ req'[g].at \in {"bulkDial", "bulkHangup"}
        BY <4>1, <3>1 DEF Request
      <4> QED BY <4>2, <4>3 DEF ReqOK, LocalsOK, HoldsCopy, Carrying, At
    <3>4. CASE ~Present(c)
      <4>1. req' = [req EXCEPT ![h].todo = @ \ {c}]
        BY <1>11, <3>4 DEF BulkNext
      <4>2. req' \in [Handlers -> Request]
        BY <4>1, <3>2
      <4>3. \A f \in Handlers : /\ req'[f].at = req[f].at
                                /\ req'[f].tx = req[f].tx
                                /\ req'[f].snap = req[f].snap
        BY <4>1 DEF Request
      <4> QED BY <4>2, <4>3 DEF ReqOK, LocalsOK, HoldsCopy, Carrying, At
    <3> QED BY <3>3, <3>4
  <2> QED BY <1>11, <1>r, <2>2, <2>3 DEF BulkNext
<1>12. ASSUME BulkEnd(h) PROVE TypeOK'
  <2>1. ReqOK'
    BY <1>12, FinishType DEF BulkEnd
  <2> QED BY <1>12, <2>1 DEF BulkEnd, ReqOK
<1> QED BY <1>1, <1>2, <1>3, <1>4, <1>5, <1>6, <1>7, <1>8, <1>9, <1>10, <1>11,
           <1>12, Proceed(h) DEF Proceed, Dialed, HungUp

(* The event loop's actions.                                                 *)
LEMMA ListTypes ==
  ASSUME chargers \in StoreType
  PROVE  ListChargers \in [ChargerIds -> Listed \cup {NoCharger}]
BY DEF StoreType, ListChargers, Listed, Present, Charger

(* The event loop that leaves a charger is well typed.                      *)
LEMMA VisitedType ==
  ASSUME loop \in LoopState, NEW c \in ChargerIds
  PROVE  Visited(c) \in LoopState
<1>1. [loop.snap EXCEPT ![c] = NoCharger] \in [ChargerIds -> Listed \cup {NoCharger}]
  BY DEF LoopState
<1>2. Visited(c) = [loop EXCEPT !.at = "visit", !.wh = 0, !.step = 0,
                                !.snap = [loop.snap EXCEPT ![c] = NoCharger]]
  BY DEF LoopState, Visited
<1>3. 0 \in 0..4 /\ 0 \in Nat
  OBVIOUS
<1> QED BY <1>1, <1>2, <1>3 DEF LoopState

(* Writing a reading to the first transaction keeps the runtime well typed. *)
LEMMA MeteredType ==
  ASSUME TypeOK, NEW c \in ChargerIds, SendSimMeterValue(c)
  PROVE  /\ Reading(c) \in Nat
         /\ Metered(c, Reading(c)) \in Seq(Transaction)
         /\ DOMAIN Metered(c, Reading(c)) = DOMAIN TxsOf(c)
         /\ \A i \in DOMAIN TxsOf(c) :
              /\ Metered(c, Reading(c))[i].id = TxsOf(c)[i].id
              /\ Metered(c, Reading(c))[i].sim = TxsOf(c)[i].sim
<1>1. loop.snap[c] \in Listed /\ loop.snap[c].txs \in Seq(Transaction)
  BY DEF SendSimMeterValue, IsCurrent, LoopState, Listed, TypeOK
<1>2. loop.snap[c].txs[1] \in Transaction
  BY <1>1 DEF SendSimMeterValue
<1>3. Reading(c) \in Nat
  BY <1>2, AppAssumption DEF Transaction, AddWh, Reading
<1>4. TxsOf(c) \in Seq(Transaction)
  BY StoreOpTypes DEF TypeOK, StoreType
<1>5. CASE TxsOf(c) = <<>>
  BY <1>3, <1>5 DEF Metered
<1>6. CASE TxsOf(c) # <<>>
  <2> DEFINE first == [TxsOf(c)[1] EXCEPT !.meter = Reading(c)]
  <2>1. 1 \in 1..Len(TxsOf(c)) /\ TxsOf(c)[1] \in Transaction
    BY <1>4, <1>6
  <2>2. /\ first \in Transaction
        /\ first.id = TxsOf(c)[1].id /\ first.sim = TxsOf(c)[1].sim
    BY <1>3, <2>1 DEF Transaction
  <2>3. Metered(c, Reading(c)) = [TxsOf(c) EXCEPT ![1] = first]
    BY <1>6 DEF Metered
  <2> HIDE DEF first
  <2>4. /\ Metered(c, Reading(c)) \in Seq(Transaction)
        /\ Len(Metered(c, Reading(c))) = Len(TxsOf(c))
        /\ \A j \in 1..Len(TxsOf(c)) :
             Metered(c, Reading(c))[j] = IF j = 1 THEN first ELSE TxsOf(c)[j]
    BY <1>4, <2>1, <2>2, <2>3, ExceptSeq
  <2> QED BY <1>3, <1>4, <2>2, <2>4
<1> QED BY <1>5, <1>6

(* Every step of the event loop keeps the types.                            *)
LEMMA TypeLoop ==
  ASSUME TypeOK, Loop
  PROVE  TypeOK'
<1> USE DEF TypeOK
<1> chargers \in StoreType
  BY DEF StoreType
<1>q. req' = req => LocalsOK'
  BY DEF LocalsOK, HoldsCopy, Carrying, At
<1>1. ASSUME Tick PROVE TypeOK'
  BY <1>1, <1>q, ListTypes DEF Tick, LoopState
<1>2. ASSUME EndTick PROVE TypeOK'
  BY <1>2, <1>q, IdleTypes DEF EndTick
<1>3. ASSUME NEW c \in ChargerIds, SendSimMeterValue(c) PROVE TypeOK'
  <2>1. Reading(c) \in Nat /\ Metered(c, Reading(c)) \in Seq(Transaction)
    BY <1>3, MeteredType
  <2>2. chargers' \in StoreType
    BY <1>3, <2>1, StoreOpTypes DEF SendSimMeterValue
  <2> QED BY <1>3, <1>q, <2>1, <2>2
          DEF SendSimMeterValue, StoreType, LoopState
<1>4. ASSUME NEW c \in ChargerIds, EmitMeterTelemetry(c) PROVE TypeOK'
  <2> DEFINE t == loop.snap[c].txs[1].id
             late == IF log[t].stops > 0 THEN log[t].late + 1 ELSE log[t].late
             entry == [log[t] EXCEPT !.wh = loop.wh, !.late = late]
  <2>e. ASSUME t \in Txs PROVE entry \in Published
    <3>1. log[t] \in Published /\ late \in Nat /\ loop.wh \in Nat
      BY <2>e DEF Published, LoopState
    <3> HIDE DEF late
    <3> QED BY <3>1 DEF Published
  <2>f. log' = [log EXCEPT ![t] = entry]
    BY <1>4 DEF EmitMeterTelemetry
  <2> HIDE DEF entry, t
  <2>1. log' \in [Txs -> Published]
    BY <2>e, <2>f
  <2> QED BY <1>4, <1>q, <2>1, VisitedType DEF EmitMeterTelemetry
<1>5. ASSUME NEW c \in ChargerIds, Skip(c) \/ OtherStep(c) PROVE TypeOK'
  BY <1>5, <1>q, VisitedType DEF Skip, OtherStep
<1>6. ASSUME NEW c \in ChargerIds, TakeStep(c) PROVE TypeOK'
  <2>1. cycle[c] \in 0..4 /\ (cycle[c] + 1) % 5 \in 0..4
    OBVIOUS
  <2> QED BY <1>6, <1>q, <2>1 DEF TakeStep, NextEventStep, LoopState
<1>7. ASSUME NEW c \in ChargerIds, NEW t \in Txs, StartSimTransaction(c, t)
      PROVE  TypeOK'
  <2> DEFINE tx == [id |-> t, conn |-> 1, start |-> SimMeterStart,
                    meter |-> SimMeterStart, sim |-> TRUE]
  <2>1. tx \in Transaction
    BY FleetAssumption, AppAssumption DEF Transaction, Connectors
  <2>2. Append(TxsOf(c), tx) \in Seq(Transaction)
    BY <2>1, StoreOpTypes
  <2>3. chargers' \in StoreType
    BY <1>7, <2>2, StoreOpTypes DEF StartSimTransaction
  <2> QED BY <1>7, <1>q, <2>3, VisitedType DEF StartSimTransaction, StoreType
<1>8. ASSUME NEW c \in ChargerIds, StopSimTransaction(c) PROVE TypeOK'
  <2>1. TxsOf(c) \in Seq(Transaction)
    BY StoreOpTypes
  <2>2. TxsOf(c) # <<>> => Tail(TxsOf(c)) \in Seq(Transaction)
    BY <2>1
  <2>3. chargers' \in StoreType
    BY <1>8, <2>2, StoreOpTypes DEF StopSimTransaction
  <2> QED BY <1>8, <1>q, <2>3, VisitedType DEF StopSimTransaction, StoreType
<1> QED BY <1>1, <1>2, <1>3, <1>4, <1>5, <1>6, <1>7, <1>8, Loop DEF Loop

(* TypeOK is inductive.                                                     *)
LEMMA TypeNext == TypeOK /\ [Next]_vars => TypeOK'
<1> SUFFICES ASSUME TypeOK, [Next]_vars PROVE TypeOK'
  OBVIOUS
<1> USE DEF TypeOK
<1> chargers \in StoreType
  BY DEF StoreType
<1>q. req' = req => LocalsOK'
  BY DEF LocalsOK, HoldsCopy, Carrying, At
<1>1. ASSUME NEW c \in ChargerIds, NEW config \in Heartbeats,
             CreateCharger(c, config)
      PROVE  TypeOK'
  <2>1. NewCharger(config) \in Charger
    BY DEF NewCharger, Charger, ConnectionStates, Configs, Statuses
  <2> QED BY <1>1, <1>q, <2>1, StoreOpTypes DEF CreateCharger, StoreType
<1>2. ASSUME NEW c \in ChargerIds, NEW config \in Heartbeats,
             PatchConfig(c, config)
      PROVE  TypeOK'
  BY <1>2, <1>q, StoreOpTypes DEF PatchConfig, Configs, StoreType
<1>3. ASSUME UNCHANGED vars PROVE TypeOK'
  BY <1>3, <1>q DEF vars
<1> QED BY <1>1, <1>2, <1>3, TypeAccept, TypeProceed, TypeLoop
        DEF Next, Create, Patch

(* The variables, the handlers' locals among them, keep their types.         *)
THEOREM FleetTypeOK == Spec => []TypeOK
BY TypeInit, TypeNext, PTL DEF Spec

-----------------------------------------------------------------------------
(* One place per transaction id.                                             *)

(* What each store operation does to the transactions.                       *)
LEMMA TxsAfter ==
  ASSUME chargers \in StoreType, NEW c \in ChargerIds, NEW d \in ChargerIds
  PROVE  /\ \A ch \in Charger : UpdateCharger(c, ch) => TxsOf(d)' = TxsOf(d)
         /\ \A config \in Heartbeats :
              AddCharger(c, NewCharger(config)) => TxsOf(d)' = TxsOf(d)
         /\ RemoveCharger(c) =>
              TxsOf(d)' = IF d = c THEN <<>> ELSE TxsOf(d)
         /\ \A st \in ConnectionStates :
              UpdateConnectionState(c, st) => TxsOf(d)' = TxsOf(d)
         /\ \A txs \in Seq(Transaction) : UpdateRuntime(c, txs) =>
              TxsOf(d)' = IF d = c /\ Present(c) THEN txs ELSE TxsOf(d)
         /\ \A config \in Configs : UpdateConfig(c, config) =>
              TxsOf(d)' = TxsOf(d)
<1> USE FleetAssumption DEF StoreType, TxsOf, Present
<1>1. ASSUME NEW ch \in Charger, UpdateCharger(c, ch)
      PROVE  TxsOf(d)' = TxsOf(d)
  <2>1. CASE Present(c)
    <3> DEFINE new == [ch EXCEPT !.txs = TxsOf(c), !.state = StateOf(c)]
    <3>1. new \in Charger /\ new.txs = TxsOf(c)
      BY <2>1 DEF StateOf, Charger
    <3> HIDE DEF new
    <3>2. ApplyDefaults(new) \in Charger /\ ApplyDefaults(new).txs = TxsOf(c)
      BY <3>1, StoreOpTypes DEF ApplyDefaults, Charger
    <3>3. chargers' = [chargers EXCEPT ![c] = ApplyDefaults(new)]
      BY <1>1, <2>1 DEF UpdateCharger, new
    <3> QED BY <2>1, <3>2, <3>3
  <2>2. CASE ~Present(c)
    BY <1>1, <2>2 DEF UpdateCharger
  <2> QED BY <2>1, <2>2
<1>2. ASSUME NEW config \in Heartbeats, AddCharger(c, NewCharger(config))
      PROVE  TxsOf(d)' = TxsOf(d)
  <2>1. NewCharger(config) \in Charger /\ NewCharger(config).txs = <<>>
    BY DEF NewCharger, Charger, ConnectionStates, Configs, Statuses
  <2>2. /\ ApplyDefaults(NewCharger(config)) \in Charger
        /\ ApplyDefaults(NewCharger(config)).txs = <<>>
    BY <2>1, StoreOpTypes DEF ApplyDefaults, Charger
  <2> QED BY <1>2, <2>2 DEF AddCharger
<1>3. RemoveCharger(c) => TxsOf(d)' = IF d = c THEN <<>> ELSE TxsOf(d)
  BY DEF RemoveCharger
<1>4. ASSUME NEW st \in ConnectionStates, UpdateConnectionState(c, st)
      PROVE  TxsOf(d)' = TxsOf(d)
  <2>1. Present(c) => /\ [chargers[c] EXCEPT !.state = st] \in Charger
                      /\ [chargers[c] EXCEPT !.state = st].txs = chargers[c].txs
    BY DEF Charger
  <2> QED BY <1>4, <2>1 DEF UpdateConnectionState
<1>5. ASSUME NEW txs \in Seq(Transaction), UpdateRuntime(c, txs)
      PROVE  TxsOf(d)' = IF d = c /\ Present(c) THEN txs ELSE TxsOf(d)
  <2>1. Present(c) => /\ [chargers[c] EXCEPT !.txs = txs] \in Charger
                      /\ [chargers[c] EXCEPT !.txs = txs].txs = txs
    BY DEF Charger
  <2> QED BY <1>5, <2>1 DEF UpdateRuntime
<1>6. ASSUME NEW config \in Configs, UpdateConfig(c, config)
      PROVE  TxsOf(d)' = TxsOf(d)
  <2>1. Present(c) =>
          /\ [chargers[c] EXCEPT !.config = config] \in Charger
          /\ [chargers[c] EXCEPT !.config = config].txs = chargers[c].txs
    BY DEF Charger
  <2> QED BY <1>6, <2>1 DEF UpdateConfig
<1> QED BY <1>1, <1>2, <1>3, <1>4, <1>5, <1>6

(* new has the ids of old, in order, but for the one at position e.          *)
KeepsIdsBut(old, new, e) ==
  \A i \in DOMAIN new :
    LET j == IF i < e THEN i ELSE i + 1 IN
    /\ j \in DOMAIN old
    /\ new[i].id = old[j].id

(* No handler starts to carry a transaction or carries another one.          *)
KeepsCarriers ==
  \A h \in Handlers : Carrying(h)' => Carrying(h) /\ req'[h].tx = req[h].tx

(* A step that stores no id, makes no handler carry one, and announces none. *)
LEMMA OnePlaceKept ==
  ASSUME TypeOK, TypeOK', OnePlace, NEW d \in ChargerIds, NEW e \in Nat,
         \A c \in ChargerIds :
           \/ TxsOf(c)' = TxsOf(c)
           \/ TxsOf(c)' = <<>>
           \/ c = d /\ KeepsIdsBut(TxsOf(d), TxsOf(d)', e),
         KeepsCarriers,
         used \subseteq used',
         \A t \in Txs : log'[t].stops = log[t].stops
  PROVE  OnePlace'
<1> DEFINE Old(c, i) == IF TxsOf(c)' = TxsOf(c) THEN i
                        ELSE IF i < e THEN i ELSE i + 1
<1>1. \A c \in ChargerIds : TxsOf(c) \in Seq(Transaction) /\ TxsOf(c)' \in Seq(Transaction)
  BY StoreOpTypes DEF TypeOK, StoreType, TxsOf, Present, Charger
<1>2. ASSUME NEW c \in ChargerIds, NEW i \in DOMAIN TxsOf(c)'
      PROVE  /\ Old(c, i) \in DOMAIN TxsOf(c)
             /\ TxsOf(c)'[i].id = TxsOf(c)[Old(c, i)].id
             /\ i \in Nat
             /\ TxsOf(c)'[i].id \in Txs
  <2>1. i \in Nat /\ TxsOf(c)'[i] \in Transaction
    BY <1>1, <1>2
  <2>2. CASE TxsOf(c)' = TxsOf(c)
    BY <1>2, <2>1, <2>2 DEF Transaction
  <2>3. CASE TxsOf(c)' # TxsOf(c)
    <3>1. TxsOf(c)' # <<>>
      BY <1>2
    <3>2. c = d /\ KeepsIdsBut(TxsOf(d), TxsOf(d)', e)
      BY <2>3, <3>1
    <3>3. Old(c, i) = IF i < e THEN i ELSE i + 1
      BY <2>3
    <3> HIDE DEF Old
    <3> QED BY <1>2, <2>1, <3>2, <3>3 DEF KeepsIdsBut, Transaction
  <2> QED BY <2>2, <2>3
<1>3. \A c \in ChargerIds : \A i, j \in DOMAIN TxsOf(c)' :
        Old(c, i) = Old(c, j) => i = j
  BY <1>2
<1> HIDE DEF Old
<1>4. TxUnique'
  BY <1>2, <1>3 DEF OnePlace, TxUnique
<1>5. \A c \in ChargerIds : \A i \in DOMAIN TxsOf(c)' :
        TxsOf(c)'[i].id \in used' /\ log'[TxsOf(c)'[i].id].stops = 0
  BY <1>2 DEF OnePlace
<1>6. ASSUME NEW h \in Handlers, Carrying(h)'
      PROVE  /\ req'[h].tx.id \in used'
             /\ log'[req'[h].tx.id].stops = 0
             /\ \A c \in ChargerIds : \A i \in DOMAIN TxsOf(c)' :
                  TxsOf(c)'[i].id # req'[h].tx.id
             /\ \A g \in Handlers :
                  Carrying(g)' /\ req'[g].tx.id = req'[h].tx.id => g = h
  <2>1. Carrying(h) /\ req'[h].tx = req[h].tx /\ req[h].tx.id \in Txs
    BY <1>6 DEF TypeOK, LocalsOK, Transaction, KeepsCarriers
  <2>2. \A g \in Handlers : Carrying(g)' => Carrying(g) /\ req'[g].tx = req[g].tx
    BY DEF KeepsCarriers
  <2> QED BY <1>2, <2>1, <2>2 DEF OnePlace
<1>7. \A t \in Txs : log'[t].stops <= 1 /\ (log'[t].stops > 0 => t \in used')
  BY DEF OnePlace
<1> QED BY <1>4, <1>5, <1>6, <1>7 DEF OnePlace

(* A step that moves no carried transaction disturbs no carrier.            *)
LEMMA CarriersKept ==
  ASSUME req \in [Handlers -> Request], NEW h \in Handlers
  PROVE  /\ Finish(h) => KeepsCarriers
         /\ \A point \in HandlerPoints \ {"storeTx", "publishStop"} :
              Goto(h, point) => KeepsCarriers
         /\ \A r \in Request : Start(h, r) /\ r.at \notin {"storeTx", "publishStop"}
              => KeepsCarriers
         /\ req' = req => KeepsCarriers
<1>1. Finish(h) => KeepsCarriers
  BY DEF Finish, KeepsCarriers, Carrying, IdleRequest
<1>2. ASSUME NEW point \in HandlerPoints \ {"storeTx", "publishStop"}, Goto(h, point)
      PROVE  KeepsCarriers
  BY <1>2 DEF Goto, KeepsCarriers, Carrying, Request
<1>3. ASSUME NEW r \in Request, Start(h, r), r.at \notin {"storeTx", "publishStop"}
      PROVE  KeepsCarriers
  BY <1>3 DEF Start, KeepsCarriers, Carrying
<1>4. req' = req => KeepsCarriers
  BY DEF KeepsCarriers, Carrying
<1> QED BY <1>1, <1>2, <1>3, <1>4

(* Of the requests a handler accepts, only start and stop carry an id.       *)
LEMMA AcceptCarriers ==
  ASSUME TypeOK, NEW h \in Handlers, NEW c \in ChargerIds,
         \/ \E force \in BOOLEAN : BeginDelete(h, c, force)
         \/ BeginConnect(h, c)
         \/ BeginDisconnect(h, c)
         \/ \E k \in Connectors, st \in Statuses : BeginSetHealth(h, c, k, st)
         \/ AcceptBulk(h)
  PROVE  KeepsCarriers /\ UNCHANGED <<chargers, used, log>>
<1> DEFINE points == {"remove", "removeForced", "saveUrl", "markDisconnecting",
                      "saveHealth", "bulkConnect", "bulkDisconnect"}
<1>0. req \in [Handlers -> Request] /\ "at" \in DOMAIN IdleRequest
  BY DEF TypeOK, IdleRequest
<1>1. \A r : Start(h, r) => req'[h] = r /\ \A g \in Handlers : g # h => req'[g] = req[g]
  BY <1>0 DEF Start
<1>2. ASSUME NEW force \in BOOLEAN, BeginDelete(h, c, force)
      PROVE  req'[h].at \in points
  <2> DEFINE r == [IdleRequest EXCEPT
                     !.at = IF force THEN "removeForced" ELSE "remove", !.c = c]
  <2>1. r.at \in points
    BY DEF IdleRequest
  <2>2. Start(h, r)
    BY <1>2 DEF BeginDelete
  <2> HIDE DEF r
  <2> QED BY <1>1, <2>1, <2>2
<1>3. ASSUME BeginConnect(h, c) PROVE req'[h].at \in points
  <2> DEFINE r == [IdleRequest EXCEPT !.at = "saveUrl", !.c = c, !.snap = chargers[c]]
  <2>1. r.at \in points
    BY DEF IdleRequest
  <2>2. Start(h, r)
    BY <1>3 DEF BeginConnect
  <2> HIDE DEF r
  <2> QED BY <1>1, <2>1, <2>2
<1>4. ASSUME BeginDisconnect(h, c) PROVE req'[h].at \in points
  <2> DEFINE r == [IdleRequest EXCEPT !.at = "markDisconnecting", !.c = c]
  <2>1. r.at \in points
    BY DEF IdleRequest
  <2>2. Start(h, r)
    BY <1>4 DEF BeginDisconnect
  <2> HIDE DEF r
  <2> QED BY <1>1, <2>1, <2>2
<1>5. ASSUME NEW k \in Connectors, NEW st \in Statuses, BeginSetHealth(h, c, k, st)
      PROVE  req'[h].at \in points
  <2> DEFINE r == [IdleRequest EXCEPT
                     !.at = "saveHealth", !.c = c,
                     !.snap = [chargers[c] EXCEPT !.health[k] = st]]
  <2>1. r.at \in points
    BY DEF IdleRequest
  <2>2. Start(h, r)
    BY <1>5 DEF BeginSetHealth
  <2> HIDE DEF r
  <2> QED BY <1>1, <2>1, <2>2
<1>6. ASSUME NEW kind \in {"bulkConnect", "bulkDisconnect"},
             NEW selected \in SUBSET ChargerIds, BeginBulk(h, kind, selected)
      PROVE  req'[h].at \in points
  <2> DEFINE r == [IdleRequest EXCEPT !.at = kind, !.todo = selected]
  <2>1. r.at \in points
    BY DEF IdleRequest
  <2>2. Start(h, r)
    BY <1>6 DEF BeginBulk
  <2> HIDE DEF r
  <2> QED BY <1>1, <2>1, <2>2
<1>7. req'[h].at \in points
  BY <1>2, <1>3, <1>4, <1>5, <1>6 DEF AcceptBulk
<1>8. UNCHANGED <<chargers, used, log>> /\ \A g \in Handlers : g # h => req'[g] = req[g]
  BY <1>1 DEF BeginDelete, BeginConnect, BeginDisconnect, BeginSetHealth,
              AcceptBulk, BeginBulk
<1> QED BY <1>7, <1>8 DEF KeepsCarriers, Carrying

(* Initially no id has been handed out.                                     *)
LEMMA OnePlaceInit == Init => OnePlace
BY DEF Init, OnePlace, TxUnique, TxsOf, Present, NoSnapshot, Carrying,
       IdleRequest

(* The four steps that move an id, and the loop's start of a new one.        *)
LEMMA OnePlaceBeginStart ==
  ASSUME TypeOK, TypeOK', OnePlace,
         NEW h \in Handlers, NEW c \in ChargerIds, NEW k \in Connectors,
         NEW t \in Txs, NEW wh \in MeterStarts, BeginStart(h, c, k, t, wh)
  PROVE  OnePlace'
<1> DEFINE tx == [id |-> t, conn |-> k, start |-> wh, meter |-> wh, sim |-> FALSE]
           r == [IdleRequest EXCEPT !.at = "storeTx", !.c = c, !.conn = k,
                                    !.tx = tx]
<1>1. t \notin used /\ used' = used \cup {t} /\ UNCHANGED <<chargers, log>>
  BY DEF BeginStart
<1>2. log[t].stops = 0
  BY <1>1 DEF OnePlace, TypeOK, Published
<1>3. r.at = "storeTx" /\ r.tx.id = t
  BY DEF IdleRequest
<1>4. Start(h, r) /\ h \in DOMAIN req
  BY DEF BeginStart, TypeOK
<1> HIDE DEF r
<1>5. /\ req'[h].at = "storeTx" /\ req'[h].tx.id = t
      /\ \A g \in Handlers : g # h => req'[g] = req[g]
  BY <1>3, <1>4 DEF Start
<1>6. \A d \in ChargerIds : TxsOf(d)' = TxsOf(d)
  BY <1>1 DEF TxsOf, Present
<1>7. \A g \in Handlers : Carrying(g)' => g = h \/ (Carrying(g) /\ req'[g] = req[g])
  BY <1>5 DEF Carrying
<1> QED BY <1>1, <1>2, <1>5, <1>6, <1>7 DEF OnePlace, TxUnique

(* charging/start moves its id from the handler to the store.               *)
LEMMA OnePlaceStoreTx ==
  ASSUME TypeOK, TypeOK', OnePlace, NEW h \in Handlers, StoreTx(h)
  PROVE  OnePlace'
<1> DEFINE c == req[h].c
           tx == req[h].tx
           new == Append(TxsOf(c), tx)
<1>1. c \in ChargerIds /\ chargers \in StoreType
  BY DEF TypeOK, Request, StoreType
<1>2. Carrying(h) /\ tx \in Transaction /\ tx.id \in Txs
  BY DEF StoreTx, At, Carrying, TypeOK, LocalsOK, Transaction
<1>3. TxsOf(c) \in Seq(Transaction) /\ new \in Seq(Transaction)
  BY <1>1, <1>2, StoreOpTypes
<1>4. \A d \in ChargerIds :
        TxsOf(d)' = TxsOf(d) \/ (d = c /\ TxsOf(d)' = new)
  <2>1. UpdateRuntime(c, new)
    BY DEF StoreTx
  <2> QED BY <1>1, <1>3, <2>1, TxsAfter
<1>5. UNCHANGED <<used, log>>
  BY DEF StoreTx
<1>6. \A g \in Handlers : Carrying(g)' => g # h /\ Carrying(g) /\ req'[g] = req[g]
  BY DEF StoreTx, Finish, Carrying, IdleRequest, TypeOK
<1>7. \A i \in DOMAIN new :
        \/ i \in DOMAIN TxsOf(c) /\ new[i] = TxsOf(c)[i]
        \/ i = Len(TxsOf(c)) + 1 /\ new[i] = tx
  BY <1>2, <1>3
<1> HIDE DEF c, tx, new
<1>8. tx.id \in used /\ log[tx.id].stops = 0
      /\ (\A d \in ChargerIds : \A i \in DOMAIN TxsOf(d) : TxsOf(d)[i].id # tx.id)
      /\ (\A g \in Handlers : Carrying(g) /\ req[g].tx.id = tx.id => g = h)
  BY <1>2 DEF OnePlace, tx
<1>9. \A d \in ChargerIds : \A i \in DOMAIN TxsOf(d)' :
        \/ i \in DOMAIN TxsOf(d) /\ TxsOf(d)'[i] = TxsOf(d)[i]
        \/ d = c /\ i = Len(TxsOf(c)) + 1 /\ TxsOf(d)'[i] = tx
  BY <1>4, <1>7
<1>10. TxUnique'
  BY <1>8, <1>9 DEF OnePlace, TxUnique
<1> QED BY <1>5, <1>6, <1>8, <1>9, <1>10 DEF OnePlace

(* The event loop stores a fresh id at once.                                *)
LEMMA OnePlaceStartSim ==
  ASSUME TypeOK, TypeOK', OnePlace, NEW c \in ChargerIds, NEW t \in Txs,
         StartSimTransaction(c, t)
  PROVE  OnePlace'
<1> DEFINE tx == [id |-> t, conn |-> 1, start |-> SimMeterStart,
                  meter |-> SimMeterStart, sim |-> TRUE]
           new == Append(TxsOf(c), tx)
<1>1. tx \in Transaction /\ tx.id = t
  BY FleetAssumption, AppAssumption DEF Transaction, Connectors
<1>2. t \notin used /\ used' = used \cup {t} /\ UNCHANGED <<req, log>>
      /\ UpdateRuntime(c, new)
  BY DEF StartSimTransaction
<1> HIDE DEF tx
<1>3. chargers \in StoreType
  BY DEF TypeOK, StoreType
<1>4. TxsOf(c) \in Seq(Transaction) /\ new \in Seq(Transaction)
  BY <1>1, <1>3, StoreOpTypes
<1>5. \A d \in ChargerIds :
        TxsOf(d)' = TxsOf(d) \/ (d = c /\ TxsOf(d)' = new)
  BY <1>2, <1>3, <1>4, TxsAfter
<1>6. \A i \in DOMAIN new :
        \/ i \in DOMAIN TxsOf(c) /\ new[i] = TxsOf(c)[i]
        \/ i = Len(TxsOf(c)) + 1 /\ new[i] = tx
  BY <1>1, <1>4
<1> HIDE DEF new
<1>7. log[t].stops = 0
  BY <1>2 DEF OnePlace, TypeOK, Published
<1>8. \A g \in Handlers : Carrying(g)' <=> Carrying(g)
  BY <1>2 DEF Carrying
<1>9. \A d \in ChargerIds : \A i \in DOMAIN TxsOf(d)' :
        \/ i \in DOMAIN TxsOf(d) /\ TxsOf(d)'[i] = TxsOf(d)[i]
        \/ d = c /\ i = Len(TxsOf(c)) + 1 /\ TxsOf(d)'[i] = tx
  BY <1>5, <1>6
<1>10. TxUnique'
  BY <1>1, <1>2, <1>9 DEF OnePlace, TxUnique
<1> QED BY <1>1, <1>2, <1>7, <1>8, <1>9, <1>10 DEF OnePlace

(* charging/stop moves its id from the store to the handler.                *)
LEMMA OnePlaceStopTx ==
  ASSUME TypeOK, TypeOK', OnePlace,
         NEW h \in Handlers, NEW c \in ChargerIds, NEW k \in Connectors,
         NEW i \in 1..Len(TxsOf(c)), StopTx(h, c, k, i)
  PROVE  OnePlace'
<1> DEFINE tx == TxsOf(c)[i]
           r == [IdleRequest EXCEPT !.at = "publishStop", !.c = c, !.conn = k,
                                    !.tx = tx]
<1>1. chargers \in StoreType /\ TxsOf(c) \in Seq(Transaction)
  BY StoreOpTypes DEF TypeOK, StoreType
<1>2. /\ RemoveAt(TxsOf(c), i) \in Seq(Transaction)
      /\ Len(RemoveAt(TxsOf(c), i)) = Len(TxsOf(c)) - 1
      /\ \A j \in 1..(Len(TxsOf(c)) - 1) :
           RemoveAt(TxsOf(c), i)[j] = IF j < i THEN TxsOf(c)[j] ELSE TxsOf(c)[j + 1]
  BY <1>1, RemoveAtFact
<1>3. \A d \in ChargerIds : TxsOf(d)' = TxsOf(d)
                          \/ (d = c /\ TxsOf(d)' = RemoveAt(TxsOf(c), i))
  BY <1>1, <1>2, TxsAfter DEF StopTx
<1>4. TxsOf(c)' = RemoveAt(TxsOf(c), i)
  <2>1. Present(c)
    BY DEF TxsOf
  <2> QED BY <1>1, <1>2, <2>1, TxsAfter DEF StopTx
<1>5. UNCHANGED <<used, log>>
  BY DEF StopTx
<1>6. tx.id \in used /\ log[tx.id].stops = 0
  BY <1>1 DEF OnePlace
<1>7. Start(h, r)
  BY DEF StopTx
<1>8. r.at = "publishStop" /\ r.tx = tx
  BY DEF IdleRequest
<1> HIDE DEF r
<1>9. /\ req'[h].at = "publishStop" /\ req'[h].tx = tx
      /\ \A g \in Handlers : g # h => req'[g] = req[g]
  BY <1>7, <1>8 DEF Start, TypeOK
<1>10. \A g \in Handlers : Carrying(g)' => g = h \/ (Carrying(g) /\ req'[g] = req[g])
  BY <1>9 DEF Carrying
<1> DEFINE Old(d, j) == IF d = c /\ j >= i THEN j + 1 ELSE j
<1>11. ASSUME NEW d \in ChargerIds, NEW j \in DOMAIN TxsOf(d)'
       PROVE  /\ Old(d, j) \in DOMAIN TxsOf(d)
              /\ TxsOf(d)'[j] = TxsOf(d)[Old(d, j)]
              /\ d = c => Old(d, j) # i
              /\ j \in Nat
  <2>1. CASE d = c
    BY <1>1, <1>2, <1>4, <1>11, <2>1
  <2>2. CASE d # c
    <3>1. TxsOf(d)' = TxsOf(d) /\ TxsOf(d) \in Seq(Transaction)
      BY <1>1, <1>3, <2>2, StoreOpTypes
    <3> QED BY <2>2, <3>1, <1>11
  <2> QED BY <2>1, <2>2
<1>12. \A d \in ChargerIds : \A j, m \in DOMAIN TxsOf(d)' :
         Old(d, j) = Old(d, m) => j = m
  BY <1>11
<1> HIDE DEF Old, tx
<1>13. TxUnique'
  BY <1>11, <1>12 DEF OnePlace, TxUnique
<1>14. \A d \in ChargerIds : \A j \in DOMAIN TxsOf(d)' : TxsOf(d)'[j].id # tx.id
  BY <1>1, <1>11 DEF OnePlace, TxUnique, tx
<1>15. \A g \in Handlers : Carrying(g) => req[g].tx.id # tx.id
  BY <1>1 DEF OnePlace, tx
<1> QED BY <1>5, <1>6, <1>9, <1>10, <1>11, <1>13, <1>14, <1>15 DEF OnePlace

(* TX_STOPPED is published for the id the handler then lets go of.          *)
LEMMA OnePlacePublishStop ==
  ASSUME TypeOK, TypeOK', OnePlace, NEW h \in Handlers, PublishStop(h)
  PROVE  OnePlace'
<1> DEFINE t == req[h].tx.id
<1>1. Carrying(h) /\ t \in Txs
  BY DEF PublishStop, At, Carrying, TypeOK, LocalsOK, Transaction
<1>2. \A u \in Txs : log'[u].stops = IF u = t THEN log[u].stops + 1 ELSE log[u].stops
  BY <1>1 DEF PublishStop, TypeOK, Published
<1>3. \A d \in ChargerIds : TxsOf(d)' = TxsOf(d)
  BY DEF PublishStop, TxsOf, Present
<1>4. \A g \in Handlers : Carrying(g)' => g # h /\ Carrying(g) /\ req'[g] = req[g]
  BY DEF PublishStop, Finish, Carrying, IdleRequest, TypeOK
<1>5. used' = used
  BY DEF PublishStop
<1>6. /\ t \in used /\ log[t].stops = 0
      /\ \A d \in ChargerIds : \A i \in DOMAIN TxsOf(d) : TxsOf(d)[i].id # t
      /\ \A g \in Handlers : Carrying(g) /\ req[g].tx.id = t => g = h
  BY <1>1 DEF OnePlace
<1>7. \A d \in ChargerIds : \A i \in DOMAIN TxsOf(d) : TxsOf(d)[i].id \in Txs
  BY DEF OnePlace, TypeOK
<1>8. \A g \in Handlers : Carrying(g) => req[g].tx.id \in Txs
  BY DEF TypeOK, LocalsOK, Transaction
<1> HIDE DEF t
<1>9. \A u \in Txs : log'[u].stops <= 1 /\ (log'[u].stops > 0 => u \in used)
  BY <1>2, <1>6 DEF OnePlace
<1> QED BY <1>2, <1>3, <1>4, <1>5, <1>6, <1>7, <1>8, <1>9 DEF OnePlace, TxUnique

(* Every step a handler in flight takes on its own keeps OnePlace.          *)
LEMMA OnePlaceProceed ==
  ASSUME TypeOK, TypeOK', OnePlace, NEW h \in Handlers, Proceed(h)
  PROVE  OnePlace'
<1>c. req[h].c \in ChargerIds /\ chargers \in StoreType
      /\ req \in [Handlers -> Request]
  BY DEF TypeOK, Request, StoreType
<1>p. {"forgetStep", "saveConnecting", "dial", "announce", "hangup", "clearTxs",
       "hungup"} \subseteq HandlerPoints \ {"storeTx", "publishStop"}
  BY DEF HandlerPoints
<1>k. ASSUME KeepsCarriers, UNCHANGED <<used, log>>,
             \A d \in ChargerIds : TxsOf(d)' = TxsOf(d) \/ TxsOf(d)' = <<>>
      PROVE  OnePlace'
  BY <1>k, <1>c, OnePlaceKept, 0 \in Nat
<1>1. CASE DeleteNow(h)
  BY <1>1, <1>c, <1>k, <1>p, CarriersKept, TxsAfter DEF DeleteNow
<1>2. CASE ForgetStep(h) \/ Announce(h) \/ Hungup(h) \/ BulkEnd(h)
  <2>1. KeepsCarriers
    BY <1>2, <1>c, CarriersKept DEF ForgetStep, Announce, Hungup, BulkEnd
  <2>2. UNCHANGED <<chargers, used, log>>
    BY <1>2 DEF ForgetStep, Announce, Hungup, BulkEnd
  <2> QED BY <1>k, <2>1, <2>2 DEF TxsOf, Present
<1>3. CASE SaveUrl(h)
  <2>1. req[h].snap \in Charger
    BY <1>3 DEF TypeOK, LocalsOK, HoldsCopy, SaveUrl, At
  <2>2. KeepsCarriers
    BY <1>3, <1>c, <1>p, CarriersKept DEF SaveUrl
  <2> QED BY <1>3, <1>c, <1>k, <2>1, <2>2, TxsAfter DEF SaveUrl
<1>4. CASE SaveConnecting(h)
  <2>1. req[h].snap \in Charger
    BY <1>4 DEF TypeOK, LocalsOK, HoldsCopy, SaveConnecting, At
  <2>2. [req[h].snap EXCEPT !.state = "CONNECTING"] \in Charger
    BY <2>1 DEF Charger, ConnectionStates
  <2>3. req'[h].at = "dial" /\ \A g \in Handlers : g # h => req'[g] = req[g]
    BY <1>4, <1>c DEF SaveConnecting, Request
  <2>4. KeepsCarriers
    BY <2>3 DEF KeepsCarriers, Carrying
  <2> QED BY <1>4, <1>c, <1>k, <2>2, <2>4, TxsAfter DEF SaveConnecting
<1>5. CASE DialFail(h) \/ HangupFail(h) \/ BulkDialed(h) \/ BulkHungup(h)
  <2>1. KeepsCarriers /\ UNCHANGED <<used, log>>
    BY <1>5, <1>c, CarriersKept DEF DialFail, HangupFail, BulkDialed, BulkHungup
  <2>2. \E st \in ConnectionStates : UpdateConnectionState(req[h].c, st)
    BY <1>5 DEF DialFail, HangupFail, BulkDialed, BulkHungup, ConnectionStates
  <2> QED BY <1>c, <1>k, <2>1, <2>2, TxsAfter
<1>6. CASE DialOk(h) \/ MarkDisconnecting(h) \/ HangupOk(h)
  <2>1. KeepsCarriers /\ UNCHANGED <<used, log>>
    BY <1>6, <1>c, <1>p, CarriersKept DEF DialOk, MarkDisconnecting, HangupOk
  <2>2. \E st \in ConnectionStates : UpdateConnectionState(req[h].c, st)
    BY <1>6 DEF DialOk, MarkDisconnecting, HangupOk, ConnectionStates
  <2> QED BY <1>c, <1>k, <2>1, <2>2, TxsAfter
<1>7. CASE ClearTxs(h)
  <2>1. KeepsCarriers /\ UNCHANGED <<used, log>>
    BY <1>7, <1>c, <1>p, CarriersKept DEF ClearTxs
  <2>2. <<>> \in Seq(Transaction)
    OBVIOUS
  <2> QED BY <1>7, <1>c, <1>k, <2>1, <2>2, TxsAfter DEF ClearTxs
<1>8. CASE SaveHealth(h)
  <2>1. req[h].snap \in Charger
    BY <1>8 DEF TypeOK, LocalsOK, HoldsCopy, SaveHealth, At
  <2>2. KeepsCarriers /\ UNCHANGED <<used, log>>
    BY <1>8, <1>c, CarriersKept DEF SaveHealth
  <2> QED BY <1>8, <1>c, <1>k, <2>1, <2>2, TxsAfter DEF SaveHealth
<1>9. CASE StoreTx(h)
  BY <1>9, OnePlaceStoreTx
<1>10. CASE PublishStop(h)
  BY <1>10, OnePlacePublishStop
<1>11. ASSUME NEW g \in Handlers, NEW c \in ChargerIds, BulkNext(h, g, c)
       PROVE  OnePlace'
  <2> DEFINE r == [IdleRequest EXCEPT !.at = BulkTimer(req[h].at), !.c = c]
  <2>1. r.at \in {"bulkDial", "bulkHangup"}
    BY DEF BulkTimer, IdleRequest
  <2>2. UpdateConnectionState(c, BulkMark(req[h].at)) /\ UNCHANGED <<used, log>>
        /\ Walking(h)
    BY <1>11 DEF BulkNext
  <2>3. \/ Idle(g) /\ req' = [req EXCEPT ![h].todo = @ \ {c}, ![g] = r]
        \/ req' = [req EXCEPT ![h].todo = @ \ {c}]
    BY <1>11 DEF BulkNext
  <2> HIDE DEF r
  <2>4. \A f \in Handlers :
          /\ f # g => req'[f].at = req[f].at
          /\ req'[f].at \in {req[f].at, "bulkDial", "bulkHangup"}
          /\ f # h => req'[f] = req[f] \/ req'[f] = r
    BY <2>1, <2>2, <2>3, <1>c DEF Request
  <2>5. KeepsCarriers
    BY <2>1, <2>2, <2>4 DEF KeepsCarriers, Carrying, Walking, At
  <2>6. BulkMark(req[h].at) \in ConnectionStates
    BY DEF BulkMark, ConnectionStates
  <2> QED BY <1>c, <1>k, <2>2, <2>5, <2>6, TxsAfter
<1> QED BY <1>1, <1>2, <1>3, <1>4, <1>5, <1>6, <1>7, <1>8, <1>9, <1>10, <1>11
        DEF Proceed, Dialed, HungUp

(* Every step of the event loop keeps OnePlace.                             *)
LEMMA OnePlaceLoop ==
  ASSUME TypeOK, TypeOK', OnePlace, Loop
  PROVE  OnePlace'
<1>c. chargers \in StoreType /\ req \in [Handlers -> Request]
      /\ log \in [Txs -> Published]
  BY DEF TypeOK, StoreType
<1>k. ASSUME NEW d \in ChargerIds, NEW e \in Nat,
             UNCHANGED <<req, used, log>>,
             \A c \in ChargerIds :
               TxsOf(c)' = TxsOf(c) \/ (c = d /\ KeepsIdsBut(TxsOf(d), TxsOf(d)', e))
      PROVE  OnePlace'
  <2>1. KeepsCarriers
    BY <1>k DEF KeepsCarriers, Carrying
  <2>2. used \subseteq used' /\ \A t \in Txs : log'[t].stops = log[t].stops
    BY <1>k
  <2> QED BY <1>k, <2>1, <2>2, OnePlaceKept
<1>j. ASSUME req' = req, used' = used,
             \A t \in Txs : log'[t].stops = log[t].stops,
             \A c \in ChargerIds : TxsOf(c)' = TxsOf(c)
      PROVE  OnePlace'
  <2>1. 1 \in ChargerIds /\ 0 \in Nat
    BY FleetAssumption DEF ChargerIds
  <2>2. KeepsCarriers
    BY <1>j DEF KeepsCarriers, Carrying
  <2> QED BY <1>j, <2>1, <2>2, OnePlaceKept
<1>1. CASE UNCHANGED <<chargers, req, used, log>>
  <2>1. \A c \in ChargerIds : TxsOf(c)' = TxsOf(c)
    BY <1>1 DEF TxsOf, Present
  <2> QED BY <1>1, <1>j, <2>1
<1>2. ASSUME NEW c \in ChargerIds, SendSimMeterValue(c) PROVE OnePlace'
  <2> DEFINE new == Metered(c, Reading(c))
  <2>1. UpdateRuntime(c, new) /\ UNCHANGED <<req, used, log>>
    BY <1>2 DEF SendSimMeterValue
  <2>2. /\ new \in Seq(Transaction)
        /\ DOMAIN new = DOMAIN TxsOf(c)
        /\ \A i \in DOMAIN TxsOf(c) : new[i].id = TxsOf(c)[i].id
    BY <1>2, MeteredType
  <2>3. TxsOf(c) \in Seq(Transaction)
    BY <1>c, StoreOpTypes
  <2> HIDE DEF new
  <2>4. \A d \in ChargerIds : TxsOf(d)' = TxsOf(d) \/ (d = c /\ TxsOf(d)' = new)
    BY <1>c, <2>1, <2>2, TxsAfter
  <2>6. PICK e \in Nat : e = Len(TxsOf(c)) + 1
    BY <2>3
  <2>5. TxsOf(c)' = new => KeepsIdsBut(TxsOf(c), TxsOf(c)', e)
    BY <2>2, <2>3, <2>6 DEF KeepsIdsBut
  <2>7. \A d \in ChargerIds : TxsOf(d)' = TxsOf(d) \/ (d = c /\ KeepsIdsBut(TxsOf(c), TxsOf(c)', e))
    BY <2>4, <2>5
  <2>8. \A t \in Txs : log'[t].stops = log[t].stops
    BY <2>1
  <2> QED BY <1>k, <2>1, <2>6, <2>7, <2>8
<1>3. ASSUME NEW c \in ChargerIds, EmitMeterTelemetry(c) PROVE OnePlace'
  <2>1. \A t \in Txs : log'[t].stops = log[t].stops
    BY <1>3, <1>c DEF EmitMeterTelemetry, Published
  <2>2. \A d \in ChargerIds : TxsOf(d)' = TxsOf(d)
    BY <1>3 DEF EmitMeterTelemetry, TxsOf, Present
  <2>3. req' = req /\ used' = used
    BY <1>3 DEF EmitMeterTelemetry
  <2> QED BY <1>j, <2>1, <2>2, <2>3
<1>4. ASSUME NEW c \in ChargerIds, NEW t \in Txs, StartSimTransaction(c, t)
      PROVE  OnePlace'
  BY <1>4, OnePlaceStartSim
<1>5. ASSUME NEW c \in ChargerIds, StopSimTransaction(c) PROVE OnePlace'
  <2>1. UNCHANGED <<req, used, log>>
    BY <1>5 DEF StopSimTransaction
  <2>2. CASE UNCHANGED chargers
    BY <1>1, <2>1, <2>2
  <2>3. CASE TxsOf(c) # <<>> /\ UpdateRuntime(c, Tail(TxsOf(c)))
    <3>1. /\ TxsOf(c) \in Seq(Transaction) /\ Tail(TxsOf(c)) \in Seq(Transaction)
          /\ Len(Tail(TxsOf(c))) = Len(TxsOf(c)) - 1
          /\ \A i \in 1..(Len(TxsOf(c)) - 1) : Tail(TxsOf(c))[i] = TxsOf(c)[i + 1]
      BY <1>c, <2>3, StoreOpTypes
    <3>2. \A d \in ChargerIds :
            TxsOf(d)' = TxsOf(d) \/ (d = c /\ TxsOf(d)' = Tail(TxsOf(c)))
      BY <1>c, <2>3, <3>1, TxsAfter
    <3>3. PICK e \in Nat : e = 1
      OBVIOUS
    <3>4. TxsOf(c)' = Tail(TxsOf(c)) => KeepsIdsBut(TxsOf(c), TxsOf(c)', e)
      BY <3>1, <3>3 DEF KeepsIdsBut
    <3>5. \A d \in ChargerIds : TxsOf(d)' = TxsOf(d) \/ (d = c /\ KeepsIdsBut(TxsOf(c), TxsOf(c)', e))
      BY <3>2, <3>4
    <3>6. \A t \in Txs : log'[t].stops = log[t].stops
      BY <2>1
    <3> QED BY <1>k, <2>1, <3>5, <3>6
  <2> QED BY <1>5, <2>2, <2>3 DEF StopSimTransaction
<1>6. ASSUME NEW c \in ChargerIds, Skip(c) \/ TakeStep(c) \/ OtherStep(c)
      PROVE  OnePlace'
  BY <1>1, <1>6 DEF Skip, TakeStep, OtherStep
<1>7. CASE Tick \/ EndTick
  BY <1>1, <1>7 DEF Tick, EndTick
<1> QED BY <1>2, <1>3, <1>4, <1>5, <1>6, <1>7 DEF Loop

(* OnePlace is inductive relative to the type invariant.                    *)
LEMMA OnePlaceNext == TypeOK /\ OnePlace /\ [Next]_vars => OnePlace'
<1> SUFFICES ASSUME TypeOK, OnePlace, [Next]_vars PROVE OnePlace'
  OBVIOUS
<1>t. TypeOK'
  BY TypeNext
<1>c. chargers \in StoreType /\ req \in [Handlers -> Request]
  BY DEF TypeOK, StoreType
<1>d. 1 \in ChargerIds /\ 0 \in Nat
  BY FleetAssumption DEF ChargerIds
<1>k. ASSUME KeepsCarriers, UNCHANGED <<used, log>>,
             \A d \in ChargerIds : TxsOf(d)' = TxsOf(d)
      PROVE  OnePlace'
  BY <1>k, <1>d, <1>t, OnePlaceKept
<1>s. UNCHANGED chargers => \A d \in ChargerIds : TxsOf(d)' = TxsOf(d)
  BY DEF TxsOf, Present
<1>r. req' = req => KeepsCarriers
  BY DEF KeepsCarriers, Carrying
<1>1. ASSUME NEW c \in ChargerIds, NEW config \in Heartbeats,
             CreateCharger(c, config)
      PROVE  OnePlace'
  BY <1>1, <1>c, <1>k, <1>r, TxsAfter DEF CreateCharger
<1>2. ASSUME NEW c \in ChargerIds, NEW config \in Heartbeats,
             PatchConfig(c, config)
      PROVE  OnePlace'
  BY <1>2, <1>c, <1>k, <1>r, TxsAfter DEF PatchConfig, Configs
<1>3. ASSUME NEW h \in Handlers, Accept(h) PROVE OnePlace'
  <2>1. ASSUME NEW c \in ChargerIds, NEW k \in Connectors, NEW t \in Txs,
               NEW wh \in MeterStarts, BeginStart(h, c, k, t, wh)
        PROVE  OnePlace'
    BY <1>t, <2>1, OnePlaceBeginStart
  <2>2. ASSUME NEW c \in ChargerIds, NEW k \in Connectors,
               NEW i \in 1..Len(TxsOf(c)), StopTx(h, c, k, i)
        PROVE  OnePlace'
    BY <1>t, <2>2, OnePlaceStopTx
  <2>3. ASSUME NEW c \in ChargerIds,
               \/ \E force \in BOOLEAN : BeginDelete(h, c, force)
               \/ BeginConnect(h, c)
               \/ BeginDisconnect(h, c)
               \/ \E k \in Connectors, st \in Statuses : BeginSetHealth(h, c, k, st)
        PROVE  OnePlace'
    BY <1>k, <1>s, <2>3, AcceptCarriers
  <2> QED BY <1>3, <2>1, <2>2, <2>3 DEF Accept
<1>4. ASSUME NEW h \in Handlers, AcceptBulk(h) PROVE OnePlace'
  BY <1>4, <1>d, <1>k, <1>s, AcceptCarriers
<1>5. ASSUME NEW h \in Handlers, Proceed(h) PROVE OnePlace'
  BY <1>5, <1>t, OnePlaceProceed
<1>6. CASE Loop
  BY <1>6, <1>t, OnePlaceLoop
<1>7. CASE UNCHANGED vars
  BY <1>7, <1>k, <1>r, <1>s DEF vars
<1> QED BY <1>1, <1>2, <1>3, <1>4, <1>5, <1>6, <1>7 DEF Next, Create, Patch

(* Every transaction id is in one place, in every reachable state.           *)
THEOREM FleetOnePlace == Spec => []OnePlace
<1>1. Init => TypeOK /\ OnePlace
  BY TypeInit, OnePlaceInit
<1>2. TypeOK /\ OnePlace /\ [Next]_vars => (TypeOK /\ OnePlace)'
  BY TypeNext, OnePlaceNext
<1> QED BY <1>1, <1>2, PTL DEF Spec

(* TX_STOPPED is published at most once per transaction.                     *)
THEOREM FleetStopOnce == Spec => []StopOnce
<1>1. OnePlace => StopOnce
  BY DEF OnePlace, StopOnce
<1> QED BY <1>1, FleetOnePlace, PTL

(* A transaction is active at most once and never after its TX_STOPPED,      *)
(* whatever stale copies are written back.                                   *)
THEOREM FleetActiveOnce == Spec => []ActiveOnce
<1>1. OnePlace => ActiveOnce
  BY DEF OnePlace, ActiveOnce
<1> QED BY <1>1, FleetOnePlace, PTL

-----------------------------------------------------------------------------
(* The connection state a charger is shown in.                               *)

Passing == {"CONNECTING", "DISCONNECTING"}

(* What each store operation does to it.                                     *)
LEMMA StateAfter ==
  ASSUME chargers \in StoreType, NEW c \in ChargerIds, NEW d \in ChargerIds
  PROVE  /\ \A ch \in Charger : UpdateCharger(c, ch) => StateOf(d)' = StateOf(d)
         /\ \A config \in Heartbeats :
              AddCharger(c, NewCharger(config)) => StateOf(d)' = StateOf(d)
         /\ RemoveCharger(c) =>
              StateOf(d)' = IF d = c THEN "DISCONNECTED" ELSE StateOf(d)
         /\ \A st \in ConnectionStates : UpdateConnectionState(c, st) =>
              StateOf(d)' = IF d = c /\ Present(c) THEN st ELSE StateOf(d)
         /\ \A txs \in Seq(Transaction) : UpdateRuntime(c, txs) =>
              StateOf(d)' = StateOf(d)
         /\ \A config \in Configs : UpdateConfig(c, config) =>
              StateOf(d)' = StateOf(d)
<1> USE FleetAssumption DEF StoreType, StateOf, Present
<1>1. ASSUME NEW ch \in Charger, UpdateCharger(c, ch)
      PROVE  StateOf(d)' = StateOf(d)
  <2>1. CASE Present(c)
    <3> DEFINE new == [ch EXCEPT !.txs = TxsOf(c), !.state = StateOf(c)]
    <3>1. new \in Charger /\ new.state = StateOf(c)
      BY <2>1 DEF TxsOf, Charger
    <3> HIDE DEF new
    <3>2. /\ ApplyDefaults(new) \in Charger
          /\ ApplyDefaults(new).state = StateOf(c)
      BY <3>1, StoreOpTypes DEF ApplyDefaults, Charger
    <3>3. chargers' = [chargers EXCEPT ![c] = ApplyDefaults(new)]
      BY <1>1, <2>1 DEF UpdateCharger, new
    <3> QED BY <2>1, <3>2, <3>3
  <2>2. CASE ~Present(c)
    BY <1>1, <2>2 DEF UpdateCharger
  <2> QED BY <2>1, <2>2
<1>2. ASSUME NEW config \in Heartbeats, AddCharger(c, NewCharger(config))
      PROVE  StateOf(d)' = StateOf(d)
  <2>1. /\ NewCharger(config) \in Charger
        /\ NewCharger(config).state = "DISCONNECTED"
    BY DEF NewCharger, Charger, ConnectionStates, Configs, Statuses
  <2>2. /\ ApplyDefaults(NewCharger(config)) \in Charger
        /\ ApplyDefaults(NewCharger(config)).state = "DISCONNECTED"
    BY <2>1, StoreOpTypes DEF ApplyDefaults, Charger
  <2> QED BY <1>2, <2>2 DEF AddCharger
<1>3. RemoveCharger(c) =>
        StateOf(d)' = IF d = c THEN "DISCONNECTED" ELSE StateOf(d)
  BY DEF RemoveCharger
<1>4. ASSUME NEW st \in ConnectionStates, UpdateConnectionState(c, st)
      PROVE  StateOf(d)' = IF d = c /\ Present(c) THEN st ELSE StateOf(d)
  <2>1. Present(c) => /\ [chargers[c] EXCEPT !.state = st] \in Charger
                      /\ [chargers[c] EXCEPT !.state = st].state = st
    BY DEF Charger
  <2> QED BY <1>4, <2>1 DEF UpdateConnectionState
<1>5. ASSUME NEW txs \in Seq(Transaction), UpdateRuntime(c, txs)
      PROVE  StateOf(d)' = StateOf(d)
  <2>1. Present(c) =>
          /\ [chargers[c] EXCEPT !.txs = txs] \in Charger
          /\ [chargers[c] EXCEPT !.txs = txs].state = chargers[c].state
    BY DEF Charger
  <2> QED BY <1>5, <2>1 DEF UpdateRuntime
<1>6. ASSUME NEW config \in Configs, UpdateConfig(c, config)
      PROVE  StateOf(d)' = StateOf(d)
  <2>1. Present(c) =>
          /\ [chargers[c] EXCEPT !.config = config] \in Charger
          /\ [chargers[c] EXCEPT !.config = config].state = chargers[c].state
    BY DEF Charger
  <2> QED BY <1>6, <2>1 DEF UpdateConfig
<1> QED BY <1>1, <1>2, <1>3, <1>4, <1>5, <1>6

(* The goroutines that settle a charger.                                     *)
Settling(h) == req[h].at \in {"bulkDial", "hangup", "bulkHangup"}

(* Each charger either keeps its state and the goroutines that settle it, or *)
(* is no longer shown passing.                                               *)
OwnersKept ==
  \A d \in ChargerIds :
    \/ StateOf(d)' \notin Passing
    \/ /\ StateOf(d)' = StateOf(d)
       /\ \A h \in Handlers : Settling(h) /\ req[h].c = d =>
            req'[h].at = req[h].at /\ req'[h].c = d

(* The owners stay, or their chargers have been settled.                     *)
LEMMA OwnedKept ==
  ASSUME TransitionalOwned, OwnersKept
  PROVE  TransitionalOwned'
BY DEF TransitionalOwned, OwnersKept, Settling, Passing, At

(* A handler that does not settle a charger may move on.                     *)
LEMMA SettlersKept ==
  ASSUME TypeOK, NEW h \in Handlers, ~Settling(h),
         \A g \in Handlers : g # h => req'[g] = req[g],
         \A d \in ChargerIds :
           StateOf(d)' = StateOf(d) \/ StateOf(d)' \notin Passing
  PROVE  OwnersKept
BY DEF OwnersKept, Settling

(* A handler that settled its charger may be done.                           *)
LEMMA SettlerDone ==
  ASSUME TypeOK, NEW h \in Handlers,
         \A g \in Handlers : g # h => req'[g] = req[g],
         NEW st \in ConnectionStates \ Passing,
         UpdateConnectionState(req[h].c, st)
  PROVE  OwnersKept
<1>1. chargers \in StoreType /\ req[h].c \in ChargerIds
  BY DEF TypeOK, StoreType, Request
<1>2. PICK c \in ChargerIds : c = req[h].c
  BY <1>1
<1>3. \A d \in ChargerIds :
        StateOf(d)' = IF d = c /\ Present(c) THEN st ELSE StateOf(d)
  BY <1>1, <1>2, StateAfter
<1>4. StateOf(c)' \notin Passing
  BY <1>3 DEF StateOf, Passing
<1>5. \A d \in ChargerIds : d # c => StateOf(d)' = StateOf(d)
  BY <1>3
<1> QED BY <1>2, <1>4, <1>5 DEF OwnersKept

(* Accepting a request leaves the connection states alone.                   *)
LEMMA OwnedAccept ==
  ASSUME TypeOK, NEW h \in Handlers, Accept(h) \/ AcceptBulk(h)
  PROVE  OwnersKept
<1>c. chargers \in StoreType /\ \A d \in ChargerIds : TxsOf(d) \in Seq(Transaction)
  BY StoreOpTypes DEF TypeOK, StoreType
<1>1. \E r : Start(h, r)
  BY DEF Accept, AcceptBulk, BeginDelete, BeginConnect, BeginDisconnect,
         BeginSetHealth, BeginStart, StopTx, BeginBulk
<1>2. ~Settling(h) /\ \A g \in Handlers : g # h => req'[g] = req[g]
  BY <1>1 DEF Start, Idle, Settling, TypeOK
<1>3. \/ UNCHANGED chargers
      \/ \E c \in ChargerIds : \E i \in 1..Len(TxsOf(c)) :
           UpdateRuntime(c, RemoveAt(TxsOf(c), i))
  BY DEF Accept, AcceptBulk, BeginDelete, BeginConnect, BeginDisconnect,
         BeginSetHealth, BeginStart, StopTx, BeginBulk
<1>4. \A d \in ChargerIds : StateOf(d)' = StateOf(d)
  <2>1. CASE UNCHANGED chargers
    BY <2>1 DEF StateOf, Present
  <2>2. ASSUME NEW c \in ChargerIds, NEW i \in 1..Len(TxsOf(c)),
               UpdateRuntime(c, RemoveAt(TxsOf(c), i))
        PROVE  \A d \in ChargerIds : StateOf(d)' = StateOf(d)
    <3>1. RemoveAt(TxsOf(c), i) \in Seq(Transaction)
      BY <1>c, RemoveAtFact
    <3> QED BY <1>c, <2>2, <3>1, StateAfter
  <2> QED BY <1>3, <2>1, <2>2
<1> QED BY <1>2, <1>4, SettlersKept

(* The two marks of a transition come with the goroutine that settles it.    *)
LEMMA OwnedMark ==
  ASSUME TypeOK, TransitionalOwned, NEW h \in Handlers, MarkDisconnecting(h)
  PROVE  TransitionalOwned'
<1>1. /\ chargers \in StoreType /\ req \in [Handlers -> Request]
      /\ At(h, "markDisconnecting") /\ Goto(h, "hangup")
      /\ UpdateConnectionState(req[h].c, "DISCONNECTING")
  BY DEF TypeOK, StoreType, MarkDisconnecting
<1>2. PICK c \in ChargerIds : c = req[h].c
  BY <1>1 DEF Request
<1>3. /\ req'[h].at = "hangup" /\ req'[h].c = c
      /\ \A g \in Handlers : g # h => req'[g] = req[g]
  BY <1>1, <1>2 DEF Goto, Request
<1>4. "DISCONNECTING" \in ConnectionStates
  BY DEF ConnectionStates
<1>5. \A d \in ChargerIds :
        StateOf(d)' = IF d = c /\ Present(c) THEN "DISCONNECTING" ELSE StateOf(d)
  BY <1>1, <1>2, <1>4, StateAfter
<1>6. StateOf(c)' \in {"DISCONNECTING", "DISCONNECTED"}
  BY <1>5 DEF StateOf
<1>7. \A d \in ChargerIds : d # c => StateOf(d)' = StateOf(d)
  BY <1>5
<1> QED BY <1>1, <1>3, <1>6, <1>7 DEF TransitionalOwned, At

(* A bulk operation marks a charger and spawns the goroutine that settles    *)
(* it.                                                                       *)
LEMMA OwnedBulkNext ==
  ASSUME TypeOK, TransitionalOwned, NEW h \in Handlers, NEW g \in Handlers,
         NEW c \in ChargerIds, BulkNext(h, g, c)
  PROVE  TransitionalOwned'
<1> DEFINE st == BulkMark(req[h].at)
           r == [IdleRequest EXCEPT !.at = BulkTimer(req[h].at), !.c = c]
<1>1. /\ chargers \in StoreType /\ req \in [Handlers -> Request]
      /\ Walking(h) /\ UpdateConnectionState(c, st)
  BY DEF TypeOK, StoreType, BulkNext
<1>2. /\ r.c = c
      /\ \/ r.at = "bulkDial" /\ st = "CONNECTING"
         \/ r.at = "bulkHangup" /\ st = "DISCONNECTING"
  BY <1>1 DEF Walking, At, BulkTimer, BulkMark, IdleRequest
<1>3. IF Present(c)
      THEN Idle(g) /\ req' = [req EXCEPT ![h].todo = @ \ {c}, ![g] = r]
      ELSE req' = [req EXCEPT ![h].todo = @ \ {c}]
  BY DEF BulkNext
<1> HIDE DEF r
<1>4. /\ Present(c) => req'[g] = r
      /\ \A f \in Handlers : Settling(f) => req'[f].at = req[f].at /\ req'[f].c = req[f].c
  BY <1>1, <1>3 DEF Settling, Idle, Request
<1>5. st \in ConnectionStates
  BY <1>2 DEF ConnectionStates
<1> HIDE DEF st
<1>6. \A d \in ChargerIds :
        StateOf(d)' = IF d = c /\ Present(c) THEN st ELSE StateOf(d)
  BY <1>1, <1>5, StateAfter
<1>7. CASE ~Present(c)
  <2>1. \A d \in ChargerIds : StateOf(d)' = StateOf(d)
    BY <1>6, <1>7
  <2> QED BY <1>4, <2>1, OwnedKept DEF OwnersKept
<1>8. CASE Present(c)
  <2>1. ASSUME NEW d \in ChargerIds, d # c
        PROVE  /\ StateOf(d)' = "CONNECTING" =>
                    \E f \in Handlers : At(f, "bulkDial")' /\ req'[f].c = d
               /\ StateOf(d)' = "DISCONNECTING" =>
                    \E f \in Handlers :
                      (At(f, "hangup") \/ At(f, "bulkHangup"))' /\ req'[f].c = d
    BY <1>4, <1>6, <2>1 DEF TransitionalOwned, Settling, At
  <2>2. /\ StateOf(c)' = "CONNECTING" => At(g, "bulkDial")' /\ req'[g].c = c
        /\ StateOf(c)' = "DISCONNECTING" => At(g, "bulkHangup")' /\ req'[g].c = c
    BY <1>2, <1>4, <1>6, <1>8 DEF At
  <2> QED BY <2>1, <2>2 DEF TransitionalOwned
<1> QED BY <1>7, <1>8

(* The other steps of a handler.                                             *)
LEMMA OwnedProceed ==
  ASSUME TypeOK, NEW h \in Handlers, Proceed(h), ~MarkDisconnecting(h),
         \A g \in Handlers, c \in ChargerIds : ~BulkNext(h, g, c)
  PROVE  OwnersKept
<1>c. /\ chargers \in StoreType /\ req \in [Handlers -> Request]
      /\ req[h].c \in ChargerIds
      /\ \A d \in ChargerIds : TxsOf(d) \in Seq(Transaction)
  BY StoreOpTypes DEF TypeOK, StoreType, Request
<1>s. /\ {"DISCONNECTED", "CONNECTED", "ERROR"} \subseteq ConnectionStates \ Passing
      /\ "DISCONNECTED" \notin Passing
  BY DEF ConnectionStates, Passing
<1>r. \A g \in Handlers : g # h => req'[g] = req[g]
  BY <1>c DEF Proceed, Dialed, HungUp, DeleteNow, ForgetStep, SaveUrl,
              SaveConnecting, DialOk, DialFail, Announce, HangupOk, HangupFail,
              ClearTxs, Hungup, SaveHealth, StoreTx, PublishStop, BulkEnd,
              BulkDialed, BulkHungup, Goto, Finish
<1>1. CASE DialOk(h) \/ DialFail(h) \/ HangupOk(h) \/ HangupFail(h)
           \/ BulkDialed(h) \/ BulkHungup(h)
  <2>1. \E st \in ConnectionStates \ Passing : UpdateConnectionState(req[h].c, st)
    BY <1>1, <1>s DEF DialOk, DialFail, HangupOk, HangupFail, BulkDialed, BulkHungup
  <2> QED BY <1>r, <2>1, SettlerDone
<1>k. ASSUME ~Settling(h),
             \A d \in ChargerIds :
               StateOf(d)' = StateOf(d) \/ StateOf(d)' = "DISCONNECTED"
      PROVE  OwnersKept
  BY <1>k, <1>r, <1>s, SettlersKept
<1>2. CASE DeleteNow(h)
  <2>1. ~Settling(h) /\ RemoveCharger(req[h].c)
    BY <1>2 DEF DeleteNow, At, Settling
  <2> QED BY <1>c, <1>k, <2>1, StateAfter
<1>3. CASE ForgetStep(h) \/ Announce(h) \/ Hungup(h) \/ BulkEnd(h) \/ PublishStop(h)
  <2>1. ~Settling(h) /\ UNCHANGED chargers
    BY <1>3 DEF ForgetStep, Announce, Hungup, BulkEnd, PublishStop, At, Settling,
                Walking
  <2> QED BY <1>k, <2>1 DEF StateOf, Present
<1>4. CASE SaveUrl(h) \/ SaveHealth(h)
  <2>1. /\ ~Settling(h) /\ req[h].snap \in Charger
        /\ UpdateCharger(req[h].c, req[h].snap)
    BY <1>4 DEF SaveUrl, SaveHealth, At, Settling, TypeOK, LocalsOK, HoldsCopy
  <2> QED BY <1>c, <1>k, <2>1, StateAfter
<1>5. CASE SaveConnecting(h)
  <2>1. /\ ~Settling(h) /\ req[h].snap \in Charger
        /\ UpdateCharger(req[h].c, [req[h].snap EXCEPT !.state = "CONNECTING"])
    BY <1>5 DEF SaveConnecting, At, Settling, TypeOK, LocalsOK, HoldsCopy
  <2>2. [req[h].snap EXCEPT !.state = "CONNECTING"] \in Charger
    BY <2>1 DEF Charger, ConnectionStates
  <2> QED BY <1>c, <1>k, <2>1, <2>2, StateAfter
<1>6. CASE ClearTxs(h)
  <2>1. ~Settling(h) /\ UpdateRuntime(req[h].c, <<>>)
    BY <1>6 DEF ClearTxs, At, Settling
  <2>2. <<>> \in Seq(Transaction)
    OBVIOUS
  <2> QED BY <1>c, <1>k, <2>1, <2>2, StateAfter
<1>7. CASE StoreTx(h)
  <2>1. /\ ~Settling(h) /\ req[h].tx \in Transaction
        /\ UpdateRuntime(req[h].c, Append(TxsOf(req[h].c), req[h].tx))
    BY <1>7 DEF StoreTx, At, Settling, TypeOK, LocalsOK, Carrying
  <2>2. Append(TxsOf(req[h].c), req[h].tx) \in Seq(Transaction)
    BY <1>c, <2>1
  <2> QED BY <1>c, <1>k, <2>1, <2>2, StateAfter
<1> QED BY <1>1, <1>2, <1>3, <1>4, <1>5, <1>6, <1>7 DEF Proceed, Dialed, HungUp

(* So do those of the event loop.                                            *)
LEMMA OwnedLoop ==
  ASSUME TypeOK, Loop
  PROVE  OwnersKept
<1>c. chargers \in StoreType /\ \A d \in ChargerIds : TxsOf(d) \in Seq(Transaction)
  BY StoreOpTypes DEF TypeOK, StoreType
<1>1. req' = req
  BY DEF Loop, Tick, EndTick, SendSimMeterValue, EmitMeterTelemetry, Skip, TakeStep,
         StartSimTransaction, StopSimTransaction, OtherStep
<1>2. ASSUME NEW c \in ChargerIds, NEW txs \in Seq(Transaction),
             UpdateRuntime(c, txs)
      PROVE  \A d \in ChargerIds : StateOf(d)' = StateOf(d)
  BY <1>2, <1>c, StateAfter
<1>3. UNCHANGED chargers => \A d \in ChargerIds : StateOf(d)' = StateOf(d)
  BY DEF StateOf, Present
<1>4. ASSUME NEW c \in ChargerIds, SendSimMeterValue(c)
      PROVE  \A d \in ChargerIds : StateOf(d)' = StateOf(d)
  BY <1>2, <1>4, MeteredType DEF SendSimMeterValue
<1>5. ASSUME NEW c \in ChargerIds, NEW t \in Txs, StartSimTransaction(c, t)
      PROVE  \A d \in ChargerIds : StateOf(d)' = StateOf(d)
  <2> DEFINE tx == [id |-> t, conn |-> 1, start |-> SimMeterStart,
                    meter |-> SimMeterStart, sim |-> TRUE]
  <2>1. tx \in Transaction /\ UpdateRuntime(c, Append(TxsOf(c), tx))
    BY <1>5, FleetAssumption, AppAssumption
       DEF StartSimTransaction, Transaction, Connectors
  <2> HIDE DEF tx
  <2>2. Append(TxsOf(c), tx) \in Seq(Transaction)
    BY <1>c, <2>1
  <2> QED BY <1>2, <2>1, <2>2
<1>6. ASSUME NEW c \in ChargerIds, StopSimTransaction(c)
      PROVE  \A d \in ChargerIds : StateOf(d)' = StateOf(d)
  <2>1. TxsOf(c) # <<>> => Tail(TxsOf(c)) \in Seq(Transaction)
    BY <1>c
  <2> QED BY <1>2, <1>3, <1>6, <2>1 DEF StopSimTransaction
<1>7. \A d \in ChargerIds : StateOf(d)' = StateOf(d)
  BY <1>3, <1>4, <1>5, <1>6
     DEF Loop, Tick, EndTick, EmitMeterTelemetry, Skip, TakeStep, OtherStep
<1> QED BY <1>1, <1>7 DEF OwnersKept

(* TransitionalOwned is inductive.                                           *)
LEMMA OwnedNext ==
  ASSUME TypeOK, TransitionalOwned, [Next]_vars
  PROVE  TransitionalOwned'
<1>c. chargers \in StoreType
  BY DEF TypeOK, StoreType
<1>1. ASSUME NEW c \in ChargerIds, NEW config \in Heartbeats,
             CreateCharger(c, config) \/ PatchConfig(c, config)
      PROVE  TransitionalOwned'
  <2>1. req' = req /\ \A d \in ChargerIds : StateOf(d)' = StateOf(d)
    BY <1>1, <1>c, StateAfter DEF CreateCharger, PatchConfig, Configs
  <2> QED BY <2>1, OwnedKept DEF OwnersKept
<1>2. ASSUME NEW h \in Handlers, Accept(h) \/ AcceptBulk(h)
      PROVE  TransitionalOwned'
  BY <1>2, OwnedAccept, OwnedKept
<1>3. ASSUME NEW h \in Handlers, Proceed(h) PROVE TransitionalOwned'
  BY <1>3, OwnedMark, OwnedBulkNext, OwnedProceed, OwnedKept
<1>4. CASE Loop
  BY <1>4, OwnedLoop, OwnedKept
<1>5. CASE UNCHANGED vars
  BY <1>5, OwnedKept DEF vars, OwnersKept, StateOf, Present
<1> QED BY <1>1, <1>2, <1>3, <1>4, <1>5 DEF Next, Create, Patch

(* A charger shown CONNECTING or DISCONNECTING has a goroutine in flight     *)
(* that will settle it.                                                      *)
THEOREM FleetTransitionalOwned == Spec => []TransitionalOwned
<1>1. Init => TransitionalOwned
  BY DEF Init, TransitionalOwned, StateOf, Present, NoSnapshot
<1>2. TypeOK /\ TransitionalOwned /\ [Next]_vars => TransitionalOwned'
  BY OwnedNext
<1> QED BY <1>1, <1>2, FleetTypeOK, PTL DEF Spec
=============================================================================
