--------------------------- MODULE FleetLoopProofs ---------------------------
(* Proofs about the copies the event loop of Fleet.tla works on: what they   *)
(* still say of the store when the loop comes to a charger, and what it      *)
(* publishes on their account.                                               *)
EXTENDS FleetProofs

-----------------------------------------------------------------------------
(* What a step does to the stored transactions.                              *)

(* new has elements of old only, none of them further back than it was.      *)
Kept(old, new) ==
  \A i \in DOMAIN new : \E j \in DOMAIN old : i <= j /\ new[i] = old[j]

(* The transactions about to be stored are the same.                         *)
PendingSame ==
  \A h \in Handlers :
    /\ At(h, "storeTx")' <=> At(h, "storeTx")
    /\ At(h, "storeTx") => req'[h].tx = req[h].tx

(* A step that hands out no id, stores none and publishes nothing.           *)
Quiet ==
  /\ UNCHANGED <<used, log>>
  /\ PendingSame
  /\ \A d \in ChargerIds : Kept(TxsOf(d), TxsOf(d)')

(* Taking elements out of a sequence keeps the others.                       *)
LEMMA KeptFacts ==
  ASSUME NEW S, NEW s \in Seq(S)
  PROVE  /\ Kept(s, s) /\ Kept(s, <<>>)
         /\ \A i \in 1..Len(s) : Kept(s, RemoveAt(s, i))
         /\ s # <<>> => Kept(s, Tail(s))
<1>0. DOMAIN s = 1..Len(s) /\ Len(s) \in Nat
  OBVIOUS
<1>1. Kept(s, s) /\ Kept(s, <<>>)
  BY <1>0 DEF Kept
<1>2. ASSUME NEW i \in 1..Len(s) PROVE Kept(s, RemoveAt(s, i))
  <2> DEFINE new == RemoveAt(s, i)
  <2>1. /\ new \in Seq(S) /\ Len(new) = Len(s) - 1
        /\ \A j \in 1..(Len(s) - 1) : new[j] = IF j < i THEN s[j] ELSE s[j + 1]
    BY RemoveAtFact
  <2>2. DOMAIN new = 1..(Len(s) - 1)
    BY <2>1
  <2> HIDE DEF new
  <2>3. ASSUME NEW j \in 1..(Len(s) - 1)
        PROVE  \E m \in 1..Len(s) : j <= m /\ new[j] = s[m]
    <3>1. j \in 1..Len(s) /\ j + 1 \in 1..Len(s) /\ j <= j /\ j <= j + 1
      BY <1>0
    <3> QED BY <2>1, <3>1
  <2>4. Kept(s, new)
    BY <1>0, <2>2, <2>3 DEF Kept
  <2> QED BY <2>4 DEF new
<1>3. ASSUME s # <<>> PROVE Kept(s, Tail(s))
  <2>1. /\ DOMAIN Tail(s) = 1..(Len(s) - 1)
        /\ \A j \in 1..(Len(s) - 1) :
             Tail(s)[j] = s[j + 1] /\ j + 1 \in 1..Len(s) /\ j <= j + 1
    BY <1>0, <1>3
  <2> QED BY <1>0, <2>1 DEF Kept
<1> QED BY <1>1, <1>2, <1>3

(* A handler that does not store a transaction leaves those about to be      *)
(* stored alone.                                                             *)
LEMMA PendingKept ==
  ASSUME req \in [Handlers -> Request], NEW h \in Handlers, ~At(h, "storeTx")
  PROVE  /\ Finish(h) => PendingSame
         /\ \A point \in HandlerPoints \ {"storeTx"} :
              Goto(h, point) => PendingSame
         /\ \A r : Start(h, r) /\ ~At(h, "storeTx")' => PendingSame
<1>1. Finish(h) => PendingSame
  BY DEF Finish, PendingSame, At, IdleRequest
<1>2. ASSUME NEW point \in HandlerPoints \ {"storeTx"}, Goto(h, point)
      PROVE  PendingSame
  BY <1>2 DEF Goto, PendingSame, At, Request
<1>3. ASSUME NEW r, Start(h, r), ~At(h, "storeTx")' PROVE PendingSame
  BY <1>3 DEF Start, PendingSame, At
<1> QED BY <1>1, <1>2, <1>3

(* Accepting a request other than charging/start is quiet.                   *)
LEMMA QuietAccept ==
  ASSUME TypeOK, NEW h \in Handlers, Accept(h) \/ AcceptBulk(h),
         \A c \in ChargerIds, k \in Connectors, t \in Txs, wh \in MeterStarts :
           ~BeginStart(h, c, k, t, wh)
  PROVE  Quiet /\ loop' = loop
<1>c. chargers \in StoreType /\ req \in [Handlers -> Request]
  BY DEF TypeOK, StoreType
<1>s. \A d \in ChargerIds : TxsOf(d) \in Seq(Transaction)
  BY <1>c, StoreOpTypes
<1>1. ASSUME NEW c \in ChargerIds,
             \/ \E force \in BOOLEAN : BeginDelete(h, c, force)
             \/ BeginConnect(h, c)
             \/ BeginDisconnect(h, c)
             \/ \E k \in Connectors, st \in Statuses : BeginSetHealth(h, c, k, st)
             \/ AcceptBulk(h)
      PROVE  Quiet /\ loop' = loop
  <2>1. KeepsCarriers /\ UNCHANGED <<chargers, used, log>>
    BY <1>1, AcceptCarriers
  <2>2. loop' = loop /\ \E r : Start(h, r)
    BY <1>1 DEF BeginDelete, BeginConnect, BeginDisconnect, BeginSetHealth,
                AcceptBulk, BeginBulk
  <2>3. Idle(h)
    BY <2>2 DEF Start
  <2>4. ~At(h, "storeTx") /\ ~At(h, "storeTx")'
    BY <2>1, <2>3 DEF Idle, At, KeepsCarriers, Carrying
  <2>5. PendingSame
    BY <1>c, <2>2, <2>4, PendingKept
  <2>6. \A d \in ChargerIds : TxsOf(d)' = TxsOf(d)
    BY <2>1 DEF TxsOf, Present
  <2> QED BY <1>s, <2>1, <2>2, <2>5, <2>6, KeptFacts DEF Quiet
<1>2. ASSUME NEW c \in ChargerIds, NEW k \in Connectors,
             NEW i \in 1..Len(TxsOf(c)), StopTx(h, c, k, i)
      PROVE  Quiet /\ loop' = loop
  <2> DEFINE new == RemoveAt(TxsOf(c), i)
             r == [IdleRequest EXCEPT !.at = "publishStop", !.c = c, !.conn = k,
                                      !.tx = TxsOf(c)[i]]
  <2>1. Start(h, r) /\ UpdateRuntime(c, new) /\ UNCHANGED <<used, log, loop>>
    BY <1>2 DEF StopTx
  <2>2. r.at = "publishStop"
    BY DEF IdleRequest
  <2>3. new \in Seq(Transaction) /\ Kept(TxsOf(c), new)
    BY <1>s, RemoveAtFact, KeptFacts
  <2> HIDE DEF r, new
  <2>4. ~At(h, "storeTx") /\ ~At(h, "storeTx")'
    BY <1>c, <2>1, <2>2 DEF Start, Idle, At
  <2>5. PendingSame
    BY <1>c, <2>1, <2>4, PendingKept
  <2>6. \A d \in ChargerIds : TxsOf(d)' = TxsOf(d) \/ (d = c /\ TxsOf(d)' = new)
    BY <1>c, <2>1, <2>3, TxsAfter
  <2>7. \A d \in ChargerIds : Kept(TxsOf(d), TxsOf(d)')
    BY <1>s, <2>3, <2>6, KeptFacts
  <2> QED BY <2>1, <2>5, <2>7 DEF Quiet
<1>3. 1 \in ChargerIds
  BY FleetAssumption DEF ChargerIds
<1> QED BY <1>1, <1>2, <1>3 DEF Accept

(* So is every step a handler takes on its own, but for storing and for      *)
(* announcing.                                                               *)
LEMMA QuietProceed ==
  ASSUME TypeOK, NEW h \in Handlers, Proceed(h), ~StoreTx(h), ~PublishStop(h)
  PROVE  Quiet /\ loop' = loop
<1>c. /\ chargers \in StoreType /\ req \in [Handlers -> Request]
      /\ req[h].c \in ChargerIds
  BY DEF TypeOK, StoreType, Request
<1>s. \A d \in ChargerIds : TxsOf(d) \in Seq(Transaction)
  BY <1>c, StoreOpTypes
<1>p. {"forgetStep", "saveConnecting", "dial", "announce", "hangup", "clearTxs",
       "hungup"} \subseteq HandlerPoints \ {"storeTx"}
  BY DEF HandlerPoints
<1>k. ASSUME PendingSame, UNCHANGED <<used, log, loop>>,
             \A d \in ChargerIds : TxsOf(d)' = TxsOf(d) \/ TxsOf(d)' = <<>>
      PROVE  Quiet /\ loop' = loop
  BY <1>k, <1>s, KeptFacts DEF Quiet
<1>1. CASE DeleteNow(h)
  <2>1. PendingSame
    BY <1>1, <1>c, <1>p, PendingKept DEF DeleteNow, At
  <2> QED BY <1>1, <1>c, <1>k, <2>1, TxsAfter DEF DeleteNow
<1>2. CASE ForgetStep(h) \/ Announce(h) \/ Hungup(h) \/ BulkEnd(h)
  <2>1. PendingSame
    BY <1>2, <1>c, PendingKept DEF ForgetStep, Announce, Hungup, BulkEnd, Walking, At
  <2>2. UNCHANGED <<chargers, used, log, loop>>
    BY <1>2 DEF ForgetStep, Announce, Hungup, BulkEnd
  <2> QED BY <1>k, <2>1, <2>2 DEF TxsOf, Present
<1>3. CASE SaveUrl(h) \/ SaveHealth(h)
  <2>1. req[h].snap \in Charger
    BY <1>3 DEF TypeOK, LocalsOK, HoldsCopy, SaveUrl, SaveHealth, At
  <2>2. PendingSame
    BY <1>3, <1>c, <1>p, PendingKept DEF SaveUrl, SaveHealth, At
  <2>3. UpdateCharger(req[h].c, req[h].snap) /\ UNCHANGED <<used, log, loop>>
    BY <1>3 DEF SaveUrl, SaveHealth
  <2> QED BY <1>c, <1>k, <2>1, <2>2, <2>3, TxsAfter
<1>4. CASE SaveConnecting(h)
  <2>1. req[h].snap \in Charger
    BY <1>4 DEF TypeOK, LocalsOK, HoldsCopy, SaveConnecting, At
  <2>2. [req[h].snap EXCEPT !.state = "CONNECTING"] \in Charger
    BY <2>1 DEF Charger, ConnectionStates
  <2>3. req'[h].at = "dial" /\ \A g \in Handlers : g # h => req'[g] = req[g]
    BY <1>4, <1>c DEF SaveConnecting, Request
  <2>4. PendingSame
    BY <1>4, <2>3 DEF PendingSame, At, SaveConnecting
  <2> QED BY <1>4, <1>c, <1>k, <2>2, <2>4, TxsAfter DEF SaveConnecting
<1>5. CASE DialFail(h) \/ HangupFail(h) \/ BulkDialed(h) \/ BulkHungup(h)
  <2>1. PendingSame
    BY <1>5, <1>c, PendingKept DEF DialFail, HangupFail, BulkDialed, BulkHungup, At
  <2>2. UNCHANGED <<used, log, loop>>
        /\ \E st \in ConnectionStates : UpdateConnectionState(req[h].c, st)
    BY <1>5 DEF DialFail, HangupFail, BulkDialed, BulkHungup, ConnectionStates
  <2> QED BY <1>c, <1>k, <2>1, <2>2, TxsAfter
<1>6. CASE DialOk(h) \/ MarkDisconnecting(h) \/ HangupOk(h)
  <2>1. PendingSame
    BY <1>6, <1>c, <1>p, PendingKept DEF DialOk, MarkDisconnecting, HangupOk, At
  <2>2. UNCHANGED <<used, log, loop>>
        /\ \E st \in ConnectionStates : UpdateConnectionState(req[h].c, st)
    BY <1>6 DEF DialOk, MarkDisconnecting, HangupOk, ConnectionStates
  <2> QED BY <1>c, <1>k, <2>1, <2>2, TxsAfter
<1>7. CASE ClearTxs(h)
  <2>1. PendingSame
    BY <1>7, <1>c, <1>p, PendingKept DEF ClearTxs, At
  <2>2. <<>> \in Seq(Transaction)
    OBVIOUS
  <2> QED BY <1>7, <1>c, <1>k, <2>1, <2>2, TxsAfter DEF ClearTxs
<1>8. ASSUME NEW g \in Handlers, NEW c \in ChargerIds, BulkNext(h, g, c)
      PROVE  Quiet /\ loop' = loop
  <2> DEFINE r == [IdleRequest EXCEPT !.at = BulkTimer(req[h].at), !.c = c]
  <2>1. r.at \in {"bulkDial", "bulkHangup"}
    BY DEF BulkTimer, IdleRequest
  <2>2. UpdateConnectionState(c, BulkMark(req[h].at)) /\ UNCHANGED <<used, log, loop>>
        /\ Walking(h)
    BY <1>8 DEF BulkNext
  <2>3. \/ Idle(g) /\ req' = [req EXCEPT ![h].todo = @ \ {c}, ![g] = r]
        \/ req' = [req EXCEPT ![h].todo = @ \ {c}]
    BY <1>8 DEF BulkNext
  <2> HIDE DEF r
  <2>4. \A f \in Handlers :
          \/ req'[f].at = req[f].at /\ req'[f].tx = req[f].tx
          \/ f = g /\ Idle(g) /\ req'[f] = r
    BY <2>3, <1>c DEF Request
  <2>5. PendingSame
    BY <2>1, <2>4 DEF PendingSame, Idle, At
  <2>6. BulkMark(req[h].at) \in ConnectionStates
    BY DEF BulkMark, ConnectionStates
  <2> QED BY <1>c, <1>k, <2>2, <2>5, <2>6, TxsAfter
<1> QED BY <1>1, <1>2, <1>3, <1>4, <1>5, <1>6, <1>7, <1>8
        DEF Proceed, Dialed, HungUp

(* Every step but those named is quiet.                                      *)
LEMMA StepKinds ==
  ASSUME TypeOK, [Next]_vars
  PROVE  \/ Quiet /\ loop' = loop
         \/ Quiet /\ \/ EndTick
                     \/ \E c \in ChargerIds : \/ Skip(c) \/ TakeStep(c)
                                             \/ StopSimTransaction(c)
                                             \/ OtherStep(c)
         \/ Tick
         \/ \E c \in ChargerIds : \/ SendSimMeterValue(c)
                                 \/ EmitMeterTelemetry(c)
                                 \/ \E t \in Txs : StartSimTransaction(c, t)
         \/ \E h \in Handlers :
              \/ StoreTx(h)
              \/ PublishStop(h)
              \/ \E c \in ChargerIds, k \in Connectors, t \in Txs,
                    wh \in MeterStarts : BeginStart(h, c, k, t, wh)
<1>c. /\ chargers \in StoreType /\ req \in [Handlers -> Request]
      /\ \A d \in ChargerIds : TxsOf(d) \in Seq(Transaction)
  BY StoreOpTypes DEF TypeOK, StoreType
<1>r. req' = req => PendingSame
  BY DEF PendingSame, At
<1>k. ASSUME UNCHANGED <<req, used, log>>,
             \A d \in ChargerIds : TxsOf(d)' = TxsOf(d)
      PROVE  Quiet
  BY <1>k, <1>c, <1>r, KeptFacts DEF Quiet
<1>1. ASSUME NEW c \in ChargerIds, NEW config \in Heartbeats,
             CreateCharger(c, config) \/ PatchConfig(c, config)
      PROVE  Quiet /\ loop' = loop
  BY <1>1, <1>c, <1>k, TxsAfter DEF CreateCharger, PatchConfig, Configs
<1>2. ASSUME NEW c \in ChargerIds,
             Skip(c) \/ TakeStep(c) \/ OtherStep(c) \/ EndTick \/ UNCHANGED vars
      PROVE  Quiet
  <2>1. UNCHANGED <<chargers, req, used, log>>
    BY <1>2 DEF Skip, TakeStep, OtherStep, EndTick, vars
  <2> QED BY <1>k, <2>1 DEF TxsOf, Present
<1>3. ASSUME NEW c \in ChargerIds, StopSimTransaction(c) PROVE Quiet
  <2>1. UNCHANGED <<req, used, log>>
    BY <1>3 DEF StopSimTransaction
  <2>2. CASE UNCHANGED chargers
    BY <1>k, <2>1, <2>2 DEF TxsOf, Present
  <2>3. CASE TxsOf(c) # <<>> /\ UpdateRuntime(c, Tail(TxsOf(c)))
    <3>1. /\ Tail(TxsOf(c)) \in Seq(Transaction)
          /\ Kept(TxsOf(c), Tail(TxsOf(c)))
      BY <1>c, <2>3, KeptFacts
    <3>2. \A d \in ChargerIds :
            TxsOf(d)' = TxsOf(d) \/ (d = c /\ TxsOf(d)' = Tail(TxsOf(c)))
      BY <1>c, <2>3, <3>1, TxsAfter
    <3>3. \A d \in ChargerIds : Kept(TxsOf(d), TxsOf(d)')
      BY <1>c, <3>1, <3>2, KeptFacts
    <3> QED BY <1>r, <2>1, <3>3 DEF Quiet
  <2> QED BY <1>3, <2>2, <2>3 DEF StopSimTransaction
<1>4. 1 \in ChargerIds
  BY FleetAssumption DEF ChargerIds
<1>5. CASE Loop
  BY <1>2, <1>3, <1>4, <1>5 DEF Loop
<1>6. CASE UNCHANGED vars
  BY <1>2, <1>4, <1>6 DEF vars
<1>7. ASSUME NEW h \in Handlers, Accept(h) \/ AcceptBulk(h),
             \A c \in ChargerIds, k \in Connectors, t \in Txs, wh \in MeterStarts :
               ~BeginStart(h, c, k, t, wh)
      PROVE  Quiet /\ loop' = loop
  BY <1>7, QuietAccept
<1>8. ASSUME NEW h \in Handlers, Proceed(h), ~StoreTx(h), ~PublishStop(h)
      PROVE  Quiet /\ loop' = loop
  BY <1>8, QuietProceed
<1> QED BY <1>1, <1>5, <1>6, <1>7, <1>8 DEF Next, Create, Patch

(* The transactions after one was appended.                                  *)
LEMMA AppendAfter ==
  ASSUME chargers \in StoreType, NEW c \in ChargerIds, NEW tx \in Transaction,
         UpdateRuntime(c, Append(TxsOf(c), tx)),
         NEW d \in ChargerIds, NEW i \in DOMAIN TxsOf(d)'
  PROVE  \/ i \in DOMAIN TxsOf(d) /\ TxsOf(d)'[i] = TxsOf(d)[i]
         \/ d = c /\ i = Len(TxsOf(d)) + 1 /\ TxsOf(d)'[i] = tx
<1> DEFINE new == Append(TxsOf(c), tx)
<1>1. TxsOf(c) \in Seq(Transaction) /\ new \in Seq(Transaction)
  BY StoreOpTypes
<1>2. TxsOf(d)' = TxsOf(d) \/ (d = c /\ TxsOf(d)' = new)
  BY <1>1, TxsAfter
<1>3. \A j \in DOMAIN new :
        \/ j \in DOMAIN TxsOf(c) /\ new[j] = TxsOf(c)[j]
        \/ j = Len(TxsOf(c)) + 1 /\ new[j] = tx
  BY <1>1
<1> HIDE DEF new
<1> QED BY <1>2, <1>3

(* The transactions after a reading was written: only the meter of the first *)
(* one may have changed.                                                     *)
LEMMA MeteredAfter ==
  ASSUME TypeOK, NEW c \in ChargerIds, SendSimMeterValue(c),
         NEW d \in ChargerIds
  PROVE  /\ DOMAIN TxsOf(d)' = DOMAIN TxsOf(d)
         /\ \A i \in DOMAIN TxsOf(d) :
              /\ TxsOf(d)'[i].id = TxsOf(d)[i].id
              /\ TxsOf(d)'[i].sim = TxsOf(d)[i].sim
              /\ IF d = c /\ i = 1 THEN TxsOf(d)'[i].meter = Reading(c)
                                   ELSE TxsOf(d)'[i] = TxsOf(d)[i]
<1> DEFINE new == Metered(c, Reading(c))
<1>1. chargers \in StoreType
  BY DEF TypeOK, StoreType
<1>2. /\ new \in Seq(Transaction) /\ DOMAIN new = DOMAIN TxsOf(c)
      /\ \A i \in DOMAIN TxsOf(c) :
           new[i].id = TxsOf(c)[i].id /\ new[i].sim = TxsOf(c)[i].sim
  BY MeteredType
<1>3. TxsOf(c) \in Seq(Transaction)
  BY <1>1, StoreOpTypes
<1>4. \A i \in DOMAIN TxsOf(c) :
        IF i = 1 THEN new[i].meter = Reading(c) ELSE new[i] = TxsOf(c)[i]
  <2>1. ASSUME TxsOf(c) # <<>>
        PROVE  new = [TxsOf(c) EXCEPT ![1].meter = Reading(c)]
    BY <2>1 DEF Metered
  <2>2. \A i \in DOMAIN TxsOf(c) : TxsOf(c)[i] \in Transaction
    BY <1>3
  <2> HIDE DEF new
  <2> QED BY <1>3, <2>1, <2>2 DEF Transaction
<1>5. UpdateRuntime(c, new)
  BY DEF SendSimMeterValue
<1> HIDE DEF new
<1>6. TxsOf(d)' = IF d = c /\ Present(c) THEN new ELSE TxsOf(d)
  BY <1>1, <1>2, <1>5, TxsAfter
<1>7. ~Present(c) => TxsOf(c) = <<>>
  BY DEF TxsOf
<1> QED BY <1>2, <1>3, <1>4, <1>6, <1>7

(* The loop that leaves a charger forgets its copy and no other.             *)
LEMMA VisitedFacts ==
  ASSUME TypeOK, NEW c \in ChargerIds
  PROVE  /\ Visited(c).at = "visit"
         /\ \A d \in ChargerIds : Visited(c).snap[d] =
              IF d = c THEN NoCharger ELSE loop.snap[d]
BY DEF TypeOK, LoopState, Visited

(* A tick copies what is stored.                                             *)
LEMMA TickFacts ==
  ASSUME TypeOK, Tick, NEW c \in ChargerIds
  PROVE  /\ UNCHANGED <<chargers, req, used, log>>
         /\ loop'.at = "visit"
         /\ TxsOf(c)' = TxsOf(c)
         /\ TxsOf(c) # <<>> => loop'.snap[c] # NoCharger
         /\ loop'.snap[c] # NoCharger => loop'.snap[c].txs = TxsOf(c)
<1>1. loop'.at = "visit" /\ loop'.snap = ListChargers
  BY DEF Tick, TypeOK, LoopState
<1>2. UNCHANGED <<chargers, req, used, log>>
  BY DEF Tick
<1>3. Present(c) => ListChargers[c] \in Listed /\ ListChargers[c].txs = chargers[c].txs
  BY DEF ListChargers, Listed, Present, TypeOK, Charger
<1> QED BY <1>1, <1>2, <1>3, AppAssumption DEF ListChargers, TxsOf, Present

-----------------------------------------------------------------------------
(* One simulated transaction.                                                *)

(* Wherever the loop stands, at most one charger is current.                 *)
LEMMA OneCurrent ==
  ASSUME NEW c \in ChargerIds, NEW d \in ChargerIds, IsCurrent(c), IsCurrent(d)
  PROVE  c = d
<1>1. c \in Int /\ d \in Int /\ 1 <= c /\ 1 <= d
  BY DEF ChargerIds
<1>2. ~(c < d) /\ ~(d < c)
  BY <1>1 DEF IsCurrent
<1> QED BY <1>1, <1>2

(* What CopyShowsSimulated says of one charger.                              *)
SimulatedCopied(c) ==
  loop.snap[c] # NoCharger =>
    \A i \in DOMAIN TxsOf(c) : TxsOf(c)[i].sim => loop.snap[c].txs # <<>>

(* CopyShowsSimulated is inductive.                                          *)
LEMMA CopyShowsNext ==
  ASSUME TypeOK, CopyShowsSimulated, [Next]_vars
  PROVE  CopyShowsSimulated'
<1>c. chargers \in StoreType
  BY DEF TypeOK, StoreType
<1>e. /\ \A c \in ChargerIds : SimulatedCopied(c)
      /\ \A c \in ChargerIds :
           loop.at = "cycle" /\ IsCurrent(c) => loop.snap[c].txs = <<>>
  BY DEF CopyShowsSimulated, SimulatedCopied
<1>g. ASSUME \A c \in ChargerIds : SimulatedCopied(c)',
             \A c \in ChargerIds :
               loop'.at = "cycle" /\ IsCurrent(c)' => loop'.snap[c].txs = <<>>
      PROVE  CopyShowsSimulated'
  BY <1>g DEF CopyShowsSimulated, SimulatedCopied
<1>q. ASSUME Quiet, NEW c \in ChargerIds,
             loop'.snap[c] = NoCharger \/ loop'.snap[c] = loop.snap[c]
      PROVE  SimulatedCopied(c)'
  BY <1>e, <1>q DEF Quiet, Kept, SimulatedCopied
<1>1. CASE Quiet /\ loop' = loop
  BY <1>1, <1>e, <1>g, <1>q DEF IsCurrent
<1>2. CASE Quiet /\ EndTick
  BY <1>2, <1>g, <1>q DEF EndTick, IdleLoop, NoSnapshot
<1>3. ASSUME NEW c \in ChargerIds, Quiet,
             Skip(c) \/ StopSimTransaction(c) \/ OtherStep(c)
      PROVE  CopyShowsSimulated'
  <2>1. loop' = Visited(c)
    BY <1>3 DEF Skip, StopSimTransaction, OtherStep
  <2> QED BY <1>3, <1>g, <1>q, <2>1, VisitedFacts
<1>4. ASSUME NEW c \in ChargerIds, Quiet, TakeStep(c) PROVE CopyShowsSimulated'
  <2>1. /\ IsCurrent(c) /\ loop.snap[c].txs = <<>> /\ loop'.snap = loop.snap
    BY <1>4 DEF TakeStep, TypeOK, LoopState
  <2>2. \A d \in ChargerIds : IsCurrent(d)' => d = c
    BY <2>1, OneCurrent DEF IsCurrent
  <2> QED BY <1>4, <1>g, <1>q, <2>1, <2>2
<1>5. CASE Tick
  BY <1>5, <1>g, TickFacts DEF SimulatedCopied
<1>6. ASSUME NEW c \in ChargerIds, SendSimMeterValue(c) PROVE CopyShowsSimulated'
  <2>1. loop'.at = "report" /\ loop'.snap = loop.snap
    BY <1>6 DEF SendSimMeterValue, TypeOK, LoopState
  <2> QED BY <1>6, <1>e, <1>g, <2>1, MeteredAfter DEF SimulatedCopied
<1>7. ASSUME NEW c \in ChargerIds, EmitMeterTelemetry(c) PROVE CopyShowsSimulated'
  <2>1. loop' = Visited(c) /\ UNCHANGED chargers
    BY <1>7 DEF EmitMeterTelemetry
  <2> QED BY <1>e, <1>g, <2>1, VisitedFacts DEF SimulatedCopied, TxsOf, Present
<1>8. ASSUME NEW c \in ChargerIds, NEW t \in Txs, StartSimTransaction(c, t)
      PROVE  CopyShowsSimulated'
  <2> DEFINE tx == [id |-> t, conn |-> 1, start |-> SimMeterStart,
                    meter |-> SimMeterStart, sim |-> TRUE]
  <2>1. /\ tx \in Transaction /\ loop' = Visited(c)
        /\ UpdateRuntime(c, Append(TxsOf(c), tx))
    BY <1>8, FleetAssumption, AppAssumption
       DEF StartSimTransaction, Transaction, Connectors
  <2> HIDE DEF tx
  <2>2. \A d \in ChargerIds \ {c} : \A i \in DOMAIN TxsOf(d)' :
          i \in DOMAIN TxsOf(d) /\ TxsOf(d)'[i] = TxsOf(d)[i]
    BY <1>c, <2>1, AppendAfter
  <2> QED BY <1>e, <1>g, <2>1, <2>2, VisitedFacts DEF SimulatedCopied
<1>9. ASSUME NEW h \in Handlers, StoreTx(h) PROVE CopyShowsSimulated'
  <2>1. /\ req[h].tx \in Transaction /\ ~req[h].tx.sim /\ req[h].c \in ChargerIds
    BY <1>9 DEF StoreTx, TypeOK, LocalsOK, Carrying, At, Request
  <2>2. loop' = loop /\ UpdateRuntime(req[h].c, Append(TxsOf(req[h].c), req[h].tx))
    BY <1>9 DEF StoreTx
  <2>3. \A d \in ChargerIds : \A i \in DOMAIN TxsOf(d)' : TxsOf(d)'[i].sim =>
          i \in DOMAIN TxsOf(d) /\ TxsOf(d)'[i] = TxsOf(d)[i]
    BY <1>c, <2>1, <2>2, AppendAfter
  <2> QED BY <1>e, <1>g, <2>2, <2>3 DEF SimulatedCopied, IsCurrent
<1>10. ASSUME NEW h \in Handlers,
              \/ PublishStop(h)
              \/ \E c \in ChargerIds, k \in Connectors, t \in Txs,
                    wh \in MeterStarts : BeginStart(h, c, k, t, wh)
       PROVE  CopyShowsSimulated'
  <2>1. UNCHANGED <<chargers, loop>>
    BY <1>10 DEF PublishStop, BeginStart
  <2> QED BY <1>e, <1>g, <2>1 DEF SimulatedCopied, IsCurrent, TxsOf, Present
<1> QED BY <1>1, <1>2, <1>3, <1>4, <1>5, <1>6, <1>7, <1>8, <1>9, <1>10,
           StepKinds

(* Nothing has been listed initially.                                        *)
LEMMA CopyShowsInit == Init => CopyShowsSimulated
BY DEF Init, CopyShowsSimulated, IdleLoop, NoSnapshot, TxsOf, Present

(* The loop's copies show every simulated transaction it may still come to.  *)
THEOREM FleetCopyShows == Spec => []CopyShowsSimulated
<1>1. TypeOK /\ CopyShowsSimulated /\ [Next]_vars => CopyShowsSimulated'
  BY CopyShowsNext
<1> QED BY <1>1, CopyShowsInit, FleetTypeOK, PTL DEF Spec

(* While a step of the event cycle is executed for a charger, it has no      *)
(* simulated transaction.                                                    *)
THEOREM FleetCycleIdle == Spec => []CycleIdleWhileSimulating
<1>1. CopyShowsSimulated => CycleIdleWhileSimulating
  BY DEF CopyShowsSimulated, CycleIdleWhileSimulating, IsCurrent
<1> QED BY <1>1, FleetCopyShows, PTL

(* The simulated transactions of a charger have one id at most.              *)
OneSimulatedId ==
  \A c \in ChargerIds : \A i, j \in DOMAIN TxsOf(c) :
    TxsOf(c)[i].sim /\ TxsOf(c)[j].sim => TxsOf(c)[i].id = TxsOf(c)[j].id

(* A simulated transaction is started only where the loop's copy shows none. *)
LEMMA OneSimulatedNext ==
  ASSUME TypeOK, CopyShowsSimulated, OneSimulatedId, [Next]_vars
  PROVE  OneSimulatedId'
<1>c. chargers \in StoreType
  BY DEF TypeOK, StoreType
<1>k. ASSUME \A c \in ChargerIds : \A i \in DOMAIN TxsOf(c)' : TxsOf(c)'[i].sim =>
               \E j \in DOMAIN TxsOf(c) :
                 TxsOf(c)[j].sim /\ TxsOf(c)[j].id = TxsOf(c)'[i].id
      PROVE  OneSimulatedId'
  <2> SUFFICES ASSUME NEW c \in ChargerIds,
                      NEW i \in DOMAIN TxsOf(c)', NEW j \in DOMAIN TxsOf(c)',
                      TxsOf(c)'[i].sim, TxsOf(c)'[j].sim
               PROVE  TxsOf(c)'[i].id = TxsOf(c)'[j].id
    BY DEF OneSimulatedId
  <2>1. PICK m \in DOMAIN TxsOf(c) :
          TxsOf(c)[m].sim /\ TxsOf(c)[m].id = TxsOf(c)'[i].id
    BY <1>k
  <2>2. PICK n \in DOMAIN TxsOf(c) :
          TxsOf(c)[n].sim /\ TxsOf(c)[n].id = TxsOf(c)'[j].id
    BY <1>k
  <2> QED BY <2>1, <2>2 DEF OneSimulatedId
<1>1. CASE Quiet
  <2>1. \A c \in ChargerIds : \A i \in DOMAIN TxsOf(c)' :
          \E j \in DOMAIN TxsOf(c) : TxsOf(c)'[i] = TxsOf(c)[j]
    BY <1>1 DEF Quiet, Kept
  <2> QED BY <1>k, <2>1
<1>2. CASE \/ Tick
           \/ \E c \in ChargerIds : EmitMeterTelemetry(c)
           \/ \E h \in Handlers :
                \/ PublishStop(h)
                \/ \E c \in ChargerIds, k \in Connectors, t \in Txs,
                      wh \in MeterStarts : BeginStart(h, c, k, t, wh)
  <2>1. UNCHANGED chargers
    BY <1>2 DEF Tick, EmitMeterTelemetry, PublishStop, BeginStart
  <2> QED BY <1>k, <2>1 DEF TxsOf, Present
<1>3. ASSUME NEW c \in ChargerIds, SendSimMeterValue(c) PROVE OneSimulatedId'
  BY <1>3, <1>k, MeteredAfter
<1>4. ASSUME NEW h \in Handlers, StoreTx(h) PROVE OneSimulatedId'
  <2>1. /\ req[h].tx \in Transaction /\ ~req[h].tx.sim /\ req[h].c \in ChargerIds
    BY <1>4 DEF StoreTx, TypeOK, LocalsOK, Carrying, At, Request
  <2>2. UpdateRuntime(req[h].c, Append(TxsOf(req[h].c), req[h].tx))
    BY <1>4 DEF StoreTx
  <2>3. \A d \in ChargerIds : \A i \in DOMAIN TxsOf(d)' : TxsOf(d)'[i].sim =>
          i \in DOMAIN TxsOf(d) /\ TxsOf(d)'[i] = TxsOf(d)[i]
    BY <1>c, <2>1, <2>2, AppendAfter
  <2> QED BY <1>k, <2>3
<1>5. ASSUME NEW c \in ChargerIds, NEW t \in Txs, StartSimTransaction(c, t)
      PROVE  OneSimulatedId'
  <2> DEFINE tx == [id |-> t, conn |-> 1, start |-> SimMeterStart,
                    meter |-> SimMeterStart, sim |-> TRUE]
  <2>1. tx \in Transaction /\ UpdateRuntime(c, Append(TxsOf(c), tx))
    BY <1>5, FleetAssumption, AppAssumption
       DEF StartSimTransaction, Transaction, Connectors
  <2> HIDE DEF tx
  <2>2. loop.at = "cycle" /\ IsCurrent(c) /\ loop.snap[c] # NoCharger
    BY <1>5 DEF StartSimTransaction, AtStep, IsCurrent
  <2>3. \A i \in DOMAIN TxsOf(c) : ~TxsOf(c)[i].sim
    BY <2>2 DEF CopyShowsSimulated
  <2>4. \A d \in ChargerIds : \A i \in DOMAIN TxsOf(d)' :
          \/ i \in DOMAIN TxsOf(d) /\ TxsOf(d)'[i] = TxsOf(d)[i]
          \/ d = c /\ TxsOf(d)'[i] = tx
    BY <1>c, <2>1, AppendAfter
  <2> SUFFICES ASSUME NEW d \in ChargerIds,
                      NEW i \in DOMAIN TxsOf(d)', NEW j \in DOMAIN TxsOf(d)',
                      TxsOf(d)'[i].sim, TxsOf(d)'[j].sim
               PROVE  TxsOf(d)'[i].id = TxsOf(d)'[j].id
    BY DEF OneSimulatedId
  <2>5. CASE d = c
    BY <2>3, <2>4, <2>5
  <2>6. CASE d # c
    BY <2>4, <2>6 DEF OneSimulatedId
  <2> QED BY <2>5, <2>6
<1> QED BY <1>1, <1>2, <1>3, <1>4, <1>5, StepKinds

(* The event loop never starts a second simulated transaction on a charger.  *)
THEOREM FleetOneSimulated == Spec => []OneSimulatedTx
<1>1. Init => OneSimulatedId
  BY DEF Init, OneSimulatedId, NoSnapshot, TxsOf, Present
<1>2. TypeOK /\ CopyShowsSimulated /\ OneSimulatedId /\ [Next]_vars
        => OneSimulatedId'
  BY OneSimulatedNext
<1>3. OneSimulatedId /\ ActiveOnce => OneSimulatedTx
  BY DEF OneSimulatedId, ActiveOnce, TxUnique, OneSimulatedTx
<1> QED BY <1>1, <1>2, <1>3, FleetTypeOK, FleetCopyShows, FleetActiveOnce, PTL
        DEF Spec

-----------------------------------------------------------------------------
(* The transaction a copy shows first.                                       *)

(* No copy is added.                                                         *)
CopiesKept ==
  \A c \in ChargerIds :
    loop'.snap[c] = NoCharger \/ loop'.snap[c] = loop.snap[c]

(* A reading about to be published was so before.                            *)
ReportKept ==
  \A c \in ChargerIds : loop'.at = "report" /\ IsCurrent(c)' =>
    loop.at = "report" /\ IsCurrent(c) /\ loop'.wh = loop.wh

(* A transaction about to be stored was so before, or its id is new.         *)
PendingKnown ==
  \A h \in Handlers : At(h, "storeTx")' =>
    \/ req'[h].tx.id \notin used
    \/ Carries(h, "storeTx", req'[h].tx.id)

(* A stored transaction was stored before, no further ahead, unless its id   *)
(* is new or was pending.                                                    *)
StoredKnown ==
  \A d \in ChargerIds : \A i \in DOMAIN TxsOf(d)' :
    \/ TxsOf(d)'[i].id \notin used
    \/ \E h \in Handlers : Carries(h, "storeTx", TxsOf(d)'[i].id)
    \/ \E j \in DOMAIN TxsOf(d) : i <= j /\ TxsOf(d)'[i] = TxsOf(d)[j]

(* A step that neither lists the chargers nor deals with a reading.          *)
Plain ==
  /\ CopiesKept /\ ReportKept /\ PendingKnown /\ StoredKnown
  /\ used \subseteq used'
  /\ \A t \in Txs : log'[t].wh = log[t].wh

(* Every step other than a tick and the two that deal with a reading is      *)
(* plain.                                                                    *)
LEMMA PlainSteps ==
  ASSUME TypeOK, [Next]_vars
  PROVE  \/ Plain
         \/ Tick
         \/ \E c \in ChargerIds : SendSimMeterValue(c) \/ EmitMeterTelemetry(c)
<1>c. chargers \in StoreType /\ \A d \in ChargerIds : TxsOf(d) \in Seq(Transaction)
  BY StoreOpTypes DEF TypeOK, StoreType
<1>v. ASSUME NEW c \in ChargerIds, loop' = Visited(c)
      PROVE  CopiesKept /\ ReportKept
  BY <1>v, VisitedFacts DEF CopiesKept, ReportKept
<1>l. loop' = loop => CopiesKept /\ ReportKept
  BY DEF CopiesKept, ReportKept, IsCurrent
<1>r. req' = req => PendingKnown
  BY DEF PendingKnown, At, Carries
<1>s. ASSUME UNCHANGED chargers PROVE StoredKnown
  <2>1. \A d \in ChargerIds : TxsOf(d)' = TxsOf(d)
    BY <1>s DEF TxsOf, Present
  <2>2. \A d \in ChargerIds : \A i \in DOMAIN TxsOf(d) : i <= i
    BY <1>c
  <2> QED BY <2>1, <2>2 DEF StoredKnown
<1>q. ASSUME Quiet, CopiesKept, ReportKept PROVE Plain
  <2>1. PendingKnown
    BY <1>q DEF Quiet, PendingSame, PendingKnown, Carries
  <2>2. StoredKnown
    BY <1>q DEF Quiet, Kept, StoredKnown
  <2> QED BY <1>q, <2>1, <2>2 DEF Quiet, Plain
<1>1. CASE Quiet /\ loop' = loop
  BY <1>1, <1>l, <1>q
<1>2. CASE Quiet /\ EndTick
  <2>1. CopiesKept /\ loop'.at = "idle"
    BY <1>2 DEF EndTick, IdleLoop, NoSnapshot, CopiesKept
  <2> QED BY <1>2, <1>q, <2>1 DEF ReportKept
<1>3. ASSUME NEW c \in ChargerIds, Quiet,
             Skip(c) \/ StopSimTransaction(c) \/ OtherStep(c)
      PROVE  Plain
  <2>1. loop' = Visited(c)
    BY <1>3 DEF Skip, StopSimTransaction, OtherStep
  <2> QED BY <1>3, <1>q, <1>v, <2>1
<1>4. ASSUME NEW c \in ChargerIds, Quiet, TakeStep(c) PROVE Plain
  <2>1. loop'.at = "cycle" /\ loop'.snap = loop.snap
    BY <1>4 DEF TakeStep, TypeOK, LoopState
  <2> QED BY <1>4, <1>q, <2>1 DEF CopiesKept, ReportKept
<1>a. ASSUME NEW c \in ChargerIds, NEW tx \in Transaction,
             UpdateRuntime(c, Append(TxsOf(c), tx)),
             \/ tx.id \notin used
             \/ \E h \in Handlers : Carries(h, "storeTx", tx.id)
      PROVE  StoredKnown
  <2>1. \A d \in ChargerIds : \A i \in DOMAIN TxsOf(d)' :
          \/ i \in DOMAIN TxsOf(d) /\ TxsOf(d)'[i] = TxsOf(d)[i] /\ i <= i
          \/ TxsOf(d)'[i] = tx
    BY <1>a, <1>c, AppendAfter
  <2> QED BY <1>a, <2>1 DEF StoredKnown
<1>5. ASSUME NEW c \in ChargerIds, NEW t \in Txs, StartSimTransaction(c, t)
      PROVE  Plain
  <2> DEFINE tx == [id |-> t, conn |-> 1, start |-> SimMeterStart,
                    meter |-> SimMeterStart, sim |-> TRUE]
  <2>1. /\ tx \in Transaction /\ tx.id \notin used /\ loop' = Visited(c)
        /\ UpdateRuntime(c, Append(TxsOf(c), tx)) /\ UNCHANGED <<req, log>>
        /\ used \subseteq used'
    BY <1>5, FleetAssumption, AppAssumption
       DEF StartSimTransaction, Transaction, Connectors
  <2> HIDE DEF tx
  <2> QED BY <1>a, <1>r, <1>v, <2>1 DEF Plain
<1>6. ASSUME NEW h \in Handlers, StoreTx(h) PROVE Plain
  <2>1. /\ req[h].tx \in Transaction /\ req[h].c \in ChargerIds
        /\ Carries(h, "storeTx", req[h].tx.id)
    BY <1>6 DEF StoreTx, TypeOK, LocalsOK, Carrying, At, Request, Carries
  <2>2. /\ UpdateRuntime(req[h].c, Append(TxsOf(req[h].c), req[h].tx))
        /\ UNCHANGED <<loop, used, log>> /\ Finish(h)
    BY <1>6 DEF StoreTx
  <2>3. PendingKnown
    BY <2>2 DEF Finish, At, Carries, IdleRequest, TypeOK, PendingKnown
  <2> QED BY <1>a, <1>l, <2>1, <2>2, <2>3 DEF Plain
<1>7. ASSUME NEW h \in Handlers, PublishStop(h) PROVE Plain
  <2>1. UNCHANGED <<chargers, loop, used>>
    BY <1>7 DEF PublishStop
  <2>2. PendingKnown
    BY <1>7 DEF PublishStop, Finish, At, Carries, IdleRequest, TypeOK, PendingKnown
  <2>3. req[h].tx.id \in Txs /\ log \in [Txs -> Published]
    BY <1>7 DEF PublishStop, At, TypeOK, LocalsOK, Carrying, Transaction
  <2>4. \A t \in Txs : log'[t].wh = log[t].wh
    BY <1>7, <2>3 DEF PublishStop, Published
  <2> QED BY <1>l, <1>s, <2>1, <2>2, <2>4 DEF Plain
<1>8. ASSUME NEW h \in Handlers, NEW c \in ChargerIds, NEW k \in Connectors,
             NEW t \in Txs, NEW wh \in MeterStarts, BeginStart(h, c, k, t, wh)
      PROVE  Plain
  <2> DEFINE tx == [id |-> t, conn |-> k, start |-> wh, meter |-> wh,
                    sim |-> FALSE]
             r == [IdleRequest EXCEPT !.at = "storeTx", !.c = c, !.conn = k,
                                      !.tx = tx]
  <2>1. r.tx.id = t
    BY DEF IdleRequest
  <2>2. /\ Start(h, r) /\ t \notin used /\ UNCHANGED <<chargers, loop, log>>
        /\ used \subseteq used'
    BY <1>8 DEF BeginStart
  <2> HIDE DEF r
  <2>3. req'[h].tx.id = t /\ \A g \in Handlers : g # h => req'[g] = req[g]
    BY <2>1, <2>2 DEF Start, TypeOK
  <2>4. PendingKnown
    BY <2>2, <2>3 DEF At, Carries, PendingKnown
  <2> QED BY <1>l, <1>s, <2>2, <2>4 DEF Plain
<1> QED BY <1>1, <1>2, <1>3, <1>4, <1>5, <1>6, <1>7, <1>8, StepKinds

(* A step that adds no copy, and stores only ids that were fresh or pending. *)
LEMMA CopiedKept ==
  ASSUME TypeOK', CopiedInPlace, CopiesKept, PendingKnown,
         \A c \in ChargerIds :
           loop'.at = "report" /\ IsCurrent(c)' => Copied(c)',
         used \subseteq used',
         \A d \in ChargerIds : \A i \in DOMAIN TxsOf(d)' :
           \/ TxsOf(d)'[i].id \notin used
           \/ \E h \in Handlers : Carries(h, "storeTx", TxsOf(d)'[i].id)
           \/ \E j \in DOMAIN TxsOf(d) :
                i <= j /\ TxsOf(d)'[i].id = TxsOf(d)[j].id
  PROVE  CopiedInPlace'
<1>1. ASSUME NEW c \in ChargerIds, Copied(c)'
      PROVE  Copied(c) /\ CopiedTx(c)' = CopiedTx(c)
  BY <1>1 DEF Copied, CopiedTx, CopiesKept
<1>2. \A d \in ChargerIds : \A i \in DOMAIN TxsOf(d)' : i \in Nat /\ 1 <= i
  <2>1. \A d \in ChargerIds : TxsOf(d)' \in Seq(Transaction)
    BY DEF TypeOK, TxsOf, Present, Charger
  <2> QED BY <2>1
<1>3. ASSUME NEW c \in ChargerIds, Copied(c)'
      PROVE  /\ CopiedTx(c)'.id \in used'
             /\ \A h \in Handlers : ~Carries(h, "storeTx", CopiedTx(c).id)'
             /\ \A d \in ChargerIds :
                  Copied(d)' /\ CopiedTx(d)'.id = CopiedTx(c)'.id => d = c
  BY <1>1, <1>3 DEF CopiedInPlace, Carries, PendingKnown, At
<1>4. ASSUME NEW c \in ChargerIds, Copied(c)', NEW d \in ChargerIds,
             NEW i \in DOMAIN TxsOf(d)', TxsOf(d)'[i].id = CopiedTx(c)'.id
      PROVE  d = c /\ i = 1
  <2>1. /\ Copied(c) /\ TxsOf(d)'[i].id = CopiedTx(c).id
        /\ CopiedTx(c).id \in used
        /\ \A h \in Handlers : ~Carries(h, "storeTx", CopiedTx(c).id)
    BY <1>1, <1>4 DEF CopiedInPlace
  <2>2. PICK j \in DOMAIN TxsOf(d) :
          i <= j /\ TxsOf(d)'[i].id = TxsOf(d)[j].id
    BY <2>1
  <2>3. d = c /\ j = 1
    BY <2>1, <2>2 DEF CopiedInPlace
  <2> QED BY <1>2, <2>2, <2>3
<1> QED BY <1>3, <1>4 DEF CopiedInPlace, Carries, At

(* CopiedInPlace is inductive.                                               *)
LEMMA CopiedNext ==
  ASSUME TypeOK, TypeOK', OnePlace, CopiedInPlace, [Next]_vars
  PROVE  CopiedInPlace'
<1>c. chargers \in StoreType /\ \A d \in ChargerIds : TxsOf(d) \in Seq(Transaction)
  BY StoreOpTypes DEF TypeOK, StoreType
<1>r. req' = req => PendingKnown
  BY DEF At, Carries, PendingKnown
<1>1. CASE Plain
  <2>1. \A c \in ChargerIds : loop'.at = "report" /\ IsCurrent(c)' => Copied(c)'
    BY <1>1 DEF Plain, CopiesKept, ReportKept, CopiedInPlace, IsCurrent, Copied
  <2>2. \A d \in ChargerIds : \A i \in DOMAIN TxsOf(d)' :
          \/ TxsOf(d)'[i].id \notin used
          \/ \E h \in Handlers : Carries(h, "storeTx", TxsOf(d)'[i].id)
          \/ \E j \in DOMAIN TxsOf(d) :
               i <= j /\ TxsOf(d)'[i].id = TxsOf(d)[j].id
    BY <1>1 DEF Plain, StoredKnown
  <2> QED BY <1>1, <2>1, <2>2, CopiedKept DEF Plain
<1>2. CASE Tick
  <2>1. \A c \in ChargerIds : Copied(c)' =>
          /\ TxsOf(c) # <<>> /\ CopiedTx(c)' = TxsOf(c)[1]
          /\ 1 \in DOMAIN TxsOf(c)
    BY <1>2, <1>c, TickFacts DEF Copied, CopiedTx
  <2>2. /\ UNCHANGED <<req, used>> /\ loop'.at = "visit"
        /\ \A d \in ChargerIds : TxsOf(d)' = TxsOf(d)
    BY <1>2, TickFacts DEF Tick, TypeOK, LoopState
  <2>3. ASSUME NEW c \in ChargerIds, Copied(c)'
        PROVE  /\ CopiedTx(c)'.id \in used'
               /\ \A h \in Handlers : ~Carries(h, "storeTx", CopiedTx(c).id)'
    <3>1. /\ 1 \in DOMAIN TxsOf(c) /\ CopiedTx(c)' = TxsOf(c)[1]
          /\ TxsOf(c)[1].id \in used
      BY <2>1, <2>3 DEF OnePlace
    <3>2. \A h \in Handlers : At(h, "storeTx") => TxsOf(c)[1].id # req[h].tx.id
      BY <3>1 DEF OnePlace, Carrying, At
    <3> QED BY <2>2, <3>1, <3>2 DEF Carries, At
  <2>4. ASSUME NEW c \in ChargerIds, Copied(c)', NEW d \in ChargerIds
        PROVE  /\ Copied(d)' /\ CopiedTx(d)'.id = CopiedTx(c)'.id => d = c
               /\ \A i \in DOMAIN TxsOf(d)' :
                    TxsOf(d)'[i].id = CopiedTx(c)'.id => d = c /\ i = 1
    BY <2>1, <2>2, <2>4 DEF OnePlace, TxUnique
  <2> QED BY <2>2, <2>3, <2>4 DEF CopiedInPlace
<1>3. ASSUME NEW c \in ChargerIds, SendSimMeterValue(c) PROVE CopiedInPlace'
  <2>1. /\ IsCurrent(c) /\ Copied(c) /\ UNCHANGED <<req, used>>
        /\ loop'.snap = loop.snap
    BY <1>3 DEF SendSimMeterValue, IsCurrent, Copied, TypeOK, LoopState
  <2>2. \A d \in ChargerIds : IsCurrent(d)' => Copied(d)'
    BY <2>1, OneCurrent DEF IsCurrent, Copied
  <2>3. \A d \in ChargerIds : \A i \in DOMAIN TxsOf(d)' :
          i \in DOMAIN TxsOf(d) /\ TxsOf(d)'[i].id = TxsOf(d)[i].id /\ i <= i
    BY <1>3, <1>c, MeteredAfter
  <2>4. CopiesKept
    BY <2>1 DEF CopiesKept
  <2> QED BY <1>r, <2>1, <2>2, <2>3, <2>4, CopiedKept
<1>4. ASSUME NEW c \in ChargerIds, EmitMeterTelemetry(c) PROVE CopiedInPlace'
  <2>1. loop' = Visited(c) /\ UNCHANGED <<chargers, req, used>>
    BY <1>4 DEF EmitMeterTelemetry
  <2>2. CopiesKept /\ loop'.at = "visit"
    BY <2>1, VisitedFacts DEF CopiesKept
  <2>3. \A d \in ChargerIds : \A i \in DOMAIN TxsOf(d)' :
          i \in DOMAIN TxsOf(d) /\ TxsOf(d)'[i].id = TxsOf(d)[i].id /\ i <= i
    BY <1>c, <2>1 DEF TxsOf, Present
  <2> QED BY <1>r, <2>1, <2>2, <2>3, CopiedKept
<1> QED BY <1>1, <1>2, <1>3, <1>4, PlainSteps

(* The transaction a copy shows first is where the copy shows it, or gone.   *)
THEOREM FleetCopiedInPlace == Spec => []CopiedInPlace
<1>1. Init => CopiedInPlace
  BY DEF Init, CopiedInPlace, Copied, IdleLoop, NoSnapshot
<1>2. TypeOK /\ TypeOK' /\ OnePlace /\ CopiedInPlace /\ [Next]_vars
        => CopiedInPlace'
  BY CopiedNext
<1> QED BY <1>1, <1>2, FleetTypeOK, FleetOnePlace, PTL DEF Spec

-----------------------------------------------------------------------------
(* Readings after the stop.                                                  *)

(* A late reading was published for a transaction that no copy the loop has  *)
(* yet to deal with shows first.                                             *)
LateInv ==
  /\ \A t \in Txs : log[t].late <= 1 /\ (log[t].late > 0 => log[t].stops > 0)
  /\ \A c \in ChargerIds : Copied(c) => log[CopiedTx(c).id].late = 0

(* The first transaction of a copy is one.                                   *)
LEMMA CopiedType ==
  ASSUME TypeOK, NEW c \in ChargerIds, Copied(c)
  PROVE  CopiedTx(c) \in Transaction /\ CopiedTx(c).id \in Txs
<1>1. loop.snap[c].txs \in Seq(Transaction) /\ loop.snap[c].txs # <<>>
  BY DEF TypeOK, LoopState, Listed, Copied
<1>2. CopiedTx(c) \in Transaction
  BY <1>1 DEF CopiedTx
<1> QED BY <1>2 DEF Transaction

(* What publishing a reading does to the log and to the copies.              *)
LEMMA EmitFacts ==
  ASSUME TypeOK, CopiedInPlace, NEW c \in ChargerIds, EmitMeterTelemetry(c)
  PROVE  /\ Copied(c) /\ CopiedTx(c).id \in Txs
         /\ UNCHANGED <<chargers, req, used>>
         /\ loop'.at = "visit"
         /\ \A t \in Txs :
              /\ log'[t].stops = log[t].stops
              /\ t # CopiedTx(c).id => log'[t] = log[t]
         /\ log'[CopiedTx(c).id].wh = loop.wh
         /\ log'[CopiedTx(c).id].late =
              IF log[CopiedTx(c).id].stops > 0
              THEN log[CopiedTx(c).id].late + 1 ELSE log[CopiedTx(c).id].late
         /\ \A d \in ChargerIds : Copied(d)' =>
              /\ d # c /\ Copied(d) /\ CopiedTx(d)' = CopiedTx(d)
              /\ CopiedTx(d).id # CopiedTx(c).id
<1>1. Copied(c) /\ CopiedTx(c).id \in Txs
  BY CopiedType DEF CopiedInPlace, EmitMeterTelemetry
<1>2. loop' = Visited(c) /\ UNCHANGED <<chargers, req, used>>
  BY DEF EmitMeterTelemetry
<1>3. \A d \in ChargerIds : Copied(d)' =>
        d # c /\ Copied(d) /\ CopiedTx(d)' = CopiedTx(d)
  BY <1>2, VisitedFacts DEF Copied, CopiedTx
<1>4. \A d \in ChargerIds : Copied(d)' => CopiedTx(d).id # CopiedTx(c).id
  BY <1>1, <1>3 DEF CopiedInPlace
<1> DEFINE t == CopiedTx(c).id
           late == IF log[t].stops > 0 THEN log[t].late + 1 ELSE log[t].late
<1>5. log' = [log EXCEPT ![t] = [@ EXCEPT !.wh = loop.wh, !.late = late]]
  BY DEF EmitMeterTelemetry, CopiedTx
<1>6. log \in [Txs -> Published]
  BY DEF TypeOK
<1>7. loop'.at = "visit"
  BY <1>2, VisitedFacts
<1>8. \A u \in Txs : log'[u].stops = log[u].stops /\ (u # t => log'[u] = log[u])
  BY <1>1, <1>5, <1>6 DEF Published
<1>9. log'[t].wh = loop.wh /\ log'[t].late = late
  <2> HIDE DEF late
  <2> QED BY <1>1, <1>5, <1>6 DEF Published
<1> QED BY <1>1, <1>2, <1>3, <1>4, <1>7, <1>8, <1>9

(* What the other steps do to them: no copy is added but by a tick, and only *)
(* a stop is published.                                                      *)
LEMMA LogSteps ==
  ASSUME TypeOK, [Next]_vars
  PROVE  \/ Tick
         \/ \E c \in ChargerIds : EmitMeterTelemetry(c)
         \/ /\ \A c \in ChargerIds : Copied(c)' =>
                 Copied(c) /\ CopiedTx(c)' = CopiedTx(c)
            /\ \A t \in Txs :
                 /\ log'[t].late = log[t].late /\ log'[t].wh = log[t].wh
                 /\ log'[t].stops \in {log[t].stops, log[t].stops + 1}
<1> DEFINE ShownKept ==
             \A c \in ChargerIds :
               Copied(c)' => Copied(c) /\ CopiedTx(c)' = CopiedTx(c)
<1>l. loop' = loop => ShownKept
  BY DEF Copied, CopiedTx
<1>v. ASSUME NEW c \in ChargerIds, loop' = Visited(c) PROVE ShownKept
  BY <1>v, VisitedFacts DEF Copied, CopiedTx
<1>s. loop'.snap = loop.snap => ShownKept
  BY DEF Copied, CopiedTx
<1>1. CASE Quiet /\ loop' = loop
  BY <1>1, <1>l DEF Quiet
<1>2. CASE Quiet /\ EndTick
  BY <1>2 DEF Quiet, EndTick, IdleLoop, NoSnapshot, Copied
<1>3. ASSUME NEW c \in ChargerIds, Quiet,
             Skip(c) \/ StopSimTransaction(c) \/ OtherStep(c) \/ TakeStep(c)
      PROVE  ShownKept /\ log' = log
  <2>1. loop' = Visited(c) \/ loop'.snap = loop.snap
    BY <1>3 DEF Skip, StopSimTransaction, OtherStep, TakeStep, TypeOK, LoopState
  <2> QED BY <1>3, <1>s, <1>v, <2>1 DEF Quiet
<1>4. ASSUME NEW c \in ChargerIds,
             \/ SendSimMeterValue(c)
             \/ \E t \in Txs : StartSimTransaction(c, t)
      PROVE  ShownKept /\ log' = log
  <2>1. loop' = Visited(c) \/ loop'.snap = loop.snap
    BY <1>4 DEF SendSimMeterValue, StartSimTransaction, TypeOK, LoopState
  <2> QED BY <1>4, <1>s, <1>v, <2>1 DEF SendSimMeterValue, StartSimTransaction
<1>5. ASSUME NEW h \in Handlers,
             \/ StoreTx(h)
             \/ \E c \in ChargerIds, k \in Connectors, t \in Txs,
                   wh \in MeterStarts : BeginStart(h, c, k, t, wh)
      PROVE  ShownKept /\ log' = log
  BY <1>5, <1>l DEF StoreTx, BeginStart
<1>6. ASSUME NEW h \in Handlers, PublishStop(h)
      PROVE  /\ ShownKept
             /\ \A t \in Txs :
                  /\ log'[t].late = log[t].late /\ log'[t].wh = log[t].wh
                  /\ log'[t].stops \in {log[t].stops, log[t].stops + 1}
  <2>1. req[h].tx.id \in Txs /\ log \in [Txs -> Published]
    BY <1>6 DEF PublishStop, At, TypeOK, LocalsOK, Carrying, Transaction
  <2>2. loop' = loop /\ log' = [log EXCEPT ![req[h].tx.id].stops = @ + 1]
    BY <1>6 DEF PublishStop
  <2> QED BY <1>l, <2>1, <2>2 DEF Published
<1> QED BY <1>1, <1>2, <1>3, <1>4, <1>5, <1>6, StepKinds

(* LateInv is inductive.                                                     *)
LEMMA LateNext ==
  ASSUME TypeOK, OnePlace, CopiedInPlace, LateInv, [Next]_vars
  PROVE  LateInv'
<1>t. \A t \in Txs : log[t].late \in Nat /\ log[t].stops \in Nat
  BY DEF TypeOK, Published
<1>1. CASE Tick
  <2>1. ASSUME NEW c \in ChargerIds, Copied(c)'
        PROVE  log'[CopiedTx(c)'.id].late = 0
    <3>1. TxsOf(c) # <<>> /\ CopiedTx(c)' = TxsOf(c)[1] /\ log' = log
      BY <1>1, <2>1, TickFacts DEF Copied, CopiedTx
    <3>2. TxsOf(c) \in Seq(Transaction)
      BY StoreOpTypes DEF TypeOK, StoreType
    <3>a. \A s \in Seq(Transaction) : s # <<>> =>
            1 \in DOMAIN s /\ s[1] \in Transaction
      OBVIOUS
    <3>3. 1 \in DOMAIN TxsOf(c) /\ TxsOf(c)[1].id \in Txs
      BY <3>1, <3>2, <3>a DEF Transaction
    <3>4. log[TxsOf(c)[1].id].stops = 0
      BY <3>3 DEF OnePlace
    <3> QED BY <1>t, <3>1, <3>3, <3>4 DEF LateInv
  <2>2. log' = log
    BY <1>1 DEF Tick
  <2> QED BY <2>1, <2>2 DEF LateInv
<1>2. ASSUME NEW c \in ChargerIds, EmitMeterTelemetry(c) PROVE LateInv'
  <2>1. log[CopiedTx(c).id].late = 0 /\ CopiedTx(c).id \in Txs
    BY <1>2, EmitFacts DEF LateInv
  <2>2. \A t \in Txs : log'[t].late <= 1 /\ (log'[t].late > 0 => log'[t].stops > 0)
    BY <1>2, <1>t, <2>1, EmitFacts DEF LateInv
  <2>3. \A d \in ChargerIds : Copied(d)' => log'[CopiedTx(d)'.id].late = 0
    BY <1>2, EmitFacts, CopiedType DEF LateInv
  <2> QED BY <2>2, <2>3 DEF LateInv
<1>3. ASSUME \A c \in ChargerIds : Copied(c)' =>
               Copied(c) /\ CopiedTx(c)' = CopiedTx(c),
             \A t \in Txs :
               /\ log'[t].late = log[t].late /\ log'[t].wh = log[t].wh
               /\ log'[t].stops \in {log[t].stops, log[t].stops + 1}
      PROVE  LateInv'
  BY <1>3, <1>t, CopiedType DEF LateInv
<1> QED BY <1>1, <1>2, <1>3, LogSteps

(* METER_VALUE follows TX_STOPPED at most once per transaction.              *)
THEOREM FleetLateBounded == Spec => []LateTelemetryBounded
<1>1. Init => LateInv
  BY DEF Init, LateInv, Copied, IdleLoop, NoSnapshot
<1>2. TypeOK /\ OnePlace /\ CopiedInPlace /\ LateInv /\ [Next]_vars => LateInv'
  BY LateNext
<1>3. LateInv => LateTelemetryBounded
  BY DEF LateInv, LateTelemetryBounded
<1> QED BY <1>1, <1>2, <1>3, FleetTypeOK, FleetOnePlace, FleetCopiedInPlace, PTL
        DEF Spec

-----------------------------------------------------------------------------
(* The readings never decrease.                                              *)

(* Only the transaction that is first on its charger has had a reading       *)
(* published, and none above its meter; nor is one above the meter of the    *)
(* copy, or above the reading about to be published.                         *)
MeterInv ==
  /\ \A t \in Txs : log[t].wh > 0 =>
       t \in used /\ \A h \in Handlers : ~Carries(h, "storeTx", t)
  /\ \A c \in ChargerIds : \A i \in DOMAIN TxsOf(c) :
       log[TxsOf(c)[i].id].wh > 0 =>
         i = 1 /\ log[TxsOf(c)[i].id].wh <= TxsOf(c)[i].meter
  /\ \A c \in ChargerIds : Copied(c) =>
       /\ log[CopiedTx(c).id].wh <= CopiedTx(c).meter
       /\ \A i \in DOMAIN TxsOf(c) :
            log[TxsOf(c)[i].id].wh > 0 => TxsOf(c)[i].id = CopiedTx(c).id
  /\ \A c \in ChargerIds : loop.at = "report" /\ IsCurrent(c) =>
       /\ log[CopiedTx(c).id].wh <= loop.wh
       /\ \A i \in DOMAIN TxsOf(c) :
            TxsOf(c)[i].id = CopiedTx(c).id => loop.wh <= TxsOf(c)[i].meter

(* A stored transaction is one.                                              *)
LEMMA StoredType ==
  ASSUME TypeOK, NEW c \in ChargerIds, NEW i \in DOMAIN TxsOf(c)
  PROVE  /\ i \in Nat /\ 1 <= i
         /\ TxsOf(c)[i] \in Transaction
         /\ TxsOf(c)[i].id \in Txs /\ TxsOf(c)[i].meter \in Nat
<1>1. TxsOf(c) \in Seq(Transaction)
  BY StoreOpTypes DEF TypeOK, StoreType
<1>2. i \in Nat /\ 1 <= i /\ TxsOf(c)[i] \in Transaction
  BY <1>1
<1> QED BY <1>2 DEF Transaction

(* MeterInv is inductive: first the steps that publish no reading and take   *)
(* none.                                                                     *)
LEMMA MeterPlain ==
  ASSUME TypeOK, TypeOK', CopiedInPlace, MeterInv, Plain
  PROVE  MeterInv'
<1>w. \A t \in Txs : log'[t].wh = log[t].wh /\ log[t].wh \in Nat
  BY DEF Plain, TypeOK, Published
<1>p. \A t \in Txs : log'[t].wh > 0 =>
        t \in used /\ \A h \in Handlers : ~Carries(h, "storeTx", t)
  BY <1>w DEF MeterInv
<1>i. \A c \in ChargerIds : \A i \in DOMAIN TxsOf(c)' :
        i \in Nat /\ 1 <= i /\ TxsOf(c)'[i].id \in Txs
  <2>1. \A c \in ChargerIds : TxsOf(c)' \in Seq(Transaction)
    BY DEF TypeOK, TxsOf, Present, Charger
  <2>2. \A s \in Seq(Transaction) : \A i \in DOMAIN s :
          i \in Nat /\ 1 <= i /\ s[i] \in Transaction
    OBVIOUS
  <2>3. \A x \in Transaction : x.id \in Txs
    BY DEF Transaction
  <2> QED BY <2>1, <2>2, <2>3
<1>s. ASSUME NEW c \in ChargerIds, NEW i \in DOMAIN TxsOf(c)',
             log'[TxsOf(c)'[i].id].wh > 0
      PROVE  \E j \in DOMAIN TxsOf(c) : i <= j /\ TxsOf(c)'[i] = TxsOf(c)[j]
  BY <1>s, <1>i, <1>p DEF Plain, StoredKnown
<1>t. \A c \in ChargerIds : \A i \in DOMAIN TxsOf(c) : TxsOf(c)[i].id \in Txs
  BY StoredType
<1>k. ASSUME NEW c \in ChargerIds, Copied(c)'
      PROVE  /\ Copied(c) /\ CopiedTx(c)' = CopiedTx(c)
             /\ CopiedTx(c).id \in Txs
  <2>1. Copied(c) /\ CopiedTx(c)' = CopiedTx(c)
    BY <1>k DEF Plain, CopiesKept, Copied, CopiedTx
  <2> QED BY <2>1, CopiedType
<1>1. ASSUME NEW t \in Txs, log'[t].wh > 0
      PROVE  t \in used' /\ \A h \in Handlers : ~Carries(h, "storeTx", t)'
  BY <1>1, <1>p DEF Plain, PendingKnown, Carries
<1>2. ASSUME NEW c \in ChargerIds, NEW i \in DOMAIN TxsOf(c)',
             log'[TxsOf(c)'[i].id].wh > 0
      PROVE  i = 1 /\ log'[TxsOf(c)'[i].id].wh <= TxsOf(c)'[i].meter
  <2>1. PICK j \in DOMAIN TxsOf(c) : i <= j /\ TxsOf(c)'[i] = TxsOf(c)[j]
    BY <1>2, <1>s
  <2>2. j = 1 /\ log[TxsOf(c)[j].id].wh <= TxsOf(c)[j].meter
    BY <1>2, <1>t, <1>w, <2>1 DEF MeterInv
  <2> QED BY <1>i, <1>t, <1>w, <2>1, <2>2
<1>3. ASSUME NEW c \in ChargerIds, Copied(c)'
      PROVE  /\ log'[CopiedTx(c)'.id].wh <= CopiedTx(c)'.meter
             /\ \A i \in DOMAIN TxsOf(c)' :
                  log'[TxsOf(c)'[i].id].wh > 0
                    => TxsOf(c)'[i].id = CopiedTx(c)'.id
  <2>1. log'[CopiedTx(c)'.id].wh <= CopiedTx(c)'.meter
    BY <1>3, <1>k, <1>w DEF MeterInv
  <2>2. ASSUME NEW i \in DOMAIN TxsOf(c)', log'[TxsOf(c)'[i].id].wh > 0
        PROVE  TxsOf(c)'[i].id = CopiedTx(c)'.id
    <3>1. PICK j \in DOMAIN TxsOf(c) : i <= j /\ TxsOf(c)'[i] = TxsOf(c)[j]
      BY <2>2, <1>s
    <3> QED BY <1>3, <1>k, <1>t, <1>w, <2>2, <3>1 DEF MeterInv
  <2> QED BY <2>1, <2>2
<1>4. ASSUME NEW c \in ChargerIds, loop'.at = "report", IsCurrent(c)'
      PROVE  /\ log'[CopiedTx(c)'.id].wh <= loop'.wh
             /\ \A i \in DOMAIN TxsOf(c)' :
                  TxsOf(c)'[i].id = CopiedTx(c)'.id
                    => loop'.wh <= TxsOf(c)'[i].meter
  <2>1. loop.at = "report" /\ IsCurrent(c) /\ loop'.wh = loop.wh
    BY <1>4 DEF Plain, ReportKept
  <2>2. Copied(c) /\ loop'.snap[c] = loop.snap[c]
    BY <1>4, <2>1 DEF CopiedInPlace, IsCurrent, Plain, CopiesKept
  <2>3. CopiedTx(c)' = CopiedTx(c) /\ CopiedTx(c).id \in Txs
    BY <2>2, CopiedType DEF CopiedTx
  <2>4. ASSUME NEW i \in DOMAIN TxsOf(c)', TxsOf(c)'[i].id = CopiedTx(c).id
        PROVE  loop.wh <= TxsOf(c)'[i].meter
    <3>1. /\ CopiedTx(c).id \in used
          /\ \A h \in Handlers : ~Carries(h, "storeTx", CopiedTx(c).id)
      BY <2>2 DEF CopiedInPlace
    <3>2. PICK j \in DOMAIN TxsOf(c) : TxsOf(c)'[i] = TxsOf(c)[j]
      BY <2>4, <3>1 DEF Plain, StoredKnown
    <3> QED BY <2>1, <2>4, <3>2 DEF MeterInv
  <2> QED BY <1>w, <2>1, <2>3, <2>4 DEF MeterInv
<1> QED BY <1>1, <1>2, <1>3, <1>4 DEF MeterInv

(* A copy's reading is a number, no lower than the meter it shows.           *)
LEMMA ReadingFacts ==
  ASSUME TypeOK, NEW c \in ChargerIds, Copied(c)
  PROVE  /\ Reading(c) \in Nat /\ CopiedTx(c).meter \in Nat
         /\ CopiedTx(c).meter <= Reading(c)
<1>1. CopiedTx(c).meter \in Nat
  BY CopiedType DEF Transaction
<1>2. Reading(c) = AddWh(CopiedTx(c).meter)
  BY DEF Reading, CopiedTx
<1> QED BY <1>1, <1>2, AppAssumption DEF AddWh

(* The three steps of the loop that deal with readings.                      *)
LEMMA MeterTick ==
  ASSUME TypeOK, MeterInv, Tick
  PROVE  MeterInv'
<1>w. \A t \in Txs : log[t].wh \in Nat
  BY DEF TypeOK, Published
<1>1. UNCHANGED <<chargers, req, used, log>> /\ loop'.at = "visit"
  BY DEF Tick, TypeOK, LoopState
<1>2. \A c \in ChargerIds : TxsOf(c)' = TxsOf(c)
  BY <1>1 DEF TxsOf, Present
<1>3. ASSUME NEW c \in ChargerIds, Copied(c)'
      PROVE  /\ log[CopiedTx(c)'.id].wh <= CopiedTx(c)'.meter
             /\ \A i \in DOMAIN TxsOf(c) :
                  log[TxsOf(c)[i].id].wh > 0
                    => TxsOf(c)[i].id = CopiedTx(c)'.id
  <2>1. TxsOf(c) # <<>> /\ CopiedTx(c)' = TxsOf(c)[1]
    BY <1>3, TickFacts DEF Copied, CopiedTx
  <2>2. TxsOf(c) \in Seq(Transaction)
    BY StoreOpTypes DEF TypeOK, StoreType
  <2>3. 1 \in DOMAIN TxsOf(c)
    BY <2>1, <2>2
  <2>4. TxsOf(c)[1].id \in Txs /\ TxsOf(c)[1].meter \in Nat
    BY <2>3, StoredType
  <2> QED BY <1>w, <2>1, <2>3, <2>4 DEF MeterInv
<1> QED BY <1>1, <1>2, <1>3 DEF MeterInv, Carries, At

(* The reading computed from a copy is written to the first transaction.     *)
LEMMA MeterSend ==
  ASSUME TypeOK, CopiedInPlace, MeterInv,
         NEW c \in ChargerIds, SendSimMeterValue(c)
  PROVE  MeterInv'
<1>w. \A t \in Txs : log[t].wh \in Nat
  BY DEF TypeOK, Published
<1>1. /\ UNCHANGED <<req, used, log>> /\ IsCurrent(c) /\ Copied(c)
      /\ loop'.snap = loop.snap /\ loop'.wh = Reading(c)
  BY DEF SendSimMeterValue, IsCurrent, Copied, TypeOK, LoopState
<1>2. /\ Reading(c) \in Nat /\ CopiedTx(c).meter <= Reading(c)
      /\ CopiedTx(c).meter \in Nat /\ CopiedTx(c).id \in Txs
      /\ log[CopiedTx(c).id].wh <= Reading(c)
  <2>1. log[CopiedTx(c).id].wh <= CopiedTx(c).meter
    BY <1>1 DEF MeterInv
  <2> QED BY <1>w, <1>1, <2>1, ReadingFacts, CopiedType
<1>3. ASSUME NEW d \in ChargerIds
      PROVE  /\ DOMAIN TxsOf(d)' = DOMAIN TxsOf(d)
             /\ Copied(d)' = Copied(d) /\ CopiedTx(d)' = CopiedTx(d)
             /\ \A i \in DOMAIN TxsOf(d) :
                  /\ TxsOf(d)'[i].id = TxsOf(d)[i].id
                  /\ IF d = c /\ i = 1 THEN TxsOf(d)'[i].meter = Reading(c)
                                       ELSE TxsOf(d)'[i] = TxsOf(d)[i]
  BY <1>1, MeteredAfter DEF Copied, CopiedTx
<1>4. ASSUME NEW d \in ChargerIds, NEW i \in DOMAIN TxsOf(d)',
             log'[TxsOf(d)'[i].id].wh > 0
      PROVE  i = 1 /\ log'[TxsOf(d)'[i].id].wh <= TxsOf(d)'[i].meter
  <2>1. /\ i \in DOMAIN TxsOf(d) /\ TxsOf(d)'[i].id = TxsOf(d)[i].id
        /\ log' = log /\ log[TxsOf(d)[i].id].wh > 0
    BY <1>1, <1>3, <1>4
  <2>2. i = 1 /\ log[TxsOf(d)[i].id].wh <= TxsOf(d)[i].meter
    BY <2>1 DEF MeterInv
  <2>3. CASE d = c
    <3>1. TxsOf(d)[i].id = CopiedTx(c).id
      BY <1>1, <2>1, <2>3 DEF MeterInv
    <3> QED BY <1>2, <1>3, <2>1, <2>2, <2>3, <3>1
  <2> QED BY <1>3, <2>1, <2>2, <2>3
<1>5. ASSUME NEW d \in ChargerIds, IsCurrent(d)'
      PROVE  /\ log'[CopiedTx(d)'.id].wh <= loop'.wh
             /\ \A i \in DOMAIN TxsOf(d)' :
                  TxsOf(d)'[i].id = CopiedTx(d)'.id
                    => loop'.wh <= TxsOf(d)'[i].meter
  <2>1. d = c
    BY <1>1, <1>5, OneCurrent DEF IsCurrent
  <2>2. \A i \in DOMAIN TxsOf(c) : TxsOf(c)[i].id = CopiedTx(c).id => i = 1
    BY <1>1 DEF CopiedInPlace
  <2> QED BY <1>1, <1>2, <1>3, <2>1, <2>2
<1>6. ASSUME NEW d \in ChargerIds, Copied(d)'
      PROVE  /\ log'[CopiedTx(d)'.id].wh <= CopiedTx(d)'.meter
             /\ \A i \in DOMAIN TxsOf(d)' :
                  log'[TxsOf(d)'[i].id].wh > 0
                    => TxsOf(d)'[i].id = CopiedTx(d)'.id
  BY <1>1, <1>3, <1>6 DEF MeterInv
<1>7. \A t \in Txs : log'[t].wh > 0 =>
        t \in used' /\ \A h \in Handlers : ~Carries(h, "storeTx", t)'
  BY <1>1 DEF MeterInv, Carries, At
<1> QED BY <1>4, <1>5, <1>6, <1>7 DEF MeterInv

(* The reading is published.                                                 *)
LEMMA MeterEmit ==
  ASSUME TypeOK, CopiedInPlace, MeterInv,
         NEW c \in ChargerIds, EmitMeterTelemetry(c)
  PROVE  MeterInv' /\ \A t \in Txs : log[t].wh <= log'[t].wh
<1>w. \A t \in Txs : log[t].wh \in Nat
  BY DEF TypeOK, Published
<1> DEFINE u == CopiedTx(c).id
<1>1. /\ loop.at = "report" /\ IsCurrent(c) /\ Copied(c) /\ u \in Txs
      /\ UNCHANGED <<chargers, req, used>> /\ loop'.at = "visit"
      /\ log'[u].wh = loop.wh /\ \A t \in Txs : t # u => log'[t] = log[t]
  BY EmitFacts DEF EmitMeterTelemetry
<1>2. \A d \in ChargerIds : TxsOf(d)' = TxsOf(d)
  BY <1>1 DEF TxsOf, Present
<1>3. u \in used /\ \A h \in Handlers : ~Carries(h, "storeTx", u)
  BY <1>1 DEF CopiedInPlace
<1>4. /\ log[u].wh <= loop.wh
      /\ \A i \in DOMAIN TxsOf(c) :
           TxsOf(c)[i].id = u => loop.wh <= TxsOf(c)[i].meter
  BY <1>1 DEF MeterInv
<1>5. \A d \in ChargerIds : Copied(d)' =>
        d # c /\ Copied(d) /\ CopiedTx(d)' = CopiedTx(d) /\ CopiedTx(d).id # u
  BY EmitFacts
<1>6. \A d \in ChargerIds : \A i \in DOMAIN TxsOf(d) :
        TxsOf(d)[i].id \in Txs /\ (TxsOf(d)[i].id = u => d = c /\ i = 1)
  BY <1>1, StoredType DEF CopiedInPlace
<1>7. \A d \in ChargerIds : Copied(d) => CopiedTx(d).id \in Txs
  BY CopiedType
<1> HIDE DEF u
<1>8. \A t \in Txs : log'[t].wh > 0 =>
        t \in used' /\ \A h \in Handlers : ~Carries(h, "storeTx", t)'
  BY <1>1, <1>3 DEF MeterInv, Carries, At
<1>9. ASSUME NEW d \in ChargerIds, NEW i \in DOMAIN TxsOf(d),
             log'[TxsOf(d)[i].id].wh > 0
      PROVE  i = 1 /\ log'[TxsOf(d)[i].id].wh <= TxsOf(d)[i].meter
  BY <1>1, <1>4, <1>6, <1>9 DEF MeterInv
<1>10. ASSUME NEW d \in ChargerIds, Copied(d)'
       PROVE  /\ log'[CopiedTx(d)'.id].wh <= CopiedTx(d)'.meter
              /\ \A i \in DOMAIN TxsOf(d) :
                   log'[TxsOf(d)[i].id].wh > 0
                     => TxsOf(d)[i].id = CopiedTx(d)'.id
  BY <1>1, <1>5, <1>6, <1>7, <1>10 DEF MeterInv
<1>11. \A t \in Txs : log[t].wh <= log'[t].wh
  BY <1>w, <1>1, <1>4
<1> QED BY <1>1, <1>2, <1>8, <1>9, <1>10, <1>11 DEF MeterInv

(* MeterInv is inductive.                                                    *)
LEMMA MeterNext ==
  ASSUME TypeOK, TypeOK', CopiedInPlace, MeterInv, [Next]_vars
  PROVE  MeterInv' /\ \A t \in Txs : log[t].wh <= log'[t].wh
<1>w. \A t \in Txs : log[t].wh \in Nat
  BY DEF TypeOK, Published
<1>s. log' = log => \A t \in Txs : log[t].wh <= log'[t].wh
  BY <1>w
<1>1. CASE Plain
  <2>1. \A t \in Txs : log[t].wh <= log'[t].wh
    BY <1>w, <1>1 DEF Plain
  <2> QED BY <1>1, <2>1, MeterPlain
<1>2. CASE Tick
  BY <1>s, <1>2, MeterTick DEF Tick
<1>3. ASSUME NEW c \in ChargerIds, SendSimMeterValue(c)
      PROVE  MeterInv' /\ \A t \in Txs : log[t].wh <= log'[t].wh
  BY <1>s, <1>3, MeterSend DEF SendSimMeterValue
<1>4. ASSUME NEW c \in ChargerIds, EmitMeterTelemetry(c)
      PROVE  MeterInv' /\ \A t \in Txs : log[t].wh <= log'[t].wh
  BY <1>4, MeterEmit
<1> QED BY <1>1, <1>2, <1>3, <1>4, PlainSteps

(* The readings published for one transaction never decrease, although the   *)
(* loop writes a reading to whatever transaction is first.                   *)
THEOREM FleetMeterGrows == Spec => PublishedMeterGrows
<1>1. Init => MeterInv
  BY DEF Init, MeterInv, Copied, TxsOf, Present, IdleLoop, NoSnapshot
<1>2. TypeOK /\ TypeOK' /\ CopiedInPlace /\ MeterInv /\ [Next]_vars => MeterInv'
  BY MeterNext
<1>3. TypeOK /\ TypeOK' /\ CopiedInPlace /\ MeterInv /\ [Next]_vars
        => [\A t \in Txs : log[t].wh <= log'[t].wh]_vars
  BY MeterNext
<1> QED BY <1>1, <1>2, <1>3, FleetTypeOK, FleetCopiedInPlace, PTL
        DEF Spec, PublishedMeterGrows
=============================================================================
