----------------------------- MODULE LedgerProofs -----------------------------
(* Proof that the fleet simulator implements the transaction ledger of       *)
(* TxLedger.tla, step by step.                                               *)
EXTENDS FleetLoopProofs

Pending(t) == \E h \in Handlers : Carries(h, "storeTx", t)

(* Where OnePlace allows a transaction to be, and the phase this gives.      *)
LEMMA PhaseFacts ==
  ASSUME TypeOK, OnePlace, NEW t \in Txs
  PROVE  /\ t \notin used =>
              ~Pending(t) /\ ~Stored(t) /\ log[t].stops = 0 /\ Phase(t) = "fresh"
         /\ Pending(t) =>
              /\ t \in used /\ ~Stored(t) /\ log[t].stops = 0
              /\ Phase(t) = "pending"
         /\ Stored(t) =>
              /\ t \in used /\ ~Pending(t) /\ log[t].stops = 0
              /\ Phase(t) = "active"
         /\ t \in used /\ ~Pending(t) /\ ~Stored(t) =>
              Phase(t) = IF log[t].stops > 0 THEN "announced" ELSE "gone"
<1>1. log[t].stops \in Nat
  BY DEF TypeOK, Published
<1>2. Pending(t) => t \in used /\ ~Stored(t) /\ log[t].stops = 0
  BY DEF Pending, Carries, At, Carrying, OnePlace, Stored
<1>3. Stored(t) => t \in used /\ log[t].stops = 0
  BY DEF OnePlace, Stored
<1>4. t \notin used => log[t].stops = 0
  BY <1>1 DEF OnePlace
<1> QED BY <1>2, <1>3, <1>4 DEF Phase, Pending

(* A transaction whose whereabouts do not change keeps its phase.            *)
LEMMA PhaseSame ==
  ASSUME NEW t \in Txs,
         t \in used' <=> t \in used, Pending(t)' <=> Pending(t),
         Stored(t)' <=> Stored(t), log'[t].stops = log[t].stops
  PROVE  Phase(t)' = Phase(t)
BY DEF Phase, Pending

(* A step that changes the phase of one transaction only.                    *)
LEMMA OneMoves ==
  ASSUME NEW t \in Txs, NEW to, Phase(t)' = to,
         \A u \in Txs : u # t => Phase(u)' = Phase(u)
  PROVE  /\ Phase(t) = "fresh" /\ to = "pending" => Ledger!Reserve(t)
         /\ Phase(t) \in {"fresh", "pending"} /\ to = "active" => Ledger!Activate(t)
         /\ Phase(t) \in {"fresh", "pending"} /\ to = "gone" => Ledger!Lose(t)
         /\ Phase(t) = "gone" /\ to = "announced" => Ledger!Announce(t)
<1> DEFINE phase == [u \in Txs |-> Phase(u)]
<1>1. phase' = [phase EXCEPT ![t] = to] /\ phase[t] = Phase(t)
  OBVIOUS
<1> QED BY <1>1 DEF Ledger!Reserve, Ledger!Activate, Ledger!Lose, Ledger!Announce,
                    Ledger!Move

(* A quiet step ends the transactions that it takes out of the store.        *)
LEMMA QuietEnds ==
  ASSUME TypeOK, OnePlace, Quiet
  PROVE  \E S \in SUBSET Txs : Ledger!End(S)
<1> DEFINE S == {t \in Txs : Stored(t) /\ ~Stored(t)'}
<1>1. \A t \in Txs : (Pending(t)' <=> Pending(t)) /\ (Stored(t)' => Stored(t))
  <2>1. \A t \in Txs : Pending(t)' <=> Pending(t)
    BY DEF Quiet, PendingSame, Pending, Carries
  <2>2. \A t \in Txs : Stored(t)' => Stored(t)
    BY DEF Quiet, Kept, Stored
  <2> QED BY <2>1, <2>2
<1>2. ASSUME NEW t \in S PROVE Phase(t) = "active" /\ Phase(t)' = "gone"
  <2>1. t \in used /\ ~Pending(t) /\ log[t].stops = 0 /\ Phase(t) = "active"
    BY PhaseFacts
  <2>2. t \in used' /\ ~Pending(t)' /\ ~Stored(t)' /\ ~(log'[t].stops > 0)
    BY <1>1, <2>1 DEF Quiet
  <2> QED BY <2>1, <2>2 DEF Phase, Pending
<1>3. ASSUME NEW t \in Txs, t \notin S PROVE Phase(t)' = Phase(t)
  BY <1>1, <1>3, PhaseSame DEF Quiet
<1> HIDE DEF S
<1>4. S \in SUBSET Txs
  BY DEF S
<1>5. [t \in Txs |-> Phase(t)]' =
        [t \in Txs |-> IF t \in S THEN "gone" ELSE [u \in Txs |-> Phase(u)][t]]
  BY <1>2, <1>3
<1> QED BY <1>2, <1>4, <1>5 DEF Ledger!End

(* The transactions stored after one was appended: the new one if its        *)
(* charger is still there.                                                   *)
LEMMA StoredAfterAppend ==
  ASSUME chargers \in StoreType, NEW c \in ChargerIds, NEW tx \in Transaction,
         UpdateRuntime(c, Append(TxsOf(c), tx)),
         NEW t \in Txs, t # tx.id
  PROVE  Stored(t)' <=> Stored(t)
<1> DEFINE new == Append(TxsOf(c), tx)
<1>1. TxsOf(c) \in Seq(Transaction) /\ new \in Seq(Transaction)
  BY StoreOpTypes
<1>2. \A d \in ChargerIds :
        TxsOf(d)' = TxsOf(d) \/ (d = c /\ TxsOf(d)' = new)
  BY <1>1, TxsAfter
<1>3. /\ \A j \in DOMAIN TxsOf(c) : j \in DOMAIN new /\ new[j] = TxsOf(c)[j]
      /\ \A j \in DOMAIN new :
           \/ j \in DOMAIN TxsOf(c) /\ new[j] = TxsOf(c)[j]
           \/ new[j] = tx
  BY <1>1
<1> HIDE DEF new
<1> QED BY <1>2, <1>3 DEF Stored

(* The steps that hand out an id, store a transaction or announce a stop     *)
(* move that one transaction forward.                                        *)
LEMMA BeginStartMoves ==
  ASSUME TypeOK, OnePlace, NEW h \in Handlers, NEW c \in ChargerIds,
         NEW k \in Connectors, NEW t \in Txs, NEW wh \in MeterStarts,
         BeginStart(h, c, k, t, wh)
  PROVE  Ledger!Reserve(t)
<1> DEFINE tx == [id |-> t, conn |-> k, start |-> wh, meter |-> wh, sim |-> FALSE]
           r == [IdleRequest EXCEPT !.at = "storeTx", !.c = c, !.conn = k,
                                    !.tx = tx]
<1>1. r.tx.id = t /\ r.at = "storeTx"
  BY DEF IdleRequest
<1>2. /\ Start(h, r) /\ t \notin used /\ used' = used \cup {t}
      /\ UNCHANGED <<chargers, log>>
  BY DEF BeginStart
<1> HIDE DEF r
<1>3. /\ req[h].at = "idle" /\ req'[h] = r
      /\ \A g \in Handlers : g # h => req'[g] = req[g]
  BY <1>2 DEF Start, Idle, TypeOK
<1>4. \A u \in Txs : Stored(u)' <=> Stored(u)
  BY <1>2 DEF Stored, TxsOf, Present
<1>5. Pending(t)' /\ \A u \in Txs : u # t => (Pending(u)' <=> Pending(u))
  BY <1>1, <1>3 DEF Pending, Carries, At
<1>6. Phase(t) = "fresh"
  BY <1>2, PhaseFacts
<1>7. Phase(t)' = "pending"
  BY <1>2, <1>5 DEF Phase, Pending
<1>8. \A u \in Txs : u # t => Phase(u)' = Phase(u)
  BY <1>2, <1>4, <1>5, PhaseSame
<1> QED BY <1>6, <1>7, <1>8, OneMoves

(* A pending transaction is stored, or its charger is gone.                  *)
LEMMA StoreTxMoves ==
  ASSUME TypeOK, OnePlace, NEW h \in Handlers, StoreTx(h)
  PROVE  \E t \in Txs : Ledger!Activate(t) \/ Ledger!Lose(t)
<1>1. /\ At(h, "storeTx") /\ Finish(h) /\ UNCHANGED <<used, log>>
      /\ UpdateRuntime(req[h].c, Append(TxsOf(req[h].c), req[h].tx))
      /\ chargers \in StoreType /\ req \in [Handlers -> Request]
  BY DEF StoreTx, TypeOK, StoreType
<1>0. /\ req[h].tx \in Transaction /\ req[h].tx.id \in Txs
      /\ req[h].c \in ChargerIds
  BY <1>1 DEF TypeOK, LocalsOK, Carrying, At, Request, Transaction
<1>2. PICK t \in Txs : t = req[h].tx.id
  BY <1>0
<1>3. Pending(t)
  BY <1>1, <1>2 DEF Pending, Carries
<1>4. /\ req'[h].at = "idle"
      /\ \A g \in Handlers : g # h => req'[g] = req[g]
  BY <1>1 DEF Finish, IdleRequest
<1>5. \A g \in Handlers : Carries(g, "storeTx", t) => g = h
  BY <1>1, <1>2 DEF OnePlace, Carrying, Carries, At
<1>6. ~Pending(t)'
  BY <1>4, <1>5 DEF Pending, Carries, At
<1>7. \A u \in Txs : u # t => (Pending(u)' <=> Pending(u))
  BY <1>1, <1>2, <1>4 DEF Pending, Carries, At
<1>8. \A u \in Txs : u # t => (Stored(u)' <=> Stored(u))
  BY <1>0, <1>1, <1>2, StoredAfterAppend
<1>9. \A u \in Txs : u # t => Phase(u)' = Phase(u)
  BY <1>1, <1>7, <1>8, PhaseSame
<1>10. t \in used' /\ ~(log'[t].stops > 0) /\ Phase(t) = "pending"
  BY <1>1, <1>2, <1>3, PhaseFacts
<1>11. Phase(t)' \in {"active", "gone"}
  BY <1>6, <1>10 DEF Phase, Pending
<1> QED BY <1>2, <1>9, <1>10, <1>11, OneMoves

(* The loop hands out an id and stores its transaction in one step, or its   *)
(* charger is gone.                                                          *)
LEMMA StartSimMoves ==
  ASSUME TypeOK, OnePlace, NEW c \in ChargerIds, NEW t \in Txs,
         StartSimTransaction(c, t)
  PROVE  Ledger!Activate(t) \/ Ledger!Lose(t)
<1> DEFINE tx == [id |-> t, conn |-> 1, start |-> SimMeterStart,
                  meter |-> SimMeterStart, sim |-> TRUE]
<1>1. /\ tx \in Transaction /\ tx.id = t /\ t \notin used
      /\ used' = used \cup {t} /\ UNCHANGED <<req, log>>
      /\ UpdateRuntime(c, Append(TxsOf(c), tx)) /\ chargers \in StoreType
  BY FleetAssumption, AppAssumption
     DEF StartSimTransaction, Transaction, Connectors, TypeOK, StoreType
<1> HIDE DEF tx
<1>2. \A u \in Txs : u # t => (Stored(u)' <=> Stored(u))
  BY <1>1, StoredAfterAppend
<1>3. \A u \in Txs : Pending(u)' <=> Pending(u)
  BY <1>1 DEF Pending, Carries, At
<1>4. \A u \in Txs : u # t => Phase(u)' = Phase(u)
  BY <1>1, <1>2, <1>3, PhaseSame
<1>5. ~Pending(t)' /\ ~(log'[t].stops > 0) /\ t \in used' /\ Phase(t) = "fresh"
  BY <1>1, <1>3, PhaseFacts
<1>6. Phase(t)' \in {"active", "gone"}
  BY <1>5 DEF Phase, Pending
<1> QED BY <1>4, <1>5, <1>6, OneMoves

(* A stop is announced.                                                      *)
LEMMA PublishStopMoves ==
  ASSUME TypeOK, OnePlace, NEW h \in Handlers, PublishStop(h)
  PROVE  \E t \in Txs : Ledger!Announce(t)
<1>1. /\ At(h, "publishStop") /\ Finish(h) /\ UNCHANGED <<chargers, used>>
      /\ log' = [log EXCEPT ![req[h].tx.id].stops = @ + 1]
      /\ req \in [Handlers -> Request] /\ log \in [Txs -> Published]
  BY DEF PublishStop, TypeOK
<1>2. PICK t \in Txs : t = req[h].tx.id
  BY <1>1 DEF TypeOK, LocalsOK, Carrying, At, Transaction
<1>3. t \in used /\ log[t].stops = 0 /\ ~Stored(t)
  BY <1>1, <1>2 DEF OnePlace, Carrying, At, Stored
<1>4. ~Pending(t)
  BY <1>1, <1>2 DEF OnePlace, Carrying, At, Carries, Pending
<1>5. \A u \in Txs : Pending(u)' <=> Pending(u)
  BY <1>1 DEF Finish, IdleRequest, Pending, Carries, At
<1>6. \A u \in Txs : Stored(u)' <=> Stored(u)
  BY <1>1 DEF Stored, TxsOf, Present
<1>7. log'[t].stops = 1 /\ \A u \in Txs : u # t => log'[u] = log[u]
  BY <1>1, <1>2, <1>3 DEF Published
<1>8. \A u \in Txs : u # t => Phase(u)' = Phase(u)
  BY <1>1, <1>5, <1>6, <1>7, PhaseSame
<1>9. Phase(t) = "gone"
  BY <1>2, <1>3, <1>4, PhaseFacts
<1>10. ~Pending(t)' /\ ~Stored(t)' /\ t \in used'
  BY <1>1, <1>2, <1>3, <1>4, <1>5, <1>6
<1>11. Phase(t)' = "announced"
  BY <1>7, <1>10 DEF Phase, Pending
<1> QED BY <1>2, <1>8, <1>9, <1>11, OneMoves

(* Every step of the fleet is a step of the ledger, or none.                 *)
LEMMA LedgerStep ==
  ASSUME TypeOK, OnePlace, CopiedInPlace, [Next]_vars
  PROVE  Ledger!Next \/ UNCHANGED [t \in Txs |-> Phase(t)]
<1>s. ASSUME \A t \in Txs : Phase(t)' = Phase(t)
      PROVE  UNCHANGED [t \in Txs |-> Phase(t)]
  BY <1>s
<1>1. CASE Quiet
  BY <1>1, QuietEnds DEF Ledger!Next
<1>2. CASE Tick
  <2>1. UNCHANGED <<chargers, req, used, log>>
    BY <1>2 DEF Tick
  <2>2. \A t \in Txs : (Pending(t)' <=> Pending(t)) /\ (Stored(t)' <=> Stored(t))
    BY <2>1 DEF Pending, Carries, At, Stored, TxsOf, Present
  <2> QED BY <1>s, <2>1, <2>2, PhaseSame
<1>3. ASSUME NEW c \in ChargerIds, SendSimMeterValue(c)
      PROVE  UNCHANGED [t \in Txs |-> Phase(t)]
  <2>1. UNCHANGED <<req, used, log>>
    BY <1>3 DEF SendSimMeterValue
  <2>2. \A t \in Txs : Pending(t)' <=> Pending(t)
    BY <2>1 DEF Pending, Carries, At
  <2>3. \A t \in Txs : Stored(t)' <=> Stored(t)
    BY <1>3, MeteredAfter DEF Stored
  <2> QED BY <1>s, <2>1, <2>2, <2>3, PhaseSame
<1>4. ASSUME NEW c \in ChargerIds, EmitMeterTelemetry(c)
      PROVE  UNCHANGED [t \in Txs |-> Phase(t)]
  <2>1. /\ UNCHANGED <<chargers, req, used>>
        /\ \A t \in Txs : log'[t].stops = log[t].stops
    BY <1>4, EmitFacts
  <2>2. \A t \in Txs : (Pending(t)' <=> Pending(t)) /\ (Stored(t)' <=> Stored(t))
    BY <2>1 DEF Pending, Carries, At, Stored, TxsOf, Present
  <2> QED BY <1>s, <2>1, <2>2, PhaseSame
<1>5. ASSUME NEW c \in ChargerIds, NEW t \in Txs, StartSimTransaction(c, t)
      PROVE  Ledger!Next
  BY <1>5, StartSimMoves DEF Ledger!Next
<1>6. ASSUME NEW h \in Handlers, StoreTx(h) PROVE Ledger!Next
  BY <1>6, StoreTxMoves DEF Ledger!Next
<1>7. ASSUME NEW h \in Handlers, PublishStop(h) PROVE Ledger!Next
  BY <1>7, PublishStopMoves DEF Ledger!Next
<1>8. ASSUME NEW h \in Handlers, NEW c \in ChargerIds, NEW k \in Connectors,
             NEW t \in Txs, NEW wh \in MeterStarts, BeginStart(h, c, k, t, wh)
      PROVE  Ledger!Next
  BY <1>8, BeginStartMoves DEF Ledger!Next
<1> QED BY <1>1, <1>2, <1>3, <1>4, <1>5, <1>6, <1>7, <1>8, StepKinds

(* Initially every id is fresh.                                              *)
LEMMA LedgerInit == Init => Ledger!Init
<1> SUFFICES ASSUME Init PROVE Ledger!Init
  OBVIOUS
<1>1. \A t \in Txs : Phase(t) = "fresh"
  BY DEF Init, Phase
<1> QED BY <1>1 DEF Ledger!Init

(* The fleet simulator implements the transaction ledger: whoever starts,    *)
(* stops, deletes or disconnects concurrently, a transaction id goes through *)
(* its phases in order and never back.                                       *)
THEOREM FleetLedger == Spec => LedgerSpec
<1>1. Init => Ledger!Init
  BY LedgerInit
<1>2. TypeOK /\ OnePlace /\ CopiedInPlace /\ [Next]_vars
        => [Ledger!Next]_([t \in Txs |-> Phase(t)])
  BY LedgerStep
<1> QED BY <1>1, <1>2, FleetTypeOK, FleetOnePlace, FleetCopiedInPlace, PTL
        DEF Spec, LedgerSpec, Ledger!Spec
=============================================================================
