--------------------------- MODULE SessionsProofs ---------------------------
(* Theorems about Sessions.tla, for any number of requests, sessions and     *)
(* readings.                                                                 *)
EXTENDS Sessions, TLAPS

-----------------------------------------------------------------------------
(* Types.                                                                    *)

(* Sums and maxima of energies are energies.                                 *)
LEMMA EnergyTypes ==
  ASSUME NEW x \in Nat, NEW y \in Nat
  PROVE  AddKwh(x, y) \in Nat /\ MaxOf(x, y) \in Nat
BY SessionsAssumption DEF AddKwh, MaxOf

(* A request that is not in flight carries no copy.                          *)
LEMMA IdleType == IdleRequest \in Request
BY SessionsAssumption DEF IdleRequest, Request

(* Readings, and the absent one of a PATCH, are energies.                    *)
LEMMA ReadingTypes == \A kwh \in Readings \cup {0} : kwh \in Nat
BY SessionsAssumption

(* A PATCH turns a session into a session.                                   *)
LEMMA PatchedType ==
  ASSUME NEW session \in Session, NEW status \in Statuses, NEW kwh \in Nat,
         NEW end \in BOOLEAN
  PROVE  Patched(session, status, kwh, end) \in Session
<1>1. session.kwh \in Nat /\ session.ended \in BOOLEAN
  BY DEF Session
<1>2. (session.ended \/ end \/ status = "COMPLETED") \in BOOLEAN
  OBVIOUS
<1> QED BY <1>1, <1>2 DEF Patched, Session

(* The initial state is well typed.                                         *)
LEMMA TypeInit == Init => TypeOK
<1> SUFFICES ASSUME Init PROVE TypeOK
  OBVIOUS
<1>1. \A h \in Handlers : req[h] \in Request /\ req[h].at = "idle"
  BY IdleType DEF Init, IdleRequest
<1>2. sessions \in [Ids -> Session \cup {NoSession}]
  BY DEF Init
<1>3. req \in [Handlers -> Request]
  BY IdleType DEF Init
<1> QED BY <1>1, <1>2, <1>3 DEF Init, TypeOK

(* Every step keeps the types.                                               *)
LEMMA TypeNext == TypeOK /\ [Next]_vars => TypeOK'
<1> SUFFICES ASSUME TypeOK, [Next]_vars PROVE TypeOK'
  OBVIOUS
<1> USE SessionsAssumption
<1>1. ASSUME NEW s \in Ids, StartSession(s) \/ CreateSession(s) PROVE TypeOK'
  <2>1. [status |-> "ACTIVE", kwh |-> 0, ended |-> FALSE] \in Session
    BY DEF Session, Statuses
  <2> QED BY <1>1, <2>1 DEF StartSession, CreateSession, AddSession, TypeOK
<1>2. ASSUME NEW s \in Ids, StopSession(s)
      PROVE  sessions' \in [Ids -> Session \cup {NoSession}]
  <2>1. sessions[s] \in Session
    BY <1>2 DEF StopSession, Known, TypeOK
  <2>2. [sessions[s] EXCEPT !.status = "COMPLETED", !.ended = TRUE] \in Session
    BY <2>1 DEF Session, Statuses
  <2> QED BY <1>2, <2>2 DEF StopSession, TypeOK
<1>3. ASSUME NEW s \in Ids, StopById(s) PROVE TypeOK'
  BY <1>2, <1>3 DEF StopById, TypeOK
<1>4. ASSUME NEW h \in Handlers, NEW s \in Ids, BeginStopAny(h, s)
      PROVE  TypeOK'
  BY <1>4 DEF BeginStopAny, Start, TypeOK, Request
<1>5. ASSUME NEW h \in Handlers, NEW s \in Ids, NEW kwh \in Readings,
             BeginMeter(h, s, kwh)
      PROVE  TypeOK'
  <2> DEFINE copy == [sessions[s] EXCEPT !.kwh = AddKwh(@, kwh)]
  <2>1. sessions[s] \in Session /\ sessions[s].kwh \in Nat /\ kwh \in Nat
    BY <1>5, ReadingTypes DEF BeginMeter, Known, TypeOK, Session
  <2>2. copy \in Session
    BY <2>1, EnergyTypes DEF Session
  <2>3. credit' \in [Ids -> Nat]
    BY <1>5, <2>1, EnergyTypes DEF BeginMeter, TypeOK
  <2>4. req' = [req EXCEPT ![h] = [at |-> "save", id |-> s, copy |-> copy]]
    BY <1>5 DEF BeginMeter, Start
  <2>5. [at |-> "save", id |-> s, copy |-> copy] \in Request
    BY <2>2 DEF Request
  <2>6. UNCHANGED <<sessions, listed>>
    BY <1>5 DEF BeginMeter
  <2> HIDE DEF copy
  <2> QED BY <2>2, <2>3, <2>4, <2>5, <2>6 DEF TypeOK
<1>6. ASSUME NEW h \in Handlers, NEW s \in Ids, NEW status \in Statuses,
             PatchTo(h, s, status)
      PROVE  TypeOK'
  <2>1. PICK kwh \in Readings \cup {0}, end \in BOOLEAN :
          BeginPatch(h, s, status, kwh, end)
    BY <1>6 DEF PatchTo
  <2> DEFINE copy == Patched(sessions[s], status, kwh, end)
  <2>2. sessions[s] \in Session /\ kwh \in Nat
    BY <2>1, ReadingTypes DEF BeginPatch, Known, TypeOK
  <2>3. copy \in Session
    BY <2>2, PatchedType
  <2>4. credit' \in [Ids -> Nat]
    BY <2>1, <2>2, EnergyTypes DEF BeginPatch, TypeOK
  <2>5. req' = [req EXCEPT ![h] = [at |-> "save", id |-> s, copy |-> copy]]
    BY <2>1 DEF BeginPatch, Start
  <2>6. [at |-> "save", id |-> s, copy |-> copy] \in Request
    BY <2>3 DEF Request
  <2>7. UNCHANGED <<sessions, listed>>
    BY <2>1 DEF BeginPatch
  <2> HIDE DEF copy
  <2> QED BY <2>3, <2>4, <2>5, <2>6, <2>7 DEF TypeOK
<1>7. ASSUME NEW h \in Handlers, StopPicked(h) PROVE TypeOK'
  <2>1. req[h].id \in Ids
    BY DEF TypeOK, Request
  <2> QED BY <1>2, <1>7, <2>1, IdleType
          DEF StopPicked, Finish, TypeOK, IdleRequest
<1>8. ASSUME NEW h \in Handlers, Save(h) PROVE TypeOK'
  BY <1>8, IdleType DEF Save, UpdateSession, Finish, TypeOK, Request, IdleRequest
<1>9. ASSUME Tick PROVE TypeOK'
  BY <1>9 DEF Tick, Known, TypeOK
<1>10. ASSUME NEW s \in Ids, Meter(s) PROVE TypeOK'
  <2>1. listed[s] \in Session /\ listed[s].kwh \in Nat
    BY <1>10 DEF Meter, TypeOK, Session
  <2>2. [listed[s] EXCEPT !.kwh = AddKwh(@, 1)] \in Session
    BY <2>1, EnergyTypes DEF Session
  <2>3. credit' \in [Ids -> Nat]
    BY <1>10, EnergyTypes DEF Meter, TypeOK
  <2> QED BY <1>10, <2>2, <2>3 DEF Meter, UpdateSession, TypeOK
<1>11. CASE UNCHANGED vars
  BY <1>11 DEF vars, TypeOK
<1> QED BY <1>1, <1>3, <1>4, <1>5, <1>6, <1>7, <1>8, <1>9, <1>10, <1>11 DEF Next

(* The state is well typed in every reachable state.                         *)
THEOREM SessionsTypeOK == Spec => []TypeOK
BY TypeInit, TypeNext, PTL DEF Spec

-----------------------------------------------------------------------------
(* What each step does to the copies in flight and to the store, for a       *)
(* property P of one session's record: every invariant below is such a       *)
(* property of the stored record and of every copy.                          *)

(* A copy of s is held by a request that is about to save it, or by the      *)
(* meter loop.                                                               *)
LEMMA InFlightSplit ==
  ASSUME NEW s \in Ids, NEW copy \in InFlight(s)
  PROVE  \/ \E h \in Handlers :
              req[h].at = "save" /\ req[h].id = s /\ req[h].copy = copy
         \/ listed[s] = copy /\ listed[s] # NoSession
BY DEF InFlight

(* A copy of s held after a step was held before it, or a request has just   *)
(* taken it, or the loop has just listed it.                                 *)
LEMMA InFlightNext ==
  ASSUME TypeOK, [Next]_vars, NEW s \in Ids, NEW copy \in InFlight(s)'
  PROVE  \/ copy \in InFlight(s)
         \/ Tick /\ Known(s) /\ copy = sessions[s]
         \/ \E h \in Handlers, kwh \in Readings :
              /\ BeginMeter(h, s, kwh)
              /\ copy = [sessions[s] EXCEPT !.kwh = AddKwh(@, kwh)]
         \/ \E h \in Handlers, status \in Statuses, kwh \in Readings \cup {0},
               end \in BOOLEAN :
              /\ BeginPatch(h, s, status, kwh, end)
              /\ copy = Patched(sessions[s], status, kwh, end)
<1>1. CASE \E h \in Handlers :
             req'[h].at = "save" /\ req'[h].id = s /\ req'[h].copy = copy
  <2>1. PICK h \in Handlers :
          req'[h].at = "save" /\ req'[h].id = s /\ req'[h].copy = copy
    BY <1>1
  <2>2. CASE req'[h] = req[h]
    BY <2>1, <2>2 DEF InFlight
  <2>3. CASE req'[h] # req[h]
    <3> USE DEF TypeOK
    <3>1. ASSUME NEW g \in Handlers, StopPicked(g) \/ Save(g) PROVE FALSE
      <4>1. req' = [req EXCEPT ![g] = IdleRequest]
        BY <3>1 DEF StopPicked, Save, Finish
      <4> QED BY <2>1, <2>3, <4>1 DEF IdleRequest
    <3>2. ASSUME NEW g \in Handlers, NEW z \in Ids, BeginStopAny(g, z)
          PROVE  FALSE
      <4>1. req' = [req EXCEPT ![g] =
                      [at |-> "stop", id |-> z, copy |-> NoSession]]
        BY <3>2 DEF BeginStopAny, Start
      <4> QED BY <2>1, <2>3, <4>1
    <3>3. ASSUME NEW g \in Handlers, NEW z \in Ids, NEW kwh \in Readings,
                 BeginMeter(g, z, kwh)
          PROVE  /\ BeginMeter(h, s, kwh)
                 /\ copy = [sessions[s] EXCEPT !.kwh = AddKwh(@, kwh)]
      <4> DEFINE c == [sessions[z] EXCEPT !.kwh = AddKwh(@, kwh)]
      <4>1. req' = [req EXCEPT ![g] = [at |-> "save", id |-> z, copy |-> c]]
        BY <3>3 DEF BeginMeter, Start
      <4> HIDE DEF c
      <4>2. g = h /\ z = s /\ copy = c
        BY <2>1, <2>3, <4>1
      <4> QED BY <3>3, <4>2 DEF c
    <3>4. ASSUME NEW g \in Handlers, NEW z \in Ids, NEW status \in Statuses,
                 NEW kwh \in Readings \cup {0}, NEW end \in BOOLEAN,
                 BeginPatch(g, z, status, kwh, end)
          PROVE  /\ BeginPatch(h, s, status, kwh, end)
                 /\ copy = Patched(sessions[s], status, kwh, end)
      <4> DEFINE c == Patched(sessions[z], status, kwh, end)
      <4>1. req' = [req EXCEPT ![g] = [at |-> "save", id |-> z, copy |-> c]]
        BY <3>4 DEF BeginPatch, Start
      <4> HIDE DEF c
      <4>2. g = h /\ z = s /\ copy = c
        BY <2>1, <2>3, <4>1
      <4> QED BY <3>4, <4>2 DEF c
    <3>5. \/ \E g \in Handlers : StopPicked(g) \/ Save(g)
          \/ \E g \in Handlers, z \in Ids : BeginStopAny(g, z)
          \/ \E g \in Handlers, z \in Ids, kwh \in Readings :
               BeginMeter(g, z, kwh)
          \/ \E g \in Handlers, z \in Ids, status \in Statuses,
                kwh \in Readings \cup {0}, end \in BOOLEAN :
               BeginPatch(g, z, status, kwh, end)
          \/ req' = req
      BY DEF Next, PatchTo, StartSession, CreateSession, StopById, Tick, Meter,
             vars
    <3>6. CASE \E g \in Handlers, z \in Ids, kwh \in Readings :
                 BeginMeter(g, z, kwh)
      <4>1. PICK g \in Handlers, z \in Ids, kwh \in Readings :
              BeginMeter(g, z, kwh)
        BY <3>6
      <4> QED BY <3>3, <4>1
    <3>7. CASE \E g \in Handlers, z \in Ids, status \in Statuses,
                 kwh \in Readings \cup {0}, end \in BOOLEAN :
                 BeginPatch(g, z, status, kwh, end)
      <4>1. PICK g \in Handlers, z \in Ids, status \in Statuses,
                 kwh \in Readings \cup {0}, end \in BOOLEAN :
              BeginPatch(g, z, status, kwh, end)
        BY <3>7
      <4> QED BY <3>4, <4>1
    <3> QED BY <2>3, <3>1, <3>2, <3>5, <3>6, <3>7
  <2> QED BY <2>2, <2>3
<1>2. CASE listed'[s] = copy /\ listed'[s] # NoSession
  <2>1. CASE Tick
    BY <1>2, <2>1 DEF Tick
  <2>2. ASSUME NEW z \in Ids, Meter(z) PROVE copy \in InFlight(s)
    BY <1>2, <2>2 DEF Meter, InFlight, TypeOK
  <2>3. CASE listed' = listed
    BY <1>2, <2>3 DEF InFlight
  <2>4. Tick \/ (\E z \in Ids : Meter(z)) \/ listed' = listed
    BY DEF Next, PatchTo, BeginPatch, BeginMeter, BeginStopAny, StartSession,
           CreateSession, StopById, StopPicked, Save, vars
  <2> QED BY <2>1, <2>2, <2>3, <2>4
<1>3. \/ \E h \in Handlers :
           req'[h].at = "save" /\ req'[h].id = s /\ req'[h].copy = copy
      \/ listed'[s] = copy /\ listed'[s] # NoSession
  BY DEF InFlight
<1> QED BY <1>1, <1>2, <1>3

(* The stored record of s after a step is the one before it, a new session,  *)
(* the old one completed, a saved copy, or a listed copy with one reading.   *)
LEMMA StoredNext ==
  ASSUME TypeOK, [Next]_vars, NEW s \in Ids, sessions'[s] # sessions[s]
  PROVE  \/ /\ StartSession(s) \/ CreateSession(s)
            /\ sessions'[s] = [status |-> "ACTIVE", kwh |-> 0, ended |-> FALSE]
         \/ /\ Known(s)
            /\ sessions'[s] = [sessions[s] EXCEPT !.status = "COMPLETED",
                                                  !.ended = TRUE]
         \/ sessions'[s] \in InFlight(s)
         \/ /\ Meter(s)
            /\ sessions'[s] = [listed[s] EXCEPT !.kwh = AddKwh(@, 1)]
<1> USE DEF TypeOK
<1>1. ASSUME NEW z \in Ids, StartSession(z) \/ CreateSession(z)
      PROVE  /\ StartSession(s) \/ CreateSession(s)
             /\ sessions'[s] = [status |-> "ACTIVE", kwh |-> 0, ended |-> FALSE]
  BY <1>1 DEF StartSession, CreateSession, AddSession
<1>2. ASSUME NEW z \in Ids, StopSession(z)
      PROVE  /\ Known(s)
             /\ sessions'[s] = [sessions[s] EXCEPT !.status = "COMPLETED",
                                                   !.ended = TRUE]
  BY <1>2 DEF StopSession
<1>3. ASSUME NEW h \in Handlers, Save(h) PROVE sessions'[s] \in InFlight(s)
  BY <1>3 DEF Save, UpdateSession, InFlight
<1>4. ASSUME NEW z \in Ids, Meter(z)
      PROVE  /\ Meter(s)
             /\ sessions'[s] = [listed[s] EXCEPT !.kwh = AddKwh(@, 1)]
  BY <1>4 DEF Meter, UpdateSession
<1>5. ASSUME NEW h \in Handlers, StopPicked(h)
      PROVE  \E z \in Ids : StopSession(z)
  BY <1>5 DEF StopPicked, Request
<1>6. \/ \E z \in Ids : StartSession(z) \/ CreateSession(z)
      \/ \E z \in Ids : StopSession(z)
      \/ \E h \in Handlers : Save(h)
      \/ \E z \in Ids : Meter(z)
  BY <1>5 DEF Next, PatchTo, BeginPatch, BeginMeter, BeginStopAny, StopById,
              Tick, vars
<1> QED BY <1>1, <1>2, <1>3, <1>4, <1>6

-----------------------------------------------------------------------------
(* Energy.                                                                   *)

(* Saturated sums are monotone and stay within the bound.                    *)
LEMMA AddKwhGrows ==
  ASSUME NEW x \in Nat, NEW y \in Nat, NEW d \in Nat, x <= y, y <= MaxKwh
  PROVE  AddKwh(x, d) <= AddKwh(y, d) /\ y <= AddKwh(y, d)
         /\ AddKwh(y, d) <= MaxKwh
BY SessionsAssumption DEF AddKwh

(* What is reported for a session never decreases and stays in the bound.    *)
LEMMA CreditGrows ==
  ASSUME TypeOK, EnergyInv, [Next]_vars, NEW s \in Ids
  PROVE  credit[s] <= credit'[s] /\ credit'[s] <= MaxKwh
<1> USE SessionsAssumption DEF TypeOK, EnergyInv
<1>1. ASSUME NEW h \in Handlers, NEW z \in Ids, NEW kwh \in Readings,
             BeginMeter(h, z, kwh)
      PROVE  credit[s] <= credit'[s] /\ credit'[s] <= MaxKwh
  BY <1>1, AddKwhGrows DEF BeginMeter
<1>2. ASSUME NEW h \in Handlers, NEW z \in Ids, NEW status \in Statuses,
             PatchTo(h, z, status)
      PROVE  credit[s] <= credit'[s] /\ credit'[s] <= MaxKwh
  <2>1. PICK kwh \in Readings \cup {0}, end \in BOOLEAN :
          BeginPatch(h, z, status, kwh, end)
    BY <1>2 DEF PatchTo
  <2>2. kwh \in Nat /\ kwh <= MaxKwh
    <3>1. kwh = 0 \/ kwh \in 1..MaxKwh
      OBVIOUS
    <3> HIDE DEF TypeOK, EnergyInv
    <3> QED BY <3>1
  <2> QED BY <2>1, <2>2 DEF BeginPatch, MaxOf
<1>3. ASSUME NEW z \in Ids, Meter(z)
      PROVE  credit[s] <= credit'[s] /\ credit'[s] <= MaxKwh
  BY <1>3, AddKwhGrows DEF Meter
<1>4. CASE credit' = credit
  BY <1>4
<1> QED
  BY <1>1, <1>2, <1>3, <1>4
  DEF Next, StartSession, CreateSession, StopById, BeginStopAny, StopPicked,
      Save, Tick, vars

(* A copy never shows more than what was reported.                           *)
LEMMA EnergyCopies ==
  ASSUME TypeOK, EnergyInv, [Next]_vars, NEW s \in Ids, NEW copy \in InFlight(s)'
  PROVE  copy.kwh <= credit'[s]
<1> USE SessionsAssumption DEF TypeOK
<1>1. credit[s] <= credit'[s] /\ credit[s] \in Nat /\ credit'[s] \in Nat
  BY CreditGrows, TypeNext
<1>2. CASE copy \in InFlight(s)
  <2>1. copy \in Session
    BY <1>2, InFlightSplit
  <2> QED BY <1>1, <1>2, <2>1 DEF EnergyInv, EnergyNeverInvented, Session
<1>3. CASE Tick /\ Known(s) /\ copy = sessions[s]
  <2>1. copy \in Session
    BY <1>3 DEF Known
  <2> QED BY <1>1, <1>3, <2>1 DEF EnergyInv, EnergyNeverInvented, Session
<1>4. ASSUME NEW h \in Handlers, NEW kwh \in Readings, BeginMeter(h, s, kwh),
             copy = [sessions[s] EXCEPT !.kwh = AddKwh(@, kwh)]
      PROVE  copy.kwh <= credit'[s]
  <2>1. sessions[s] \in Session /\ Known(s)
    BY <1>4 DEF BeginMeter, Known
  <2>2. copy.kwh = AddKwh(sessions[s].kwh, kwh)
    BY <1>4, <2>1 DEF Session
  <2>3. credit'[s] = AddKwh(credit[s], kwh)
    BY <1>4 DEF BeginMeter
  <2> QED BY <2>1, <2>2, <2>3, AddKwhGrows
          DEF EnergyInv, EnergyNeverInvented, Session
<1>5. ASSUME NEW h \in Handlers, NEW status \in Statuses,
             NEW kwh \in Readings \cup {0}, NEW end \in BOOLEAN,
             BeginPatch(h, s, status, kwh, end),
             copy = Patched(sessions[s], status, kwh, end)
      PROVE  copy.kwh <= credit'[s]
  <2>1. sessions[s] \in Session /\ Known(s)
    BY <1>5 DEF BeginPatch, Known
  <2>2. copy.kwh = IF kwh > 0 THEN kwh ELSE sessions[s].kwh
    BY <1>5 DEF Patched
  <2>3. credit'[s] = MaxOf(credit[s], kwh)
    BY <1>5 DEF BeginPatch
  <2> QED BY <2>1, <2>2, <2>3
          DEF EnergyInv, EnergyNeverInvented, Session, MaxOf
<1> QED BY <1>2, <1>3, <1>4, <1>5, InFlightNext

(* Nor does the store.                                                       *)
LEMMA EnergyStored ==
  ASSUME TypeOK, EnergyInv, [Next]_vars, NEW s \in Ids, Known(s)'
  PROVE  sessions'[s].kwh <= credit'[s]
<1> USE SessionsAssumption DEF TypeOK
<1>1. credit[s] <= credit'[s] /\ credit[s] \in Nat /\ credit'[s] \in Nat
  BY CreditGrows, TypeNext
<1>2. CASE sessions'[s] = sessions[s]
  <2>1. Known(s) /\ sessions[s] \in Session
    BY <1>2 DEF Known
  <2> QED BY <1>1, <1>2, <2>1 DEF EnergyInv, EnergyNeverInvented, Session
<1>3. CASE sessions'[s] = [status |-> "ACTIVE", kwh |-> 0, ended |-> FALSE]
  BY <1>1, <1>3
<1>4. CASE /\ Known(s)
           /\ sessions'[s] = [sessions[s] EXCEPT !.status = "COMPLETED",
                                                 !.ended = TRUE]
  <2>1. sessions[s] \in Session
    BY <1>4 DEF Known
  <2>2. sessions'[s].kwh = sessions[s].kwh
    BY <1>4, <2>1 DEF Session
  <2> QED BY <1>1, <1>4, <2>1, <2>2 DEF EnergyInv, EnergyNeverInvented, Session
<1>5. CASE sessions'[s] \in InFlight(s)
  <2>1. sessions'[s].kwh <= credit[s]
    BY <1>5 DEF EnergyInv, EnergyNeverInvented
  <2>2. sessions'[s] \in Session
    BY TypeNext DEF Known
  <2> QED BY <1>1, <2>1, <2>2 DEF Session
<1>6. CASE /\ Meter(s)
           /\ sessions'[s] = [listed[s] EXCEPT !.kwh = AddKwh(@, 1)]
  <2>1. listed[s] \in Session /\ listed[s] \in InFlight(s)
    BY <1>6 DEF Meter, InFlight
  <2>2. sessions'[s].kwh = AddKwh(listed[s].kwh, 1)
    BY <1>6, <2>1 DEF Session
  <2>3. credit'[s] = AddKwh(credit[s], 1)
    BY <1>6 DEF Meter
  <2> QED BY <2>1, <2>2, <2>3, AddKwhGrows
          DEF EnergyInv, EnergyNeverInvented, Session
<1> QED BY <1>2, <1>3, <1>4, <1>5, <1>6, StoredNext

(* Nothing is in flight initially.                                           *)
LEMMA InFlightInit ==
  ASSUME Init, NEW s \in Ids, NEW copy \in InFlight(s)
  PROVE  FALSE
BY InFlightSplit DEF Init, IdleRequest

(* Initially there is no energy and no credit.                              *)
LEMMA EnergyInit == Init => EnergyInv
<1> SUFFICES ASSUME Init PROVE EnergyInv
  OBVIOUS
<1>1. \A s \in Ids : ~Known(s) /\ credit[s] = 0
  BY DEF Init, Known
<1> QED BY <1>1, SessionsAssumption, InFlightInit
        DEF EnergyInv, EnergyNeverInvented

(* The store and the copies on their way back to it never show more energy   *)
(* than was reported for the session: no interleaving counts any twice.      *)
THEOREM SessionsEnergy == Spec => []EnergyNeverInvented
<1>1. TypeOK /\ EnergyInv /\ [Next]_vars => EnergyInv'
  BY CreditGrows, EnergyCopies, EnergyStored DEF EnergyInv, EnergyNeverInvented
<1>2. EnergyInv => EnergyNeverInvented
  BY DEF EnergyInv
<1> QED BY <1>1, <1>2, EnergyInit, TypeInit, TypeNext, PTL DEF Spec

-----------------------------------------------------------------------------
(* Completion.                                                               *)

(* The completed sessions of the store and of every copy have an end time.   *)
THEOREM SessionsEnd == Spec => []CompletedHasEnd
<1>1. Init => CompletedHasEnd
  BY InFlightInit DEF Init, CompletedHasEnd, Known
<1>2. ASSUME TypeOK, CompletedHasEnd, [Next]_vars PROVE CompletedHasEnd'
  <2> USE SessionsAssumption DEF TypeOK
  <2>1. ASSUME NEW s \in Ids, NEW copy \in InFlight(s)',
               copy.status = "COMPLETED"
        PROVE  copy.ended
    <3>1. CASE copy \in InFlight(s)
      BY <1>2, <2>1, <3>1 DEF CompletedHasEnd
    <3>2. CASE Known(s) /\ copy = sessions[s]
      BY <1>2, <2>1, <3>2 DEF CompletedHasEnd
    <3>3. ASSUME NEW h \in Handlers, NEW kwh \in Readings,
                 BeginMeter(h, s, kwh),
                 copy = [sessions[s] EXCEPT !.kwh = AddKwh(@, kwh)]
          PROVE  copy.ended
      <4>1. sessions[s] \in Session /\ Known(s)
        BY <1>2, <3>3 DEF BeginMeter, Known
      <4>2. copy.status = sessions[s].status /\ copy.ended = sessions[s].ended
        BY <3>3, <4>1 DEF Session
      <4> QED BY <1>2, <2>1, <4>1, <4>2 DEF CompletedHasEnd
    <3>4. ASSUME NEW h \in Handlers, NEW status \in Statuses,
                 NEW kwh \in Readings \cup {0}, NEW end \in BOOLEAN,
                 copy = Patched(sessions[s], status, kwh, end)
          PROVE  copy.ended
      BY <2>1, <3>4 DEF Patched
    <3> QED BY <1>2, <3>1, <3>2, <3>3, <3>4, InFlightNext
  <2>2. ASSUME NEW s \in Ids, Known(s)', sessions'[s].status = "COMPLETED"
        PROVE  sessions'[s].ended
    <3>1. CASE sessions'[s] = sessions[s]
      BY <1>2, <2>2, <3>1 DEF CompletedHasEnd, Known
    <3>2. CASE sessions'[s] = [status |-> "ACTIVE", kwh |-> 0, ended |-> FALSE]
      BY <2>2, <3>2
    <3>3. CASE /\ Known(s)
               /\ sessions'[s] = [sessions[s] EXCEPT !.status = "COMPLETED",
                                                     !.ended = TRUE]
      BY <1>2, <3>3 DEF Known, Session
    <3>4. CASE sessions'[s] \in InFlight(s)
      BY <1>2, <2>2, <3>4 DEF CompletedHasEnd
    <3>5. CASE /\ Meter(s)
               /\ sessions'[s] = [listed[s] EXCEPT !.kwh = AddKwh(@, 1)]
      <4>1. listed[s] \in Session /\ listed[s] \in InFlight(s)
        BY <1>2, <3>5 DEF Meter, InFlight
      <4>2. /\ sessions'[s].status = listed[s].status
            /\ sessions'[s].ended = listed[s].ended
        BY <3>5, <4>1 DEF Session
      <4> QED BY <1>2, <2>2, <4>1, <4>2 DEF CompletedHasEnd
    <3> QED BY <1>2, <3>1, <3>2, <3>3, <3>4, <3>5, StoredNext
  <2> QED BY <2>1, <2>2 DEF CompletedHasEnd
<1> QED BY <1>1, <1>2, TypeInit, TypeNext, PTL DEF Spec

(* The window in which a stop can be lost closes once the copies read before *)
(* it are written: no reading, tick or second stop reopens a session that is *)
(* over.                                                                     *)
THEOREM SessionsOver == Spec => OverIsFinal
<1>1. ASSUME TypeOK, [Next]_vars
      PROVE  [\A s \in Ids : Over(s) =>
                \/ Over(s)'
                \/ CreateSession(s)
                \/ \E h \in Handlers, status \in Statuses \ {"COMPLETED"} :
                     PatchTo(h, s, status)]_vars
  <2> SUFFICES ASSUME NEW s \in Ids, Over(s), ~CreateSession(s),
                      ~\E h \in Handlers, status \in Statuses \ {"COMPLETED"} :
                         PatchTo(h, s, status)
               PROVE  Over(s)'
    OBVIOUS
  <2> USE SessionsAssumption
  <2>1. sessions[s] \in Session /\ Known(s) /\ sessions[s].status = "COMPLETED"
    BY <1>1 DEF Over, Known, TypeOK
  <2>2. ASSUME NEW copy \in InFlight(s)' PROVE copy.status = "COMPLETED"
    <3>1. CASE copy \in InFlight(s)
      BY <3>1 DEF Over
    <3>2. CASE copy = sessions[s]
      BY <2>1, <3>2
    <3>3. ASSUME NEW kwh \in Readings,
                 copy = [sessions[s] EXCEPT !.kwh = AddKwh(@, kwh)]
          PROVE  copy.status = "COMPLETED"
      BY <2>1, <3>3 DEF Session
    <3>4. ASSUME NEW h \in Handlers, NEW status \in Statuses,
                 NEW kwh \in Readings \cup {0}, NEW end \in BOOLEAN,
                 BeginPatch(h, s, status, kwh, end),
                 copy = Patched(sessions[s], status, kwh, end)
          PROVE  copy.status = "COMPLETED"
      BY <3>4 DEF PatchTo, Patched
    <3> QED BY <1>1, <3>1, <3>2, <3>3, <3>4, InFlightNext
  <2>3. Known(s)' /\ sessions'[s].status = "COMPLETED"
    <3>1. CASE sessions'[s] = sessions[s]
      BY <2>1, <3>1 DEF Known
    <3>2. CASE sessions'[s] = [sessions[s] EXCEPT !.status = "COMPLETED",
                                                  !.ended = TRUE]
      <4>1. sessions'[s].status = "COMPLETED" /\ sessions'[s] \in Session
        BY <2>1, <3>2 DEF Session, Statuses
      <4> QED BY <4>1 DEF Known
    <3>3. CASE sessions'[s] \in InFlight(s)
      <4>1. sessions'[s] \in Session
        BY <1>1, <3>3, InFlightSplit DEF TypeOK
      <4> QED BY <3>3, <4>1 DEF Over, Known
    <3>4. CASE /\ Meter(s)
               /\ sessions'[s] = [listed[s] EXCEPT !.kwh = AddKwh(@, 1)]
      <4>1. listed[s] \in Session /\ listed[s] \in InFlight(s)
        BY <1>1, <3>4 DEF Meter, InFlight, TypeOK
      <4>2. listed[s].kwh \in Nat
        BY <4>1 DEF Session
      <4>3. sessions'[s] \in Session /\ sessions'[s].status = listed[s].status
        BY <3>4, <4>1, <4>2, EnergyTypes DEF Session
      <4> QED BY <4>1, <4>3 DEF Over, Known
    <3>5. ~StartSession(s)
      BY <2>1 DEF StartSession
    <3> QED BY <1>1, <3>1, <3>2, <3>3, <3>4, <3>5, StoredNext
  <2> QED BY <2>2, <2>3 DEF Over
<1> QED BY <1>1, TypeInit, TypeNext, PTL DEF Spec, OverIsFinal

=============================================================================
