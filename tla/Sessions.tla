------------------------------ MODULE Sessions ------------------------------
(* OCPI charging sessions: the session map of internal/store/store.go, the   *)
(* REST handlers of internal/app/handlers_api.go, the OCPI handlers of       *)
(* internal/app/handlers_ocpi.go and the meter loop of internal/app/app.go.  *)
(*                                                                           *)
(* Each store method is one critical section.  A handler that reads a        *)
(* session, changes the copy and writes it back does so in two of them       *)
(* (req[h].copy is the local variable between them), and so does the meter   *)
(* loop with the copies it listed; any other step may come in between.       *)
(*                                                                           *)
(* Kept of a session: its status, its energy and whether EndedAt is set.     *)
(* Left out: the charger, location and EVSE it names, the times, and the     *)
(* events broadcast about it, which no property here reads.                  *)
EXTENDS Integers

CONSTANTS
  Handlers,     \* bound on requests in flight between two critical sections
  Ids,          \* session ids: newID's, and those OCPI clients choose
  Ops,          \* the operations clients use in an instance
  Readings,     \* energy values clients send, in units of the loop's 0.2 kWh
  MaxKwh,       \* bound: energy saturates here
  NoSession     \* what the map holds for an id it does not know

VARIABLES
  sessions,     \* Store.sessions
  req,          \* the requests in flight
  listed,       \* the copies the meter loop has listed and not yet visited
  credit        \* per id: the most energy anyone has reported for it

vars == <<sessions, req, listed, credit>>

(* PENDING stands for every status a PATCH may name that no code tests for.  *)
Statuses == {"ACTIVE", "COMPLETED", "PENDING"}
Session == [status: Statuses, kwh: Nat, ended: BOOLEAN]

Request == [at: {"idle", "save", "stop"}, id: Ids, copy: Session \cup {NoSession}]

ASSUME SessionsAssumption ==
  /\ MaxKwh \in Nat
  /\ Readings \subseteq 1..MaxKwh
  /\ NoSession \notin Session
  /\ Ids # {}

IdleRequest == [at |-> "idle", id |-> CHOOSE s \in Ids : TRUE, copy |-> NoSession]

Init ==
  /\ sessions = [s \in Ids |-> NoSession]
  /\ req = [h \in Handlers |-> IdleRequest]
  /\ listed = [s \in Ids |-> NoSession]
  /\ credit = [s \in Ids |-> 0]
-----------------------------------------------------------------------------
Known(s) == sessions[s] # NoSession
Idle(h) == req[h].at = "idle"
Start(h, request) == Idle(h) /\ req' = [req EXCEPT ![h] = request]
Finish(h) == req' = [req EXCEPT ![h] = IdleRequest]

AddKwh(x, y) == IF x + y <= MaxKwh THEN x + y ELSE MaxKwh
MaxOf(x, y) == IF x >= y THEN x ELSE y

(* AddSession stores what it is given, over whatever the id held before.     *)
(* Mutant: the status is left as the payload has it.                         *)
AddSessionAsGiven(s) ==
  sessions' = [sessions EXCEPT ![s] =
                 [status |-> "", kwh |-> 0, ended |-> FALSE]]

AddSession(s) ==
  sessions' = [sessions EXCEPT ![s] =
                 [status |-> "ACTIVE", kwh |-> 0, ended |-> FALSE]]

UpdateSession(s, session) == sessions' = [sessions EXCEPT ![s] = session]

StopSession(s) ==
  /\ Known(s)
  /\ sessions' = [sessions EXCEPT ![s] =
                    [@ EXCEPT !.status = "COMPLETED", !.ended = TRUE]]

-----------------------------------------------------------------------------
(* A start through the REST API, an OCPI POST without an id or the command   *)
(* START_SESSION: newID hands out an id the map does not know.               *)
StartSession(s) ==
  /\ "start" \in Ops
  /\ ~Known(s)
  /\ AddSession(s)
  /\ UNCHANGED <<req, listed, credit>>

(* An OCPI POST that names its session.                                      *)
CreateSession(s) ==
  /\ "create" \in Ops
  /\ AddSession(s)
  /\ UNCHANGED <<req, listed, credit>>

(* A stop through the REST API, or STOP_SESSION with a session id.           *)
StopById(s) ==
  /\ "stop" \in Ops
  /\ StopSession(s)
  /\ UNCHANGED <<req, listed, credit>>

(* STOP_SESSION without an id picks an active session from a list and stops  *)
(* it later; it is rejected when the list shows none.                        *)
BeginStopAny(h, s) ==
  /\ "stopAny" \in Ops
  /\ Known(s)
  /\ sessions[s].status = "ACTIVE"
  /\ Start(h, [at |-> "stop", id |-> s, copy |-> NoSession])
  /\ UNCHANGED <<sessions, listed, credit>>

StopPicked(h) ==
  /\ req[h].at = "stop"
  /\ StopSession(req[h].id)
  /\ Finish(h)
  /\ UNCHANGED <<listed, credit>>

-----------------------------------------------------------------------------
(* A meter reading adds to a copy; the copy is written back later.           *)
(* Mutant: the copy is made active, as a metered session should be.          *)
BeginMeterActive(h, s, kwh) ==
  /\ "meter" \in Ops
  /\ Known(s)
  /\ Start(h, [at |-> "save", id |-> s,
               copy |-> [sessions[s] EXCEPT !.kwh = AddKwh(@, kwh),
                                            !.status = "ACTIVE"]])
  /\ credit' = [credit EXCEPT ![s] = AddKwh(@, kwh)]
  /\ UNCHANGED <<sessions, listed>>

BeginMeter(h, s, kwh) ==
  /\ "meter" \in Ops
  /\ Known(s)
  /\ Start(h, [at |-> "save", id |-> s,
               copy |-> [sessions[s] EXCEPT !.kwh = AddKwh(@, kwh)]])
  /\ credit' = [credit EXCEPT ![s] = AddKwh(@, kwh)]
  /\ UNCHANGED <<sessions, listed>>

(* Mutant: only an end time the client sent ends the session.                *)
PatchedUnended(session, status, kwh, end) ==
  [status |-> status, kwh |-> IF kwh > 0 THEN kwh ELSE session.kwh,
   ended |-> session.ended \/ end]

(* Mutant: the patched energy is added, as a reading would be.               *)
PatchedAdding(session, status, kwh, end) ==
  [status |-> status, kwh |-> AddKwh(session.kwh, kwh),
   ended |-> session.ended \/ end \/ status = "COMPLETED"]

(* The copy after a PATCH; kwh = 0 stands for a PATCH that gives none.       *)
Patched(session, status, kwh, end) ==
  [status |-> status, kwh |-> IF kwh > 0 THEN kwh ELSE session.kwh,
   ended |-> session.ended \/ end \/ status = "COMPLETED"]

(* A PATCH that gives no status is one that gives the copy's own.            *)
BeginPatch(h, s, status, kwh, end) ==
  /\ "patch" \in Ops
  /\ Known(s)
  /\ Start(h, [at |-> "save", id |-> s,
               copy |-> Patched(sessions[s], status, kwh, end)])
  /\ credit' = [credit EXCEPT ![s] = MaxOf(@, kwh)]
  /\ UNCHANGED <<sessions, listed>>

Save(h) ==
  /\ req[h].at = "save"
  /\ UpdateSession(req[h].id, req[h].copy)
  /\ Finish(h)
  /\ UNCHANGED <<listed, credit>>

-----------------------------------------------------------------------------
(* The meter loop lists the sessions and then adds 0.2 kWh to the copy of    *)
(* each active one, in map order, and writes the copy back.                  *)
Tick ==
  /\ "tick" \in Ops
  /\ \A s \in Ids : listed[s] = NoSession
  /\ \E s \in Ids : Known(s) /\ sessions[s].status = "ACTIVE"
  /\ listed' = [s \in Ids |->
                  IF Known(s) /\ sessions[s].status = "ACTIVE" THEN sessions[s]
                                                              ELSE NoSession]
  /\ UNCHANGED <<sessions, req, credit>>

Meter(s) ==
  /\ listed[s] # NoSession
  /\ UpdateSession(s, [listed[s] EXCEPT !.kwh = AddKwh(@, 1)])
  /\ listed' = [listed EXCEPT ![s] = NoSession]
  /\ credit' = [credit EXCEPT ![s] = AddKwh(@, 1)]
  /\ UNCHANGED req
-----------------------------------------------------------------------------
PatchTo(h, s, status) ==
  \E kwh \in Readings \cup {0}, end \in BOOLEAN :
    BeginPatch(h, s, status, kwh, end)

Next ==
  \/ \E s \in Ids : StartSession(s) \/ CreateSession(s) \/ StopById(s)
  \/ \E h \in Handlers :
       \/ \E s \in Ids :
            \/ BeginStopAny(h, s)
            \/ \E kwh \in Readings : BeginMeter(h, s, kwh)
            \/ \E status \in Statuses : PatchTo(h, s, status)
       \/ StopPicked(h)
       \/ Save(h)
  \/ Tick
  \/ \E s \in Ids : Meter(s)

Spec == Init /\ [][Next]_vars
-----------------------------------------------------------------------------
TypeOK ==
  /\ sessions \in [Ids -> Session \cup {NoSession}]
  /\ req \in [Handlers -> Request]
  /\ \A h \in Handlers : req[h].at = "save" => req[h].copy \in Session
  /\ listed \in [Ids -> Session \cup {NoSession}]
  /\ credit \in [Ids -> Nat]

(* The copies of s that a request or the loop is going to write back.        *)
InFlight(s) ==
  {req[h].copy : h \in {g \in Handlers : req[g].at = "save" /\ req[g].id = s}}
    \cup ({listed[s]} \ {NoSession})

(* No interleaving of meter readings, patches, stops and loop ticks counts   *)
(* energy twice: whatever the store or a copy on its way back to it shows,   *)
(* somebody reported (handlers_api.go:167-168, handlers_ocpi.go:206-207,     *)
(* app.go:108-109).  Lost updates only ever lose energy.                     *)
EnergyNeverInvented ==
  \A s \in Ids :
    /\ Known(s) => sessions[s].kwh <= credit[s]
    /\ \A copy \in InFlight(s) : copy.kwh <= credit[s]

(* Its inductive strengthening: credit saturates at the bound too.           *)
EnergyInv == EnergyNeverInvented /\ \A s \in Ids : credit[s] <= MaxKwh

(* A completed session has an end time, in the store and in every copy that  *)
(* may overwrite it, whichever of the three ways ended it (store.go:188-189, *)
(* handlers_ocpi.go:203-214): an OCPI client never reads a COMPLETED session *)
(* without end_datetime.                                                     *)
CompletedHasEnd ==
  \A s \in Ids :
    /\ Known(s) /\ sessions[s].status = "COMPLETED" => sessions[s].ended
    /\ \A copy \in InFlight(s) : copy.status = "COMPLETED" => copy.ended

(* A session is over for good once it is completed and no copy taken before  *)
(* is still to be written back.                                              *)
Over(s) ==
  /\ Known(s) /\ sessions[s].status = "COMPLETED"
  /\ \A copy \in InFlight(s) : copy.status = "COMPLETED"

(* Only a client that names the session in a POST, or another status in a    *)
(* PATCH, can undo that; a meter reading, a tick or a second stop cannot.    *)
(* This bounds the window in which a stop can be lost: it closes as soon as  *)
(* the copies read before the stop have been written.                        *)
OverIsFinal ==
  [][\A s \in Ids : Over(s) =>
       \/ Over(s)'
       \/ CreateSession(s)
       \/ \E h \in Handlers, status \in Statuses \ {"COMPLETED"} :
            PatchTo(h, s, status)]_vars

(* A session that was stopped ("session_stopped", handlers_api.go:148) stays *)
(* stopped while clients neither patch nor re-create it.  Expected to be     *)
(* violated: the meter loop writes back the copy it listed before the stop.  *)
StoppedStaysStopped ==
  [][\A s \in Ids :
       Known(s) /\ sessions[s].status = "COMPLETED"
         => sessions'[s].status = "COMPLETED"]_vars
=============================================================================
