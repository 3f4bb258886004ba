---------------------------- MODULE OcppEndpoint -----------------------------
(* The OCPP WebSocket endpoint: handleOCPP in internal/app/handlers_ocpp.go  *)
(* over Conn of internal/ws/conn.go.  A connection has one goroutine, which  *)
(* reads a frame, answers it and reads the next.  For a BootNotification it  *)
(* looks for the charger of that identity in the fleet and then, in a second *)
(* critical section, in the legacy registry, both of which other requests    *)
(* change meanwhile; then it answers and announces the boot.                 *)
(*                                                                           *)
(* A frame is what the goroutine makes of it: "boot", a text that is a call  *)
(* BootNotification; "other", any other text (a first fragment too: FIN is   *)
(* not looked at); "skip", a continuation, binary or pong frame; "ping";     *)
(* "close".                                                                  *)
EXTENDS Frames, FiniteSets

CONSTANTS
  Conns,       \* connections
  FleetIds,    \* charger ids of the fleet
  LegacyIds,   \* charger ids of the legacy registry
  Identities,  \* OCPP identities, charge point ids
  Lengths,     \* lengths of frames to check
  MaxFrames,   \* bound: frames a peer sends on one connection
  Nobody       \* no charger has this id

Frame == {"boot", "other", "skip", "ping", "close"}

ASSUME EndpointAssumption ==
  /\ MaxFrames \in Nat
  /\ \A n \in Lengths : n \in Nat /\ n <= 2147483647
  /\ Nobody \notin Identities

VARIABLES
  fleet,      \* the identity of each fleet charger, fleet.Store.chargers
  legacy,     \* the charge point id of each legacy charger, store.Store.chargers
  at,         \* where the goroutine of a connection is
  identity,   \* chargePointID, from the URL
  name,       \* chargerID, the charger it found
  inbox,      \* frames sent to it and not read yet
  link,       \* the TCP connection
  sent,       \* history: frames the peer sent
  out,        \* history: frames written while the link was up
  said,       \* history: boot_notification events published
  always,     \* history: ever since the boot at hand was read, some fleet
              \* charger has had the identity
  bearers     \* history: chargers that have had the identity since then

registries == <<fleet, legacy, always, bearers>>
peerVars == <<inbox, link, sent>>
vars == <<registries, peerVars, at, identity, name, out, said>>

Fleet(reg, id) == {f \in FleetIds : reg[f] = id}
Legacy(reg, id) == {l \in LegacyIds : reg[l] = id}

Init ==
  /\ fleet = [f \in FleetIds |-> Nobody]
  /\ legacy = [l \in LegacyIds |-> Nobody]
  /\ at = [k \in Conns |-> "none"]
  /\ identity \in [Conns -> Identities]
  /\ name = [k \in Conns |-> Nobody]
  /\ inbox = [k \in Conns |-> <<>>]
  /\ link = [k \in Conns |-> "up"]
  /\ sent = [k \in Conns |-> <<>>]
  /\ out = [k \in Conns |-> <<>>]
  /\ said = [k \in Conns |-> 0]
  /\ always = [k \in Conns |-> FALSE]
  /\ bearers = [k \in Conns |-> {}]
-----------------------------------------------------------------------------
(* Other requests.                                                           *)
Registries(newFleet, newLegacy) ==
  /\ fleet' = newFleet /\ legacy' = newLegacy
  /\ always' = [k \in Conns |-> always[k] /\ Fleet(newFleet, identity[k]) # {}]
  /\ bearers' = [k \in Conns |->
                   IF at[k] \in {"find", "legacy", "reply", "emit"}
                   THEN bearers[k] \cup Fleet(newFleet, identity[k])
                                   \cup Legacy(newLegacy, identity[k])
                   ELSE {}]
  /\ UNCHANGED <<peerVars, at, identity, name, out, said>>

(* Create, delete, or write back a copy of a deleted and re-created charger. *)
(* Several chargers may have one identity.                                   *)
ChangeFleet(f) ==
  \E id \in (Identities \cup {Nobody}) \ {fleet[f]} :
    Registries([fleet EXCEPT ![f] = id], legacy)

(* Create, which replaces a charger of the same id, or delete.               *)
ChangeLegacy(l) ==
  \E id \in (Identities \cup {Nobody}) \ {legacy[l]} :
    Registries(fleet, [legacy EXCEPT ![l] = id])
-----------------------------------------------------------------------------
(* The peer.                                                                 *)
Send(k, frame) ==
  /\ at[k] # "none" /\ link[k] = "up" /\ Len(sent[k]) < MaxFrames
  /\ inbox' = [inbox EXCEPT ![k] = Append(@, frame)]
  /\ sent' = [sent EXCEPT ![k] = Append(@, frame)]
  /\ UNCHANGED <<registries, link, at, identity, name, out, said>>

PeerGone(k) ==
  /\ at[k] # "none" /\ link[k] = "up"
  /\ link' = [link EXCEPT ![k] = "down"]
  /\ UNCHANGED <<registries, inbox, sent, at, identity, name, out, said>>
-----------------------------------------------------------------------------
(* The goroutine of a connection.                                            *)
Goto(k, point) == at' = [at EXCEPT ![k] = point]

Upgrade(k) ==
  /\ at[k] = "none"
  /\ Goto(k, "read")
  /\ UNCHANGED <<registries, peerVars, identity, name, out, said>>

(* Mutant: the connection is not closed.                                     *)
ReturnOpen(k) == Goto(k, "closed") /\ UNCHANGED link

(* The handler returns, and its deferred Close takes the link down.          *)
Return(k) ==
  /\ Goto(k, "closed")
  /\ link' = [link EXCEPT ![k] = "down"]

(* ReadText, and what parseOCPPCall makes of the text.                       *)
Read(k, frame) ==
  /\ at[k] = "read" /\ inbox[k] # <<>> /\ Head(inbox[k]) = frame
  /\ inbox' = [inbox EXCEPT ![k] = Tail(@)]
  /\ UNCHANGED <<fleet, legacy, sent, identity, name, out, said>>

ReadBoot(k) ==
  /\ Read(k, "boot")
  /\ Goto(k, "find")
  /\ always' = [always EXCEPT ![k] = Fleet(fleet, identity[k]) # {}]
  /\ bearers' = [bearers EXCEPT ![k] = Fleet(fleet, identity[k])
                                         \cup Legacy(legacy, identity[k])]
  /\ UNCHANGED link

Ignore(k) ==
  /\ Read(k, "other") \/ Read(k, "skip")
  /\ UNCHANGED <<at, link, always, bearers>>

ReadPing(k) ==
  /\ Read(k, "ping")
  /\ Goto(k, "pong")
  /\ UNCHANGED <<link, always, bearers>>

ReadClose(k) ==
  /\ Read(k, "close")
  /\ Return(k)
  /\ UNCHANGED <<always, bearers>>

(* Mutant: the next frame is tried.                                          *)
ReadFailRetry(k) ==
  /\ at[k] = "read" /\ link[k] = "down"
  /\ Goto(k, "read")
  /\ UNCHANGED <<registries, peerVars, identity, name, out, said>>

(* The link is down: what is left in the inbox may or may not be read.       *)
ReadFail(k) ==
  /\ at[k] = "read" /\ link[k] = "down"
  /\ Return(k)
  /\ UNCHANGED <<registries, inbox, sent, identity, name, out, said>>

Found(k, id, point) ==
  /\ Goto(k, point)
  /\ name' = [name EXCEPT ![k] = id]
  /\ UNCHANGED <<registries, peerVars, identity, out, said>>

(* Mutant: the legacy registry takes precedence.                             *)
FindByLegacyIdentity(k) ==
  /\ at[k] = "find"
  /\ \/ \E l \in Legacy(legacy, identity[k]) : Found(k, l, "reply")
     \/ Legacy(legacy, identity[k]) = {} /\ \E f \in Fleet(fleet, identity[k]) :
                                              Found(k, f, "reply")
     \/ Legacy(legacy, identity[k]) = {} /\ Fleet(fleet, identity[k]) = {}
          /\ Found(k, identity[k], "reply")

(* The first charger of that identity in the order of the map.               *)
FindByOCPPIdentity(k) ==
  /\ at[k] = "find"
  /\ \/ \E f \in Fleet(fleet, identity[k]) : Found(k, f, "reply")
     \/ Fleet(fleet, identity[k]) = {} /\ Found(k, Nobody, "legacy")

(* Mutant: an unknown charge point gets no answer.                           *)
FindOrDrop(k) ==
  /\ at[k] = "legacy"
  /\ \/ \E l \in Legacy(legacy, identity[k]) : Found(k, l, "reply")
     \/ Legacy(legacy, identity[k]) = {} /\ Found(k, Nobody, "read")

(* A charge point that nobody knows is named by its identity.                *)
FindChargerByChargePointID(k) ==
  /\ at[k] = "legacy"
  /\ \/ \E l \in Legacy(legacy, identity[k]) : Found(k, l, "reply")
     \/ Legacy(legacy, identity[k]) = {} /\ Found(k, identity[k], "reply")

(* A frame is written: onto a link that is down, it is lost.                 *)
Written(k, frame) ==
  out' = IF link[k] = "up" THEN [out EXCEPT ![k] = Append(@, frame)] ELSE out

(* Mutant: a reply that cannot be written ends the handler.                  *)
WriteTextOrReturn(k) ==
  /\ at[k] = "reply"
  /\ \/ link[k] = "up" /\ Written(k, "accepted") /\ Goto(k, "emit") /\ UNCHANGED link
     \/ link[k] = "down" /\ Return(k) /\ UNCHANGED out
  /\ UNCHANGED <<registries, inbox, sent, identity, name, said>>

(* An error of WriteText is ignored.                                         *)
WriteText(k) ==
  /\ at[k] = "reply"
  /\ Written(k, "accepted")
  /\ Goto(k, "emit")
  /\ UNCHANGED <<registries, peerVars, identity, name, said>>

EmitEvent(k) ==
  /\ at[k] = "emit"
  /\ said' = [said EXCEPT ![k] = @ + 1]
  /\ name' = [name EXCEPT ![k] = Nobody]
  /\ always' = [always EXCEPT ![k] = FALSE]
  /\ bearers' = [bearers EXCEPT ![k] = {}]
  /\ Goto(k, "read")
  /\ UNCHANGED <<fleet, legacy, peerVars, identity, out>>

(* An error of writeControlFrame ends the handler.                           *)
Pong(k) ==
  /\ at[k] = "pong"
  /\ \/ Written(k, "pong") /\ Goto(k, "read") /\ UNCHANGED link
     \/ link[k] = "down" /\ Return(k) /\ UNCHANGED out
  /\ UNCHANGED <<registries, inbox, sent, identity, name, said>>
-----------------------------------------------------------------------------
(* Steps that wait for nobody: there is a frame, or the link is down, or the *)
(* step is local.                                                            *)
Handle(k) ==
  \/ ReadBoot(k) \/ Ignore(k) \/ ReadPing(k) \/ ReadClose(k) \/ ReadFail(k)
  \/ FindByOCPPIdentity(k) \/ FindChargerByChargePointID(k) \/ EmitEvent(k)

WriteFrame(k) == WriteText(k) \/ Pong(k)

Next ==
  \/ \E f \in FleetIds : ChangeFleet(f)
  \/ \E l \in LegacyIds : ChangeLegacy(l)
  \/ \E k \in Conns :
       \/ Upgrade(k) \/ Handle(k) \/ WriteFrame(k)
       \/ \E frame \in Frame : Send(k, frame)
       \/ PeerGone(k)

Spec == Init /\ [][Next]_vars

(* Goroutines are scheduled.  A write to a peer that does not read may block *)
(* for ever; once the link is down it returns.                               *)
Fairness ==
  \A k \in Conns :
    /\ WF_vars(Handle(k))
    /\ WF_vars(WriteFrame(k) /\ link[k] = "down")

FairSpec == Spec /\ Fairness
-----------------------------------------------------------------------------
Busy == {"find", "legacy", "reply", "pong"}

(* How many frames k has dealt with.                                         *)
Handled(k) == Len(sent[k]) - Len(inbox[k]) - IF at[k] \in Busy THEN 1 ELSE 0

Asking == {"boot", "ping"}

(* Where the first n frames have one of these kinds.                         *)
Positions(frames, kinds, n) == {i \in 1..n : frames[i] \in kinds}

(* The answers are those to the first n frames, the m-th to the m-th that    *)
(* asks for one.                                                             *)
Answered(frames, n, answers) ==
  /\ Len(answers) = Cardinality(Positions(frames, Asking, n))
  /\ \A i \in Positions(frames, Asking, n) :
       answers[Cardinality(Positions(frames, Asking, i))]
         = IF frames[i] = "boot" THEN "accepted" ELSE "pong"

(* The boots that k has dealt with, and those that it announced or is about  *)
(* to announce.                                                              *)
Boots(k) == Cardinality(Positions(sent[k], {"boot"}, Handled(k)))
Announced(k) == said[k] + IF at[k] = "emit" THEN 1 ELSE 0

(* A goroutine that is done has closed its connection.                       *)
TypeOK ==
  /\ fleet \in [FleetIds -> Identities \cup {Nobody}]
  /\ legacy \in [LegacyIds -> Identities \cup {Nobody}]
  /\ at \in [Conns -> {"none", "read", "emit", "closed"} \cup Busy]
  /\ identity \in [Conns -> Identities]
  /\ name \in [Conns -> FleetIds \cup LegacyIds \cup Identities \cup {Nobody}]
  /\ inbox \in [Conns -> Seq(Frame)] /\ sent \in [Conns -> Seq(Frame)]
  /\ link \in [Conns -> {"up", "down"}]
  /\ out \in [Conns -> Seq({"accepted", "pong"})]
  /\ said \in [Conns -> Nat]
  /\ always \in [Conns -> BOOLEAN]
  /\ bearers \in [Conns -> SUBSET (FleetIds \cup LegacyIds)]
  /\ \A k \in Conns : at[k] = "closed" => link[k] = "down"

(* As long as the connection lasts its peer gets one answer to each boot and *)
(* each ping, in the order it sent them, whatever the registries hold; and   *)
(* each boot is announced to the event stream once, after its answer, even   *)
(* if the connection broke before that could be written, whose error is      *)
(* ignored (handlers_ocpp.go:33-68, conn.go:18-38).                          *)
AnswersInOrder ==
  \A k \in Conns :
    /\ link[k] = "up" => Answered(sent[k], Handled(k), out[k])
    /\ Announced(k) = Boots(k)

(* The charger that a boot is announced for had the identity at some moment  *)
(* since the boot was read, or nobody is named but the identity itself; and  *)
(* if there was one in the fleet all the time, not necessarily the same, it  *)
(* is one of the fleet, although the two registries are looked at one after  *)
(* the other (handlers_ocpp.go:45-50).                                       *)
BootNamesBearer ==
  \A k \in Conns : at[k] \in {"reply", "emit"} =>
    /\ name[k] \in bearers[k] \cup {identity[k]}
    /\ always[k] => name[k] \in bearers[k] \cap FleetIds

(* The frame a handler is about to write, a reply as long as the unique id   *)
(* it returns makes it or a pong with the payload of the ping, is read by    *)
(* the peer with the length it was written with; so are the peer's masked    *)
(* frames (frame.go:20-36, 68-90, 105-112).                                  *)
FramesReadBack ==
  \A k \in Conns : at[k] \in {"reply", "pong"} => \A n \in Lengths : ReadsBack(n)

(* A connection that is down is given up: its goroutine does not outlive it  *)
(* for long (handlers_ocpp.go:29-37).                                        *)
BrokenEnds ==
  \A k \in Conns :
    at[k] # "none" /\ link[k] = "down" ~> at[k] = "closed"
=============================================================================
