-------------------------------- MODULE WsHub --------------------------------
(* The WebSocket event stream: the hub goroutine of internal/ws/hub.go, the  *)
(* reading and the writing goroutine of every client in internal/ws/client.go*)
(* and the goroutines that broadcast (App.emitEvent, App.emitFleetEvent).    *)
(*                                                                           *)
(* register and unregister are unbuffered channels: a client goroutine that  *)
(* sends on one waits for the hub, so the two take the step together.        *)
(* broadcast and every client's send are buffered, and sends on them give up *)
(* when the buffer is full.  An event is the number of its broadcast.        *)
EXTENDS Integers, Sequences, FiniteSets

CONSTANTS
  Clients,        \* connections to GET /ws
  BroadcastCap,   \* capacity of Hub.broadcast (128 in the code)
  SendCap,        \* capacity of Client.send (64 in the code)
  MaxEvents,      \* bound: events broadcast
  Pingers         \* bound: the clients whose peers send pings

ASSUME WsHubAssumption ==
  /\ BroadcastCap \in Nat \ {0}
  /\ SendCap \in Nat \ {0}
  /\ MaxEvents \in Nat
  /\ Pingers \in SUBSET Clients

VARIABLES
  hub,          \* the hub goroutine: running or done
  cancelled,    \* ctx of StartBackground is done
  clients,      \* Hub.clients
  broadcast,    \* the buffer of Hub.broadcast
  events,       \* events broadcast so far
  reader,       \* the request goroutine of each client: Run, then readLoop
  writer,       \* its writeLoop goroutine
  frame,        \* what the writing goroutine is writing
  send,         \* the buffer of Client.send
  open,         \* Client.send is not closed
  link,         \* neither side has closed the connection
  garbled,      \* two goroutines wrote to the connection at once
  failed,       \* its bufio.Writer holds an error: every later write returns it
  queued,       \* history: what the hub put into Client.send
  got           \* history: the events written to the connection

hubVars    == <<hub, cancelled, clients, broadcast, events>>
chanVars   == <<send, open, queued>>
bufVars    == <<garbled, failed>>
connVars   == <<reader, writer, frame, link, bufVars, got>>
vars == <<hubVars, chanVars, connVars>>

Init ==
  /\ hub = "running" /\ cancelled = FALSE
  /\ clients = {} /\ broadcast = <<>> /\ events = 0
  /\ reader = [c \in Clients |-> "none"]
  /\ writer = [c \in Clients |-> "none"]
  /\ frame = [c \in Clients |-> 0]
  /\ send = [c \in Clients |-> <<>>]
  /\ open = [c \in Clients |-> TRUE]
  /\ link = [c \in Clients |-> TRUE]
  /\ garbled = [c \in Clients |-> FALSE]
  /\ failed = [c \in Clients |-> FALSE]
  /\ queued = [c \in Clients |-> <<>>]
  /\ got = [c \in Clients |-> <<>>]
-----------------------------------------------------------------------------
(* Mutant: the buffer grows as needed.                                       *)
BroadcastUnbounded ==
  /\ events < MaxEvents
  /\ events' = events + 1
  /\ broadcast' = Append(broadcast, events + 1)
  /\ UNCHANGED <<hub, cancelled, clients, chanVars, connVars>>

(* Broadcasting: dropped when the buffer is full, whoever calls it.          *)
Broadcast ==
  /\ events < MaxEvents
  /\ events' = events + 1
  /\ broadcast' = IF Len(broadcast) < BroadcastCap
                  THEN Append(broadcast, events + 1) ELSE broadcast
  /\ UNCHANGED <<hub, cancelled, clients, chanVars, connVars>>

(* The process is asked to stop.                                             *)
Cancel ==
  /\ ~cancelled
  /\ cancelled' = TRUE
  /\ UNCHANGED <<hub, clients, broadcast, events, chanVars, connVars>>

-----------------------------------------------------------------------------
(* The hub goroutine: one case of its select per action.                     *)
Close(S) ==
  /\ open' = [c \in Clients |-> open[c] /\ c \notin S]
  /\ link' = [c \in Clients |-> link[c] /\ c \notin S]

HubDone ==
  /\ hub = "running" /\ cancelled
  /\ hub' = "done"
  /\ Close(clients)
  /\ UNCHANGED <<cancelled, clients, broadcast, events, send, queued,
                 reader, writer, frame, bufVars, got>>

(* Register returns, Run starts the writing goroutine and goes on reading.   *)
HubRegister(c) ==
  /\ hub = "running"
  /\ reader[c] = "register"
  /\ clients' = clients \cup {c}
  /\ reader' = [reader EXCEPT ![c] = "reading"]
  /\ writer' = [writer EXCEPT ![c] = "waiting"]
  /\ UNCHANGED <<hub, cancelled, broadcast, events, chanVars, frame, link,
                 bufVars, got>>

(* Mutant: the client is closed but stays in the map.                        *)
DropKept(c) ==
  IF c \in clients THEN Close({c}) /\ UNCHANGED clients
                   ELSE UNCHANGED <<clients, open, link>>

(* Mutant: Client.Close closes the channel and not the connection.           *)
DropLinked(c) ==
  IF c \in clients THEN /\ clients' = clients \ {c}
                        /\ open' = [open EXCEPT ![c] = FALSE]
                        /\ UNCHANGED link
                   ELSE UNCHANGED <<clients, open, link>>

(* Only the first of a client's two goroutines to unregister closes it.      *)
Drop(c) ==
  IF c \in clients THEN clients' = clients \ {c} /\ Close({c})
                   ELSE UNCHANGED <<clients, open, link>>

HubUnregister(c) ==
  /\ hub = "running"
  /\ \/ /\ reader[c] = "leaving"
        /\ reader' = [reader EXCEPT ![c] = "done"]
        /\ UNCHANGED writer
     \/ /\ writer[c] = "leaving"
        /\ writer' = [writer EXCEPT ![c] = "done"]
        /\ UNCHANGED reader
  /\ Drop(c)
  /\ UNCHANGED <<hub, cancelled, broadcast, events, send, queued, frame,
                 bufVars, got>>

(* Mutant: send has no buffer and the hub waits for every writing goroutine. *)
HubBroadcastBlocking ==
  /\ hub = "running"
  /\ broadcast # <<>>
  /\ broadcast' = Tail(broadcast)
  /\ \A c \in clients : writer[c] = "waiting" /\ send[c] = <<>>
  /\ send' = [c \in Clients |->
                IF c \in clients THEN Append(send[c], Head(broadcast))
                                 ELSE send[c]]
  /\ queued' = [c \in Clients |->
                IF c \in clients THEN Append(queued[c], Head(broadcast))
                                 ELSE queued[c]]
  /\ UNCHANGED <<hub, cancelled, clients, events, open, connVars>>

(* Every client that has room gets the event.  The goroutine goes from       *)
(* client to client, but no other one adds to send.                          *)
HubBroadcast ==
  LET room == {c \in clients : Len(send[c]) < SendCap}
      Offer(q) == [c \in Clients |-> IF c \in room
                                     THEN Append(q[c], Head(broadcast)) ELSE q[c]]
  IN
  /\ hub = "running"
  /\ broadcast # <<>>
  /\ broadcast' = Tail(broadcast)
  /\ send' = Offer(send)
  /\ queued' = Offer(queued)
  /\ UNCHANGED <<hub, cancelled, clients, events, open, connVars>>

-----------------------------------------------------------------------------
(* A client's two goroutines.                                                *)
(* Both goroutines are writing frames to one bufio.Writer.                   *)
Clash(c) == reader[c] = "ponging" /\ writer[c] = "writing"

(* What the unsynchronised writes then leave on the connection is anything,  *)
(* intact frames included.                                                   *)
MayGarble(c) ==
  \E g \in IF Clash(c) THEN BOOLEAN ELSE {FALSE} :
    garbled' = [garbled EXCEPT ![c] = @ \/ g]

Connect(c) ==
  /\ reader[c] = "none"
  /\ reader' = [reader EXCEPT ![c] = "register"]
  /\ UNCHANGED <<hubVars, chanVars, writer, frame, link, bufVars, got>>

(* The peer's end of the connection is gone, for both goroutines.            *)
PeerGone(c) ==
  /\ reader[c] # "none" /\ link[c]
  /\ link' = [link EXCEPT ![c] = FALSE]
  /\ UNCHANGED <<hubVars, chanVars, reader, writer, frame, bufVars, got>>

ReadPing(c) ==
  /\ c \in Pingers
  /\ reader[c] = "reading" /\ link[c]
  /\ reader' = [reader EXCEPT ![c] = "ponging"]
  /\ UNCHANGED <<hubVars, chanVars, writer, frame, link, bufVars, got>>

Pong(c) ==
  /\ reader[c] = "ponging" /\ link[c] /\ ~failed[c]
  /\ reader' = [reader EXCEPT ![c] = "reading"]
  /\ MayGarble(c)
  /\ UNCHANGED <<hubVars, chanVars, writer, frame, link, failed, got>>

(* A read, or the write of a pong, on a connection that is gone.             *)
ReadFail(c) ==
  /\ reader[c] \in {"reading", "ponging"} /\ ~link[c]
  /\ reader' = [reader EXCEPT ![c] = "leaving"]
  /\ UNCHANGED <<hubVars, chanVars, writer, frame, link, bufVars, got>>

(* A close frame ends the reading; the connection stays up, and whatever the *)
(* writing goroutine is doing goes on.                                       *)
ReadClose(c) ==
  /\ reader[c] = "reading" /\ link[c]
  /\ reader' = [reader EXCEPT ![c] = "leaving"]
  /\ UNCHANGED <<hubVars, chanVars, writer, frame, link, bufVars, got>>

Take(c) ==
  /\ writer[c] = "waiting" /\ send[c] # <<>>
  /\ frame' = [frame EXCEPT ![c] = Head(send[c])]
  /\ send' = [send EXCEPT ![c] = Tail(@)]
  /\ writer' = [writer EXCEPT ![c] = "writing"]
  /\ UNCHANGED <<hubVars, open, queued, reader, link, bufVars, got>>

(* Mutant: a write that was flushed is tried again.                          *)
WriteOkTwice(c) ==
  /\ writer[c] = "writing" /\ link[c] /\ ~failed[c]
  /\ got' = [got EXCEPT ![c] = @ \o <<frame[c], frame[c]>>]
  /\ MayGarble(c)
  /\ frame' = [frame EXCEPT ![c] = 0]
  /\ writer' = [writer EXCEPT ![c] = "waiting"]
  /\ UNCHANGED <<hubVars, chanVars, reader, link, failed>>

(* The frame is flushed, and the range takes the next one.                   *)
Written(c) ==
  /\ got' = [got EXCEPT ![c] = Append(@, frame[c])]
  /\ frame' = [frame EXCEPT ![c] = 0]
  /\ writer' = [writer EXCEPT ![c] = "waiting"]

WriteOk(c) ==
  /\ writer[c] = "writing" /\ link[c] /\ ~failed[c]
  /\ Written(c)
  /\ MayGarble(c)
  /\ UNCHANGED <<hubVars, chanVars, reader, link, failed>>

WriteFail(c) ==
  /\ writer[c] = "writing" /\ ~link[c]
  /\ writer' = [writer EXCEPT ![c] = "leaving"]
  /\ UNCHANGED <<hubVars, chanVars, reader, frame, link, bufVars, got>>

(* Flush finds more in the buffer than it wrote, because the other goroutine *)
(* added to it meanwhile: a short write, kept by the bufio.Writer.  What the *)
(* other goroutine is writing may still succeed.                             *)
ShortWrite(c) ==
  /\ Clash(c) /\ link[c] /\ ~failed[c]
  /\ failed' = [failed EXCEPT ![c] = TRUE]
  /\ MayGarble(c)
  /\ \/ /\ reader' = [reader EXCEPT ![c] = "leaving"]
        /\ Written(c) \/ UNCHANGED <<writer, frame, got>>
     \/ /\ writer' = [writer EXCEPT ![c] = "leaving"]
        /\ \E r \in {"reading", "ponging"} : reader' = [reader EXCEPT ![c] = r]
        /\ UNCHANGED <<frame, got>>
  /\ UNCHANGED <<hubVars, chanVars, link>>

(* A write after a short one, with the connection still up.                  *)
WriteRefused(c) ==
  /\ failed[c] /\ link[c]
  /\ \/ /\ reader[c] = "ponging"
        /\ reader' = [reader EXCEPT ![c] = "leaving"]
        /\ UNCHANGED writer
     \/ /\ writer[c] = "writing"
        /\ writer' = [writer EXCEPT ![c] = "leaving"]
        /\ UNCHANGED reader
  /\ UNCHANGED <<hubVars, chanVars, frame, link, bufVars, got>>

(* The range over the closed and drained channel ends.                       *)
SendClosed(c) ==
  /\ writer[c] = "waiting" /\ send[c] = <<>> /\ ~open[c]
  /\ writer' = [writer EXCEPT ![c] = "leaving"]
  /\ UNCHANGED <<hubVars, chanVars, reader, frame, link, bufVars, got>>
-----------------------------------------------------------------------------
Leave(c) == ReadFail(c) \/ WriteFail(c) \/ SendClosed(c)

Next ==
  \/ Broadcast \/ Cancel
  \/ HubDone \/ HubBroadcast
  \/ \E c \in Clients :
       \/ HubRegister(c) \/ HubUnregister(c)
       \/ Connect(c) \/ PeerGone(c) \/ ReadPing(c) \/ Pong(c)
       \/ ReadClose(c) \/ ShortWrite(c) \/ WriteRefused(c)
       \/ Take(c) \/ WriteOk(c) \/ Leave(c)

Spec == Init /\ [][Next]_vars

(* select picks at random among the ready cases, so none that is ready again *)
(* and again is passed over for ever.  A goroutine whose connection is gone  *)
(* returns from its read or write, and one that can take from send does.     *)
(* Nothing is assumed of peers: a write may stay blocked while the link is   *)
(* up, whatever has happened to the reading, so none of ReadClose,           *)
(* ShortWrite and WriteRefused has to happen; and nobody has to connect, to  *)
(* broadcast or to stop the process.                                         *)
Fairness ==
  /\ SF_vars(HubBroadcast) /\ SF_vars(HubDone)
  /\ \A c \in Clients :
       /\ SF_vars(HubRegister(c)) /\ SF_vars(HubUnregister(c))
       /\ WF_vars(Leave(c)) /\ WF_vars(Take(c))

FairSpec == Spec /\ Fairness
-----------------------------------------------------------------------------
TypeOK ==
  /\ hub \in {"running", "done"}
  /\ cancelled \in BOOLEAN
  /\ clients \in SUBSET Clients
  /\ broadcast \in Seq(Nat) /\ Len(broadcast) <= BroadcastCap
  /\ events \in Nat
  /\ reader \in [Clients -> {"none", "register", "reading", "ponging",
                             "leaving", "done"}]
  /\ writer \in [Clients -> {"none", "waiting", "writing", "leaving", "done"}]
  /\ frame \in [Clients -> Nat]
  /\ send \in [Clients -> Seq(Nat)]
  /\ \A c \in Clients : Len(send[c]) <= SendCap
  /\ open \in [Clients -> BOOLEAN]
  /\ link \in [Clients -> BOOLEAN]
  /\ garbled \in [Clients -> BOOLEAN]
  /\ failed \in [Clients -> BOOLEAN]
  /\ queued \in [Clients -> Seq(Nat)]
  /\ got \in [Clients -> Seq(Nat)]

(* The hub only sends to clients in its map (hub.go:39-41), and their send   *)
(* channel is open: a send on a closed one would panic and end the process.  *)
(* Two goroutines per client race to unregister it, and shutdown closes      *)
(* whoever is left (hub.go:27-36).                                           *)
HubSendsToOpen == hub = "running" => \A c \in clients : open[c]

InHand(c) == IF frame[c] = 0 THEN <<>> ELSE <<frame[c]>>

(* What the hub has put into a client's buffer reaches the connection in     *)
(* that order, once, and nothing is lost between the two goroutines, however *)
(* the client's registration, its end and the hub's shutdown interleave      *)
(* (hub.go:38-41, client.go:40-53).                                         *)
QueueIntact == \A c \in Clients : queued[c] = got[c] \o InHand(c) \o send[c]

Increasing(s) == \A i, j \in DOMAIN s : i < j => s[i] < s[j]

(* A client sees events in the order in which they were broadcast, with gaps *)
(* where a buffer was full, and never one twice; unless a pong was written   *)
(* in the middle of a frame.                                                 *)
EventsInOrder == \A c \in Clients : ~garbled[c] => Increasing(got[c])

Gone(c) == reader[c] = "done" /\ writer[c] = "done" /\ c \notin clients

Breaking(c) ==
  /\ reader[c] # "none"
  /\ ~link[c] \/ reader[c] = "leaving" \/ writer[c] = "leaving"

(* A client whose connection breaks is cleaned up completely, both           *)
(* goroutines and the map entry, whichever of the two notices first and even *)
(* while frames are queued for it; unless the process is stopping.  When a   *)
(* close frame ends the reading (client.go:68-69), or a failed write the     *)
(* writing, with the connection up, only the hub's Close (hub.go:36) frees   *)
(* the other goroutine, which may be blocked on a peer that does not read.   *)
BrokenClientsGo == \A c \in Clients : Breaking(c) ~> Gone(c) \/ cancelled

Buffered(e) == \E i \in DOMAIN broadcast : broadcast[i] = e

(* A peer that does not read never holds up the hub: every queued broadcast  *)
(* is handed on in the end, unless the process is stopping                   *)
(* (client.go:49-53).                                                        *)
BroadcastsDrain ==
  \A e \in 1..MaxEvents : Buffered(e) ~> ~Buffered(e) \/ cancelled
=============================================================================
