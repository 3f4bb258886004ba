------------------------------ MODULE EventHub ------------------------------
(* The fleet's event stream over SSE: EventHub of internal/fleet/events.go   *)
(* and the handlers of GET /api/v1/events/stream (handleEventStream in       *)
(* internal/app/handlers_fleet.go), with the counters of Metrics.tla that    *)
(* the hub updates and GET /stats reads.                                     *)
(*                                                                           *)
(* Subscribe and Unsubscribe take the hub's lock for one step.  The hub's    *)
(* goroutine holds its read lock while it offers an event to every           *)
(* subscriber; nobody else changes the map or adds to a channel then, so the *)
(* round is one step.  An event is the number of its publication, and its    *)
(* charger is the number modulo 2: a subscriber may filter by charger.       *)
EXTENDS Metrics, Sequences, Functions

CONSTANTS
  Subscribers,   \* requests to the stream
  BroadcastCap,  \* capacity of EventHub.broadcast (512 in the code)
  ChannelCap,    \* capacity of a subscriber's channel (32 in the code)
  MaxEvents      \* bound: events published

ASSUME EventHubAssumption ==
  /\ BroadcastCap \in Nat \ {0}
  /\ ChannelCap \in Nat \ {0}
  /\ MaxEvents \in Nat

VARIABLES
  hub,         \* the hub goroutine: at its select, before recording, or before
               \* the round for the event it holds; done once it was stopped
  broadcast,   \* the buffer of EventHub.broadcast
  events,      \* events published so far
  clients,     \* EventHub.clients
  handler,     \* the handler of each subscriber
  filter,      \* the chargers whose events it asked for
  channel,     \* the buffer of its channel
  open,        \* its channel is not closed
  peer,        \* what its peer does; once gone, its request's context is done
  hand,        \* the event its handler is writing
  queued,      \* history: the events that the hub put into its channel
  got          \* history: the events written to it

hubVars == <<hub, broadcast, events>>
subVars == <<handler, filter, open, peer, hand, got>>
vars == <<metricsVars, hubVars, clients, channel, queued, subVars>>

Init ==
  /\ NewMetrics
  /\ hub = [at |-> "select", event |-> 0]
  /\ broadcast = <<>> /\ events = 0
  /\ clients = {}
  /\ handler = [c \in Subscribers |-> "none"]
  /\ filter = [c \in Subscribers |-> {0, 1}]
  /\ channel = [c \in Subscribers |-> <<>>]
  /\ open = [c \in Subscribers |-> TRUE]
  /\ peer = [c \in Subscribers |-> "reading"]
  /\ hand = [c \in Subscribers |-> <<>>]
  /\ queued = [c \in Subscribers |-> {}]
  /\ got = [c \in Subscribers |-> <<>>]
-----------------------------------------------------------------------------
(* Mutant: the buffer grows as needed.                                       *)
PublishUnbounded ==
  /\ events < MaxEvents
  /\ events' = events + 1
  /\ broadcast' = Append(broadcast, events + 1)
  /\ UNCHANGED <<metricsVars, hub, clients, channel, queued, subVars>>

Publish ==
  /\ events < MaxEvents
  /\ events' = events + 1
  /\ broadcast' = IF Len(broadcast) < BroadcastCap
                  THEN Append(broadcast, events + 1) ELSE broadcast
  /\ UNCHANGED <<metricsVars, hub, clients, channel, queued, subVars>>

(* The hub goroutine.                                                        *)
Stop ==
  /\ hub.at = "select"
  /\ hub' = [at |-> "done", event |-> 0]
  /\ UNCHANGED <<metricsVars, broadcast, events, clients, channel, queued, subVars>>

Receive ==
  /\ hub.at = "select" /\ broadcast # <<>>
  /\ hub' = [at |-> "record", event |-> Head(broadcast)]
  /\ broadcast' = Tail(broadcast)
  /\ UNCHANGED <<metricsVars, events, clients, channel, queued, subVars>>

Record ==
  /\ hub.at = "record"
  /\ RecordOut
  /\ hub' = [hub EXCEPT !.at = "round"]
  /\ UNCHANGED <<broadcast, events, clients, channel, queued, subVars>>

(* The event at hand goes to the subscribers in room, and the hub is back at *)
(* its select.                                                               *)
Offer(room) ==
  /\ channel' = [c \in Subscribers |-> IF c \in room THEN Append(channel[c], hub.event)
                                       ELSE channel[c]]
  /\ queued' = [c \in Subscribers |-> queued[c] \cup
                                        IF c \in room THEN {hub.event} ELSE {}]
  /\ hub' = [at |-> "select", event |-> 0]
  /\ UNCHANGED <<metricsVars, broadcast, events, clients, subVars>>

HasRoom(c) == Len(channel[c]) < ChannelCap

(* Mutant: the hub waits for room in every channel.                          *)
RoundBlocking ==
  /\ hub.at = "round"
  /\ \A c \in clients : HasRoom(c)
  /\ Offer(clients)

(* Every subscriber whose channel has room gets the event.                   *)
Round ==
  /\ hub.at = "round"
  /\ Offer({c \in clients : HasRoom(c)})

(* GET /stats.                                                               *)
Stats == RatePerSec /\ UNCHANGED <<hubVars, clients, channel, queued, subVars>>

Second == Pass /\ UNCHANGED <<hubVars, clients, channel, queued, subVars>>
-----------------------------------------------------------------------------
(* A subscriber's handler.                                                   *)
Move(c, from, to) ==
  handler[c] = from /\ handler' = [handler EXCEPT ![c] = to]

Subscribe(c, chargers) ==
  /\ Move(c, "none", "waiting")
  /\ clients' = clients \cup {c}
  /\ filter' = [filter EXCEPT ![c] = chargers]
  /\ UNCHANGED <<metricsVars, hubVars, channel, queued, open, peer, hand, got>>

Wanted(c, event) == event % 2 \in filter[c]

(* Mutant: an event of another charger ends the handler's turn with it.      *)
TakeUnfiltered(c) ==
  /\ Move(c, "waiting", "writing")
  /\ channel[c] # <<>>
  /\ channel' = [channel EXCEPT ![c] = Tail(@)]
  /\ hand' = [hand EXCEPT ![c] = <<Head(channel[c])>>]
  /\ UNCHANGED <<metricsVars, hubVars, clients, queued, filter, open, peer, got>>

(* The next event is taken, and written unless the filter skips it.          *)
Take(c) ==
  LET event == Head(channel[c])
      wanted == Wanted(c, event) IN
  /\ channel[c] # <<>>
  /\ Move(c, "waiting", IF wanted THEN "writing" ELSE "waiting")
  /\ channel' = [channel EXCEPT ![c] = Tail(@)]
  /\ hand' = [hand EXCEPT ![c] = IF wanted THEN <<event>> ELSE <<>>]
  /\ UNCHANGED <<metricsVars, hubVars, clients, queued, filter, open, peer, got>>

(* A write blocks while the peer does not read; the error of one to a peer   *)
(* that is gone is ignored.                                                  *)
Write(c) ==
  /\ Move(c, "writing", "waiting")
  /\ peer[c] # "stalled"
  /\ got' = IF peer[c] = "reading" THEN [got EXCEPT ![c] = @ \o hand[c]] ELSE got
  /\ hand' = [hand EXCEPT ![c] = <<>>]
  /\ UNCHANGED <<metricsVars, hubVars, clients, channel, queued, filter, open, peer>>

(* The peer stops reading, reads on, or closes the connection.               *)
PeerChange(c, to) ==
  /\ handler[c] \in {"waiting", "writing"}
  /\ peer[c] # "gone" /\ peer[c] # to
  /\ peer' = [peer EXCEPT ![c] = to]
  /\ UNCHANGED <<metricsVars, hubVars, clients, channel, queued, handler, filter,
                 open, hand, got>>

(* Mutant: the channel is closed before it leaves the map.                   *)
UnsubscribeClosing(c) ==
  /\ peer[c] = "gone"
  /\ Move(c, "waiting", "closing")
  /\ open' = [open EXCEPT ![c] = FALSE]
  /\ UNCHANGED <<metricsVars, hubVars, clients, channel, queued, filter, peer,
                 hand, got>>

(* The request ends and the deferred Unsubscribe runs: the channel leaves    *)
(* the map, and is closed after the lock was released.                       *)
Unsubscribe(c) ==
  /\ peer[c] = "gone"
  /\ Move(c, "waiting", "closing")
  /\ clients' = clients \ {c}
  /\ UNCHANGED <<metricsVars, hubVars, channel, queued, filter, open, peer, hand,
                 got>>

CloseChannel(c) ==
  /\ Move(c, "closing", "done")
  /\ open' = [open EXCEPT ![c] = FALSE]
  /\ UNCHANGED <<metricsVars, hubVars, clients, channel, queued, filter, peer,
                 hand, got>>
-----------------------------------------------------------------------------
Next ==
  \/ Publish \/ Stop \/ Receive \/ Record \/ Round \/ Stats \/ Second
  \/ \E c \in Subscribers :
       \/ \E chargers \in {{0, 1}, {0}} : Subscribe(c, chargers)
       \/ \E to \in {"reading", "stalled", "gone"} : PeerChange(c, to)
       \/ Take(c) \/ Write(c) \/ Unsubscribe(c) \/ CloseChannel(c)

Spec == Init /\ [][Next]_vars

(* The hub goroutine is scheduled, and select picks a publication that is    *)
(* waiting again and again.  Nobody has to read, subscribe, leave or publish.*)
Fairness == SF_vars(Receive) /\ WF_vars(Record) /\ WF_vars(Round)
FairSpec == Spec /\ Fairness
-----------------------------------------------------------------------------
TypeOK ==
  /\ MetricsTypeOK
  /\ hub \in [at: {"select", "record", "round", "done"}, event: Nat]
  /\ broadcast \in Seq(Nat) /\ Len(broadcast) <= BroadcastCap
  /\ events \in Nat
  /\ clients \in SUBSET Subscribers
  /\ handler \in [Subscribers -> {"none", "waiting", "writing", "closing", "done"}]
  /\ filter \in [Subscribers -> SUBSET {0, 1}]
  /\ channel \in [Subscribers -> Seq(Nat)]
  /\ \A c \in Subscribers : Len(channel[c]) <= ChannelCap
  /\ open \in [Subscribers -> BOOLEAN]
  /\ peer \in [Subscribers -> {"reading", "stalled", "gone"}]
  /\ hand \in [Subscribers -> Seq(Nat)]
  /\ queued \in [Subscribers -> SUBSET Nat]
  /\ got \in [Subscribers -> Seq(Nat)]

(* The hub sends only to open channels, although Unsubscribe closes one      *)
(* outside the lock (events.go:31-36, 57-62): it could panic otherwise.      *)
HubSendsToOpen == \A c \in clients : open[c]

Ascending(s) == \A i, j \in DOMAIN s : i < j => s[i] < s[j]

(* While its peer is there, a subscriber has been written, or is being       *)
(* written, in the order of publication and none of them twice, exactly      *)
(* those events of the chargers it asked for that the hub queued and that    *)
(* are not in its channel any more (handlers_fleet.go:957-969).              *)
StreamIntact ==
  \A c \in Subscribers : peer[c] # "gone" =>
    LET written == got[c] \o hand[c] IN
    /\ Ascending(written)
    /\ Range(written) = {e \in queued[c] \ Range(channel[c]) : Wanted(c, e)}

Buffered(event) == \E i \in DOMAIN broadcast : broadcast[i] = event

(* A peer that does not read its stream never holds up the others: every     *)
(* event that was buffered is handed on, unless the process is stopping      *)
(* (events.go:28-37).                                                        *)
HandedOn ==
  \A event \in 1..MaxEvents :
    Buffered(event)
      ~> hub.at = "done" \/ (~Buffered(event) /\ hub.event # event)
=============================================================================
