--------------------------- MODULE EventHubProofs ---------------------------
(* Theorems about EventHub.tla and the counters of Metrics.tla, for any      *)
(* number of subscribers and events, any capacities and any window.          *)
EXTENDS EventHub, SequenceTheorems, TLAPS

-----------------------------------------------------------------------------
(* The ring of counters.                                                     *)

(* Nothing has been recorded after lastSec, so a slot cleared for a later    *)
(* second holds what was recorded in it.                                     *)
RingInv ==
  /\ now \in Nat /\ lastSec \in Nat
  /\ Window <= lastSec /\ lastSec <= now /\ now <= MaxSec
  /\ seconds \in [Slots -> Nat]
  /\ out \in [0..MaxSec -> Nat]
  /\ RingShowsWindow
  /\ \A s \in (lastSec + 1)..MaxSec : out[s] = 0

(* Every second has a slot.                                                  *)
LEMMA SlotType == \A s \in Int : Slot(s) \in Slots
BY MetricsAssumption DEF Slot, Slots

(* Two seconds less than a window apart have different slots.                *)
LEMMA SlotsApart ==
  ASSUME NEW a \in Int, NEW b \in Int, a < b, b - a < Window
  PROVE  Slot(a) # Slot(b)
<1> DEFINE qa == a \div Window
           qb == b \div Window
<1>1. /\ a = Window * qa + (a % Window) /\ b = Window * qb + (b % Window)
      /\ qa \in Int /\ qb \in Int /\ a % Window \in Int /\ b % Window \in Int
  BY MetricsAssumption
<1>2. SUFFICES ASSUME a % Window = b % Window PROVE FALSE
  BY DEF Slot
<1> HIDE DEF qa, qb
<1>3. b - a = Window * (qb - qa)
  BY <1>1, <1>2, MetricsAssumption
<1>4. qb - qa > 0 => b - a >= Window
  BY <1>1, <1>3, MetricsAssumption
<1>5. qb - qa <= 0 => b - a <= 0
  BY <1>1, <1>3, MetricsAssumption
<1> QED BY <1>1, <1>4, <1>5, MetricsAssumption

(* Brought up to the present second, the ring shows the window that ends     *)
(* with it.                                                                  *)
LEMMA AdvancedShowsWindow ==
  ASSUME RingInv
  PROVE  /\ Advanced(now) \in [Slots -> Nat]
         /\ \A s \in (now - Window + 1)..now : Advanced(now)[Slot(s)] = out[s]
<1> USE MetricsAssumption
<1>1. Advanced(now) \in [Slots -> Nat]
  BY DEF Advanced, RingInv
<1>2. ASSUME NEW s \in (now - Window + 1)..now
      PROVE  Advanced(now)[Slot(s)] = out[s]
  <2>1. s \in Int /\ s \in 1..MaxSec /\ Slot(s) \in Slots
    BY SlotType DEF RingInv
  <2>2. CASE s > lastSec
    <3>1. out[s] = 0
      BY <2>1, <2>2 DEF RingInv
    <3>2. s \in (lastSec + 1)..now
      BY <2>1, <2>2 DEF RingInv
    <3> QED BY <2>1, <3>1, <3>2 DEF Advanced
  <2>3. CASE s <= lastSec
    <3>1. now - lastSec < Window /\ s \in (lastSec - Window + 1)..lastSec
      BY <2>1, <2>3 DEF RingInv
    <3>2. seconds[Slot(s)] = out[s]
      BY <3>1 DEF RingInv, RingShowsWindow
    <3>3. ASSUME NEW r \in (lastSec + 1)..now PROVE Slot(r) # Slot(s)
      <4>1. r \in Int /\ s < r /\ r - s < Window
        BY <2>1, <2>3 DEF RingInv
      <4> QED BY <2>1, <4>1, SlotsApart
    <3>4. ~(now - lastSec >= Window)
      BY <3>1 DEF RingInv
    <3> QED BY <2>1, <3>2, <3>3, <3>4 DEF Advanced
  <2> QED BY <2>1, <2>2, <2>3 DEF RingInv
<1> QED BY <1>1, <1>2

(* A ring that shows the window still does after any operation on it.        *)
LEMMA RingNext ==
  ASSUME RingInv, RecordOut \/ RatePerSec \/ Pass \/ UNCHANGED metricsVars
  PROVE  RingInv'
<1> USE MetricsAssumption
<1>1. CASE RecordOut
  <2> DEFINE ring == Advanced(now)
  <2>1. /\ seconds' = [ring EXCEPT ![Slot(now)] = @ + 1]
        /\ out' = [out EXCEPT ![now] = @ + 1]
        /\ lastSec' = now /\ now' = now
    BY <1>1 DEF RecordOut
  <2>2. /\ ring \in [Slots -> Nat] /\ Slot(now) \in Slots
        /\ \A s \in (now - Window + 1)..now : ring[Slot(s)] = out[s]
    <3>1. now \in Int
      BY DEF RingInv
    <3>2. Slot(now) \in Slots
      BY <3>1, SlotType
    <3> QED BY <3>2, AdvancedShowsWindow
  <2> HIDE DEF ring
  <2>3. seconds' \in [Slots -> Nat] /\ out' \in [0..MaxSec -> Nat]
    BY <2>1, <2>2 DEF RingInv
  <2>4. ASSUME NEW s \in (now - Window + 1)..now
        PROVE  seconds'[Slot(s)] = out'[s]
    <3>1. /\ s \in Int /\ now \in Int /\ s \in 0..MaxSec /\ now \in 0..MaxSec
          /\ Slot(s) \in Slots
      BY SlotType DEF RingInv
    <3>2. CASE s = now
      BY <2>1, <2>2, <3>1, <3>2 DEF RingInv
    <3>3. CASE s # now
      <4>1. s < now /\ now - s < Window
        BY <3>1, <3>3
      <4>2. Slot(s) # Slot(now)
        BY <3>1, <4>1, SlotsApart
      <4> QED BY <2>1, <2>2, <3>1, <3>3, <4>2 DEF RingInv
    <3> QED BY <3>2, <3>3
  <2>5. \A s \in (now + 1)..MaxSec : out'[s] = 0
    BY <2>1 DEF RingInv
  <2> QED BY <2>1, <2>3, <2>4, <2>5 DEF RingInv, RingShowsWindow
<1>2. CASE RatePerSec
  <2>1. /\ seconds' = Advanced(now) /\ lastSec' = now /\ now' = now /\ out' = out
    BY <1>2 DEF RatePerSec
  <2>2. \A s \in (now + 1)..MaxSec : out[s] = 0
    BY DEF RingInv
  <2> QED BY <2>1, <2>2, AdvancedShowsWindow DEF RingInv, RingShowsWindow
<1>3. CASE Pass
  BY <1>3 DEF Pass, RingInv, RingShowsWindow
<1>4. CASE UNCHANGED metricsVars
  BY <1>4 DEF metricsVars, RingInv, RingShowsWindow
<1> QED BY <1>1, <1>2, <1>3, <1>4

(* The hub records, GET /stats reads, time passes, and nothing else touches  *)
(* the counters.                                                             *)
LEMMA CounterSteps ==
  [Next]_vars => RecordOut \/ RatePerSec \/ Pass \/ UNCHANGED metricsVars
BY DEF Next, Publish, Stop, Receive, Record, Round, Offer, Stats, Second, Subscribe,
       PeerChange, Take, Write, Unsubscribe, CloseChannel, vars, metricsVars

(* The counters are empty initially.                                         *)
LEMMA RingInit == NewMetrics => RingInv
<1> SUFFICES ASSUME NewMetrics PROVE RingInv
  OBVIOUS
<1>1. now \in Nat /\ Window <= now /\ now < 2 * Window /\ lastSec = now
  BY MetricsAssumption DEF NewMetrics
<1>2. /\ seconds = [i \in Slots |-> 0] /\ out = [s \in 0..MaxSec |-> 0]
      /\ \A s \in 0..MaxSec : out[s] = 0
  BY DEF NewMetrics
<1>3. ASSUME NEW s \in (now - Window + 1)..now
      PROVE  seconds[Slot(s)] = out[s]
  BY <1>1, <1>2, SlotType, MetricsAssumption
<1> QED BY <1>1, <1>2, <1>3, MetricsAssumption DEF RingInv, RingShowsWindow

(* RingInv is an invariant.                                                  *)
LEMMA EventHubRingInv == Spec => []RingInv
<1>1. Init => RingInv
  BY RingInit DEF Init
<1> QED BY <1>1, CounterSteps, RingNext, PTL DEF Spec

(* The counters show exactly the last Window seconds, for every window and   *)
(* every sequence of gaps between the operations on them.                    *)
THEOREM EventHubRing == Spec => []RingShowsWindow
<1>1. RingInv => RingShowsWindow
  BY DEF RingInv
<1> QED BY <1>1, EventHubRingInv, PTL

-----------------------------------------------------------------------------
(* No send on a closed channel.                                              *)

(* A channel is closed after its subscriber has left the map, and a          *)
(* subscriber subscribes once.                                               *)
ChannelsOpen ==
  /\ handler \in [Subscribers -> {"none", "waiting", "writing", "closing", "done"}]
  /\ open \in [Subscribers -> BOOLEAN]
  /\ \A c \in Subscribers :
       /\ handler[c] # "done" => open[c]
       /\ c \in clients => handler[c] \in {"waiting", "writing"}
  /\ clients \subseteq Subscribers

(* ChannelsOpen is inductive.                                                *)
LEMMA ChannelsOpenNext == ChannelsOpen /\ [Next]_vars => ChannelsOpen'
<1> SUFFICES ASSUME ChannelsOpen, [Next]_vars PROVE ChannelsOpen'
  OBVIOUS
<1> USE DEF ChannelsOpen
<1>1. CASE \/ Publish \/ Stop \/ Receive \/ Record \/ Round \/ Stats \/ Second
           \/ UNCHANGED vars
  BY <1>1 DEF Publish, Stop, Receive, Record, Round, Offer, Stats, Second, vars,
              subVars
<1>2. ASSUME NEW c \in Subscribers,
             \/ \E chargers \in {{0, 1}, {0}} : Subscribe(c, chargers)
             \/ \E to \in {"reading", "stalled", "gone"} : PeerChange(c, to)
             \/ Take(c) \/ Write(c) \/ Unsubscribe(c) \/ CloseChannel(c)
      PROVE  ChannelsOpen'
  BY <1>2 DEF Subscribe, PeerChange, Take, Write, Unsubscribe, CloseChannel, Move
<1> QED BY <1>1, <1>2 DEF Next

(* The hub never sends on a closed channel, although Unsubscribe closes it   *)
(* without the lock.                                                         *)
THEOREM EventHubSendsToOpen == Spec => []HubSendsToOpen
<1>1. Init => ChannelsOpen
  BY DEF Init, ChannelsOpen
<1>2. ChannelsOpen => HubSendsToOpen
  BY DEF ChannelsOpen, HubSendsToOpen
<1> QED BY <1>1, <1>2, ChannelsOpenNext, PTL DEF Spec

-----------------------------------------------------------------------------
(* Type correctness.                                                         *)

HubTypes ==
  /\ hub \in [at: {"select", "record", "round", "done"}, event: Nat]
  /\ broadcast \in Seq(Nat) /\ Len(broadcast) <= BroadcastCap
  /\ events \in Nat

SubscriberTypes ==
  /\ clients \in SUBSET Subscribers
  /\ handler \in [Subscribers -> {"none", "waiting", "writing", "closing", "done"}]
  /\ filter \in [Subscribers -> SUBSET {0, 1}]
  /\ channel \in [Subscribers -> Seq(Nat)]
  /\ \A c \in Subscribers : Len(channel[c]) <= ChannelCap
  /\ open \in [Subscribers -> BOOLEAN]
  /\ peer \in [Subscribers -> {"reading", "stalled", "gone"}]
  /\ hand \in [Subscribers -> Seq(Nat)]
  /\ queued \in [Subscribers -> SUBSET Nat]
  /\ got \in [Subscribers -> Seq(Nat)]

(* TypeOK in three parts.                                                    *)
LEMMA TypeParts == TypeOK <=> MetricsTypeOK /\ HubTypes /\ SubscriberTypes
BY DEF TypeOK, HubTypes, SubscriberTypes

(* What is known of a sequence of numbers and its ends.                      *)
LEMMA NatSeqFacts ==
  ASSUME NEW s \in Seq(Nat)
  PROVE  /\ Len(s) \in Nat /\ DOMAIN s = 1..Len(s)
         /\ \A e \in Nat : /\ Append(s, e) \in Seq(Nat)
                           /\ Len(Append(s, e)) = Len(s) + 1
         /\ s # <<>> => /\ Head(s) \in Nat /\ Tail(s) \in Seq(Nat)
                        /\ Len(Tail(s)) = Len(s) - 1
OBVIOUS

(* The hub's own state.                                                      *)
LEMMA HubTypesNext == HubTypes /\ [Next]_vars => HubTypes'
<1> SUFFICES ASSUME HubTypes, [Next]_vars PROVE HubTypes'
  OBVIOUS
<1>1. CASE Publish
  <2>1. broadcast' \in Seq(Nat) /\ Len(broadcast') <= BroadcastCap
    <3>1. CASE Len(broadcast) < BroadcastCap
      <4>1. broadcast' = Append(broadcast, events + 1) /\ events + 1 \in Nat
        BY <1>1, <3>1 DEF Publish, HubTypes
      <4> QED BY <3>1, <4>1, NatSeqFacts, EventHubAssumption DEF HubTypes
    <3>2. CASE ~(Len(broadcast) < BroadcastCap)
      BY <1>1, <3>2 DEF Publish, HubTypes
    <3> QED BY <3>1, <3>2
  <2> QED BY <1>1, <2>1 DEF Publish, HubTypes
<1>2. CASE Receive
  <2>1. /\ Head(broadcast) \in Nat /\ Tail(broadcast) \in Seq(Nat)
        /\ Len(Tail(broadcast)) = Len(broadcast) - 1 /\ Len(broadcast) \in Nat
    BY <1>2, NatSeqFacts DEF Receive, HubTypes
  <2>2. Len(broadcast') <= BroadcastCap
    BY <1>2, <2>1, EventHubAssumption DEF Receive, HubTypes
  <2> QED BY <1>2, <2>1, <2>2 DEF Receive, HubTypes
<1>3. CASE Stop \/ Record \/ Round
  BY <1>3 DEF Stop, Record, Round, Offer, HubTypes
<1>4. CASE UNCHANGED hubVars
  BY <1>4 DEF hubVars, HubTypes
<1>5. [Next]_vars => Publish \/ Receive \/ Stop \/ Record \/ Round
                       \/ UNCHANGED hubVars
  BY DEF Next, Stats, Second, Subscribe, PeerChange, Take, Write, Unsubscribe,
         CloseChannel, vars, hubVars
<1> QED BY <1>1, <1>2, <1>3, <1>4, <1>5

(* The state of the subscribers.                                             *)
LEMMA SubscriberTypesNext ==
  HubTypes /\ SubscriberTypes /\ [Next]_vars => SubscriberTypes'
<1> SUFFICES ASSUME HubTypes, SubscriberTypes, [Next]_vars
             PROVE  SubscriberTypes'
  OBVIOUS
<1>1. CASE Round
  <2> DEFINE room == {c \in clients : HasRoom(c)}
  <2>1. /\ channel' = [c \in Subscribers |-> IF c \in room
                         THEN Append(channel[c], hub.event) ELSE channel[c]]
        /\ queued' = [c \in Subscribers |-> queued[c] \cup
                         IF c \in room THEN {hub.event} ELSE {}]
        /\ UNCHANGED <<clients, handler, filter, open, peer, hand, got>>
    BY <1>1 DEF Round, Offer, subVars
  <2>2. hub.event \in Nat
    BY DEF HubTypes
  <2>3. ASSUME NEW c \in Subscribers
        PROVE  channel'[c] \in Seq(Nat) /\ Len(channel'[c]) <= ChannelCap
    <3>1. /\ channel[c] \in Seq(Nat) /\ Len(channel[c]) <= ChannelCap
          /\ Len(channel[c]) \in Nat
      BY NatSeqFacts DEF SubscriberTypes
    <3>2. CASE c \in room
      <4>1. Len(channel[c]) < ChannelCap
        BY <3>2 DEF HasRoom
      <4>2. channel'[c] = Append(channel[c], hub.event)
        BY <2>1, <3>2
      <4> QED BY <2>2, <3>1, <4>1, <4>2, NatSeqFacts, EventHubAssumption
    <3>3. CASE c \notin room
      BY <2>1, <3>1, <3>3
    <3> QED BY <3>2, <3>3
  <2>4. channel' \in [Subscribers -> Seq(Nat)]
    BY <2>1, <2>3
  <2>5. queued' \in [Subscribers -> SUBSET Nat]
    BY <2>1, <2>2 DEF SubscriberTypes
  <2> QED BY <2>1, <2>3, <2>4, <2>5 DEF SubscriberTypes
<1>2. ASSUME NEW c \in Subscribers, Take(c) PROVE SubscriberTypes'
  <2>1. /\ channel[c] \in Seq(Nat) /\ channel[c] # <<>>
        /\ Head(channel[c]) \in Nat /\ Tail(channel[c]) \in Seq(Nat)
        /\ Len(Tail(channel[c])) = Len(channel[c]) - 1
        /\ Len(channel[c]) \in Nat /\ Len(channel[c]) <= ChannelCap
    BY <1>2, NatSeqFacts DEF Take, SubscriberTypes
  <2>2. Len(Tail(channel[c])) <= ChannelCap
    BY <2>1, EventHubAssumption
  <2>3. <<Head(channel[c])>> \in Seq(Nat) /\ <<>> \in Seq(Nat)
    BY <2>1
  <2>4. /\ channel' = [channel EXCEPT ![c] = Tail(channel[c])]
        /\ hand' = [hand EXCEPT ![c] = IF Wanted(c, Head(channel[c]))
                                       THEN <<Head(channel[c])>> ELSE <<>>]
        /\ handler' = [handler EXCEPT ![c] = IF Wanted(c, Head(channel[c]))
                                             THEN "writing" ELSE "waiting"]
        /\ UNCHANGED <<clients, queued, filter, open, peer, got>>
    BY <1>2 DEF Take, Move
  <2> QED BY <2>1, <2>2, <2>3, <2>4 DEF SubscriberTypes
<1>3. ASSUME NEW c \in Subscribers, Write(c) PROVE SubscriberTypes'
  <2>1. got[c] \o hand[c] \in Seq(Nat) /\ <<>> \in Seq(Nat)
    BY DEF SubscriberTypes
  <2> QED BY <1>3, <2>1 DEF Write, Move, SubscriberTypes
<1>4. ASSUME NEW c \in Subscribers, NEW chargers \in {{0, 1}, {0}},
             Subscribe(c, chargers)
      PROVE  SubscriberTypes'
  BY <1>4 DEF Subscribe, Move, SubscriberTypes
<1>5. ASSUME NEW c \in Subscribers,
             \/ \E to \in {"reading", "stalled", "gone"} : PeerChange(c, to)
             \/ Unsubscribe(c) \/ CloseChannel(c)
      PROVE  SubscriberTypes'
  BY <1>5 DEF PeerChange, Unsubscribe, CloseChannel, Move, SubscriberTypes
<1>6. CASE \/ Publish \/ Stop \/ Receive \/ Record \/ Stats \/ Second
           \/ UNCHANGED vars
  BY <1>6 DEF Publish, Stop, Receive, Record, Stats, Second, vars, subVars,
              SubscriberTypes
<1> QED BY <1>1, <1>2, <1>3, <1>4, <1>5, <1>6 DEF Next

(* Type correctness, the bounds of both kinds of channels included.          *)
THEOREM EventHubTypeOK == Spec => []TypeOK
<1>1. Init => HubTypes /\ SubscriberTypes
  BY EventHubAssumption DEF Init, HubTypes, SubscriberTypes
<1>2. RingInv => MetricsTypeOK
  BY DEF RingInv, MetricsTypeOK
<1> QED BY <1>1, <1>2, EventHubRingInv, HubTypesNext, SubscriberTypesNext,
           TypeParts, PTL DEF Spec

-----------------------------------------------------------------------------
(* The events a subscriber is written.                                       *)

(* A sequence in ascending order, extended by something greater, or without  *)
(* its head.                                                                 *)
LEMMA AscendingAppend ==
  ASSUME NEW s \in Seq(Nat), NEW e \in Nat, Ascending(s),
         \A d \in Range(s) : d < e
  PROVE  Ascending(Append(s, e)) /\ Range(Append(s, e)) = Range(s) \cup {e}
<1> DEFINE new == Append(s, e)
<1>1. /\ Len(s) \in Nat /\ DOMAIN s = 1..Len(s) /\ DOMAIN new = 1..(Len(s) + 1)
      /\ \A i \in 1..Len(s) : new[i] = s[i]
      /\ new[Len(s) + 1] = e
  OBVIOUS
<1> HIDE DEF new
<1>2. \A i \in 1..Len(s) : s[i] < e
  BY <1>1 DEF Range
<1>3. ASSUME NEW i \in DOMAIN new, NEW j \in DOMAIN new, i < j
      PROVE  new[i] < new[j]
  <2>1. CASE j = Len(s) + 1
    BY <1>1, <1>2, <1>3, <2>1
  <2>2. CASE j # Len(s) + 1
    BY <1>1, <1>3, <2>2 DEF Ascending
  <2> QED BY <2>1, <2>2
<1>4. Range(new) = Range(s) \cup {e}
  <2>1. \A d \in Range(new) : d \in Range(s) \cup {e}
    BY <1>1 DEF Range
  <2>2. \A d \in Range(s) : d \in Range(new)
    BY <1>1 DEF Range
  <2>3. e \in Range(new)
    BY <1>1 DEF Range
  <2> QED BY <2>1, <2>2, <2>3
<1> QED BY <1>3, <1>4 DEF Ascending, new

(* Without its head a sequence in ascending order is one, all greater than   *)
(* the head was.                                                             *)
LEMMA AscendingTail ==
  ASSUME NEW s \in Seq(Nat), s # <<>>, Ascending(s)
  PROVE  /\ Ascending(Tail(s)) /\ Range(s) = Range(Tail(s)) \cup {Head(s)}
         /\ \A d \in Range(Tail(s)) : Head(s) < d
<1> DEFINE new == Tail(s)
<1>1. /\ Len(s) \in Nat \ {0} /\ DOMAIN s = 1..Len(s) /\ DOMAIN new = 1..(Len(s) - 1)
      /\ \A i \in 1..(Len(s) - 1) : new[i] = s[i + 1]
      /\ Head(s) = s[1]
  OBVIOUS
<1> HIDE DEF new
<1>i. /\ 1 \in DOMAIN s
      /\ \A i \in DOMAIN new : /\ i \in Int /\ i + 1 \in DOMAIN s /\ 1 < i + 1
                              /\ new[i] = s[i + 1]
      /\ \A i \in DOMAIN s : i # 1 => i - 1 \in DOMAIN new /\ new[i - 1] = s[i]
  BY <1>1
<1>2. Ascending(new)
  <2> SUFFICES ASSUME NEW i \in DOMAIN new, NEW j \in DOMAIN new, i < j
               PROVE  new[i] < new[j]
    BY DEF Ascending
  <2>1. i + 1 < j + 1
    BY <1>i
  <2>2. s[i + 1] < s[j + 1]
    BY <1>i, <2>1 DEF Ascending
  <2> QED BY <1>i, <2>2
<1>3. ASSUME NEW d \in Range(new) PROVE s[1] < d
  <2>1. PICK i \in DOMAIN new : d = new[i]
    BY DEF Range
  <2>2. s[1] < s[i + 1]
    BY <1>i DEF Ascending
  <2> QED BY <1>i, <2>1, <2>2
<1>4. Range(s) = Range(new) \cup {s[1]}
  <2>1. ASSUME NEW d \in Range(s) PROVE d \in Range(new) \cup {s[1]}
    <3>1. PICK i \in DOMAIN s : d = s[i]
      BY DEF Range
    <3> QED BY <1>i, <3>1 DEF Range
  <2>2. ASSUME NEW d \in Range(new) PROVE d \in Range(s)
    <3>1. PICK i \in DOMAIN new : d = new[i]
      BY DEF Range
    <3> QED BY <1>i, <3>1 DEF Range
  <2>3. s[1] \in Range(s)
    BY <1>i DEF Range
  <2> QED BY <2>1, <2>2, <2>3
<1> QED BY <1>1, <1>2, <1>3, <1>4 DEF new

(* The empty sequence.                                                       *)
LEMMA EmptyAscends == Ascending(<<>>) /\ Range(<<>>) = {}
BY DEF Ascending, Range

(* The hub holds no event, or one older than the buffered ones; those it     *)
(* queued are older than the one it holds.                                   *)
Busy == hub.at \in {"record", "round"}

HubOrder ==
  /\ Ascending(broadcast)
  /\ \A e \in Range(broadcast) : e <= events
  /\ Busy => /\ hub.event <= events
             /\ \A e \in Range(broadcast) : hub.event < e

QueuedBefore(c) ==
  \A e \in queued[c] :
    /\ e <= events
    /\ \A d \in Range(broadcast) : e < d
    /\ Busy => e < hub.event

Written(c) == got[c] \o hand[c]

(* What was written was queued, and came before what waits in the channel.   *)
StreamInv(c) ==
  /\ handler[c] # "writing" => hand[c] = <<>>
  /\ handler[c] = "none" => queued[c] = {}
  /\ Ascending(channel[c]) /\ Range(channel[c]) \subseteq queued[c]
  /\ Ascending(Written(c)) /\ Range(Written(c)) \subseteq queued[c]
  /\ \A e \in Range(Written(c)), d \in Range(channel[c]) : e < d
  /\ peer[c] # "gone" =>
       Range(Written(c)) = {e \in queued[c] \ Range(channel[c]) : Wanted(c, e)}

(* The order of the events in the hub is kept by every step.                 *)
LEMMA HubOrderNext ==
  ASSUME TypeOK, HubOrder, \A c \in Subscribers : QueuedBefore(c), [Next]_vars
  PROVE  HubOrder' /\ \A c \in Subscribers : QueuedBefore(c)'
<1>t. /\ broadcast \in Seq(Nat) /\ events \in Nat /\ hub.event \in Nat
      /\ \A c \in Subscribers : queued[c] \subseteq Nat
      /\ \A d \in Range(broadcast) : d \in Nat
  <2>1. \A d \in Range(broadcast) : d \in Nat
    BY DEF TypeOK, Range
  <2> QED BY <2>1 DEF TypeOK
<1>1. CASE Publish
  <2>1. /\ events' = events + 1 /\ hub' = hub /\ queued' = queued
        /\ broadcast' = broadcast \/ broadcast' = Append(broadcast, events + 1)
    BY <1>1 DEF Publish
  <2>2. \A d \in Range(broadcast) : d < events + 1
    BY <1>t DEF HubOrder
  <2>3. /\ Ascending(broadcast')
        /\ Range(broadcast') \subseteq Range(broadcast) \cup {events + 1}
    <3>1. events + 1 \in Nat
      BY <1>t
    <3> QED BY <1>t, <2>1, <2>2, <3>1, AscendingAppend DEF HubOrder
  <2>4. Busy' = Busy
    BY <2>1 DEF Busy
  <2>5. HubOrder'
    BY <1>t, <2>1, <2>3, <2>4 DEF HubOrder
  <2>6. ASSUME NEW c \in Subscribers PROVE QueuedBefore(c)'
    <3>1. \A e \in queued[c] : e \in Nat
      BY <1>t
    <3> QED BY <1>t, <2>1, <2>3, <2>4, <3>1 DEF QueuedBefore
  <2> QED BY <2>5, <2>6
<1>2. CASE Receive
  <2>1. /\ events' = events /\ queued' = queued /\ broadcast # <<>>
        /\ broadcast' = Tail(broadcast) /\ hub'.event = Head(broadcast) /\ Busy'
    BY <1>2 DEF Receive, Busy
  <2>2. /\ Ascending(broadcast')
        /\ Range(broadcast) = Range(broadcast') \cup {hub'.event}
        /\ \A d \in Range(broadcast') : hub'.event < d
    BY <1>t, <2>1, AscendingTail DEF HubOrder
  <2> QED BY <2>1, <2>2 DEF HubOrder, QueuedBefore
<1>3. CASE Record
  <2>1. /\ UNCHANGED <<events, queued, broadcast>> /\ hub'.event = hub.event
        /\ Busy /\ Busy'
    BY <1>3 DEF Record, Busy, TypeOK
  <2> QED BY <2>1 DEF HubOrder, QueuedBefore
<1>4. CASE Round
  <2>1. /\ UNCHANGED <<events, broadcast>> /\ Busy /\ ~Busy'
        /\ \A c \in Subscribers : queued'[c] \subseteq queued[c] \cup {hub.event}
    BY <1>4 DEF Round, Offer, Busy
  <2> QED BY <2>1 DEF HubOrder, QueuedBefore
<1>5. CASE Stop
  <2>1. UNCHANGED <<events, queued, broadcast>> /\ ~Busy'
    BY <1>5 DEF Stop, Busy
  <2> QED BY <2>1 DEF HubOrder, QueuedBefore
<1>6. CASE UNCHANGED <<hubVars, queued>>
  BY <1>6 DEF hubVars, HubOrder, QueuedBefore, Busy
<1>7. [Next]_vars => Publish \/ Receive \/ Record \/ Round \/ Stop
                       \/ UNCHANGED <<hubVars, queued>>
  BY DEF Next, Stats, Second, Subscribe, PeerChange, Take, Write, Unsubscribe,
         CloseChannel, vars
<1> QED BY <1>1, <1>2, <1>3, <1>4, <1>5, <1>6, <1>7

(* What a subscriber was written and what it is being written.               *)
LEMMA WrittenFacts ==
  ASSUME NEW g \in Seq(Nat)
  PROVE  /\ g \o <<>> = g
         /\ \A e \in Nat : g \o <<e>> = Append(g, e)
         /\ \A h \in Seq(Nat) : Range(g) \subseteq Range(g \o h)
                                /\ (Ascending(g \o h) => Ascending(g))
<1>1. g \o <<>> = g
  BY ConcatEmptySeq
<1>2. \A e \in Nat : g \o <<e>> = Append(g, e)
  BY AppendIsConcat
<1>3. ASSUME NEW h \in Seq(Nat)
      PROVE  /\ Range(g) \subseteq Range(g \o h)
             /\ Ascending(g \o h) => Ascending(g)
  <2> DEFINE both == g \o h
  <2>1. /\ DOMAIN g \subseteq DOMAIN both
        /\ \A i \in DOMAIN g : both[i] = g[i]
    OBVIOUS
  <2> HIDE DEF both
  <2>2. Range(g) \subseteq Range(both)
    BY <2>1 DEF Range
  <2>3. Ascending(both) => Ascending(g)
    BY <2>1 DEF Ascending
  <2> QED BY <2>2, <2>3 DEF both
<1> QED BY <1>1, <1>2, <1>3

(* A step that concerns another subscriber.                                  *)
LEMMA StreamUntouched ==
  ASSUME NEW c \in Subscribers, StreamInv(c),
         handler'[c] = handler[c], hand'[c] = hand[c], got'[c] = got[c],
         channel'[c] = channel[c], queued'[c] = queued[c],
         peer'[c] = peer[c], filter'[c] = filter[c]
  PROVE  StreamInv(c)'
BY DEF StreamInv, Written, Wanted

(* The hub queues an event newer than all that it queued before.             *)
LEMMA StreamAfterRound ==
  ASSUME TypeOK, ChannelsOpen, NEW c \in Subscribers, QueuedBefore(c),
         StreamInv(c), Round
  PROVE  StreamInv(c)'
<1> DEFINE room == {d \in clients : HasRoom(d)}
<1>1. /\ UNCHANGED <<handler, filter, open, peer, hand, got>>
      /\ channel' = [d \in Subscribers |-> IF d \in room
                       THEN Append(channel[d], hub.event) ELSE channel[d]]
      /\ queued' = [d \in Subscribers |-> queued[d] \cup
                       IF d \in room THEN {hub.event} ELSE {}]
      /\ Busy
  BY DEF Round, Offer, subVars, Busy
<1>2. CASE c \notin room
  BY <1>1, <1>2, StreamUntouched
<1>3. CASE c \in room
  <2>1. PICK e \in Nat : e = hub.event
    BY DEF TypeOK
  <2>2. /\ channel'[c] = Append(channel[c], e) /\ queued'[c] = queued[c] \cup {e}
        /\ channel[c] \in Seq(Nat) /\ handler[c] # "none"
    BY <1>1, <1>3, <2>1 DEF TypeOK, ChannelsOpen
  <2>3. \A d \in queued[c] : d < e
    BY <1>1, <2>1 DEF QueuedBefore
  <2>4. Ascending(channel'[c]) /\ Range(channel'[c]) = Range(channel[c]) \cup {e}
    <3>1. \A d \in Range(channel[c]) : d < e
      BY <2>3 DEF StreamInv
    <3>2. Ascending(channel[c])
      BY DEF StreamInv
    <3> QED BY <2>2, <3>1, <3>2, AscendingAppend
  <2>5. e \notin queued[c]
    BY <2>3
  <2>6. Written(c)' = Written(c)
    BY <1>1 DEF Written
  <2>7. \A d \in Nat : Wanted(c, d)' <=> Wanted(c, d)
    BY <1>1 DEF Wanted
  <2>8. queued[c] \subseteq Nat
    BY DEF TypeOK
  <2>9. /\ Range(Written(c)) \subseteq queued[c]
        /\ \A d \in Range(Written(c)) : d < e
    BY <2>3 DEF StreamInv
  <2>10. peer[c] # "gone" =>
           Range(Written(c)')
             = {d \in queued'[c] \ Range(channel'[c]) : Wanted(c, d)'}
    BY <2>2, <2>4, <2>5, <2>6, <2>7, <2>8 DEF StreamInv
  <2> QED BY <1>1, <2>2, <2>4, <2>6, <2>9, <2>10 DEF StreamInv
<1> QED BY <1>2, <1>3

(* The handler takes the oldest event of its channel in hand, or skips it.   *)
LEMMA StreamAfterTake ==
  ASSUME TypeOK, NEW c \in Subscribers, StreamInv(c), Take(c)
  PROVE  StreamInv(c)'
<1>1. /\ channel[c] \in Seq(Nat) /\ channel[c] # <<>> /\ got[c] \in Seq(Nat)
      /\ queued[c] \subseteq Nat
      /\ Ascending(channel[c]) /\ Range(channel[c]) \subseteq queued[c]
      /\ handler[c] = "waiting" /\ hand[c] = <<>>
  BY DEF Take, Move, TypeOK, StreamInv
<1>2. PICK e \in Nat : e = Head(channel[c])
  BY <1>1, NatSeqFacts
<1>3. PICK rest \in Seq(Nat) : rest = Tail(channel[c])
  BY <1>1, NatSeqFacts
<1>4. /\ channel'[c] = rest
      /\ hand'[c] = IF Wanted(c, e) THEN <<e>> ELSE <<>>
      /\ handler'[c] = IF Wanted(c, e) THEN "writing" ELSE "waiting"
      /\ UNCHANGED <<queued, got, peer, filter>>
  BY <1>2, <1>3 DEF Take, Move, TypeOK
<1>5. /\ Ascending(rest) /\ Range(channel[c]) = Range(rest) \cup {e}
      /\ \A d \in Range(rest) : e < d
  BY <1>1, <1>2, <1>3, AscendingTail
<1>6. Written(c) = got[c]
  BY <1>1, WrittenFacts DEF Written
<1>7. /\ Ascending(got[c]) /\ Range(got[c]) \subseteq queued[c]
      /\ \A d \in Range(got[c]) : d < e
      /\ \A d \in Range(got[c]), f \in Range(rest) : d < f
      /\ peer[c] # "gone" => Range(got[c]) =
           {d \in queued[c] \ Range(channel[c]) : Wanted(c, d)}
  BY <1>5, <1>6 DEF StreamInv
<1>8. e \in queued[c] /\ e \notin Range(rest)
  BY <1>1, <1>5
<1>9. \A d \in Nat : Wanted(c, d)' <=> Wanted(c, d)
  BY <1>4 DEF Wanted
<1>10. CASE Wanted(c, e)
  <2>1. Written(c)' = Append(got[c], e)
    BY <1>1, <1>4, <1>10, WrittenFacts DEF Written
  <2>2. /\ Ascending(Written(c)') /\ Range(Written(c)') = Range(got[c]) \cup {e}
    BY <1>1, <1>7, <2>1, AscendingAppend
  <2>3. peer[c] # "gone" => Range(Written(c)') =
          {d \in queued[c] \ Range(rest) : Wanted(c, d)}
    BY <1>5, <1>7, <1>8, <1>10, <2>2
  <2>4. peer[c] # "gone" => Range(Written(c)') =
          {d \in queued'[c] \ Range(channel'[c]) : Wanted(c, d)'}
    BY <1>1, <1>4, <1>9, <2>3
  <2> QED BY <1>1, <1>4, <1>5, <1>7, <1>8, <1>10, <2>2, <2>4 DEF StreamInv
<1>11. CASE ~Wanted(c, e)
  <2>1. Written(c)' = got[c]
    BY <1>1, <1>4, <1>11, WrittenFacts DEF Written
  <2>2. peer[c] # "gone" => Range(Written(c)') =
          {d \in queued[c] \ Range(rest) : Wanted(c, d)}
    BY <1>5, <1>7, <1>8, <1>11, <2>1
  <2>3. peer[c] # "gone" => Range(Written(c)') =
          {d \in queued'[c] \ Range(channel'[c]) : Wanted(c, d)'}
    BY <1>1, <1>4, <1>9, <2>2
  <2> QED BY <1>1, <1>4, <1>5, <1>7, <1>11, <2>1, <2>3 DEF StreamInv
<1> QED BY <1>10, <1>11

(* The handler writes what it has in hand.                                   *)
LEMMA StreamAfterWrite ==
  ASSUME TypeOK, NEW c \in Subscribers, StreamInv(c), Write(c)
  PROVE  StreamInv(c)'
<1>1. /\ got[c] \in Seq(Nat) /\ hand[c] \in Seq(Nat) /\ Written(c) \in Seq(Nat)
      /\ hand'[c] = <<>> /\ handler'[c] = "waiting"
      /\ UNCHANGED <<channel, queued, filter, peer>>
  BY DEF Write, Move, TypeOK, Written
<1>2. CASE peer[c] = "reading"
  <2>1. got'[c] = Written(c)
    BY <1>2 DEF Write, TypeOK, Written
  <2>2. Written(c)' = Written(c)
    BY <1>1, <2>1, WrittenFacts DEF Written
  <2> QED BY <1>1, <2>2 DEF StreamInv, Wanted
<1>3. CASE peer[c] # "reading"
  <2>1. peer[c] = "gone" /\ got'[c] = got[c]
    BY <1>3 DEF Write, TypeOK
  <2>2. Written(c)' = got[c]
    BY <1>1, <2>1, WrittenFacts DEF Written
  <2>3. Ascending(got[c]) /\ Range(got[c]) \subseteq Range(Written(c))
    BY <1>1, WrittenFacts DEF StreamInv, Written
  <2> QED BY <1>1, <2>1, <2>2, <2>3 DEF StreamInv
<1> QED BY <1>2, <1>3

(* StreamInv is inductive, with the order of the events in the hub.          *)
LEMMA StreamNext ==
  ASSUME TypeOK, ChannelsOpen, NEW c \in Subscribers, QueuedBefore(c),
         StreamInv(c), [Next]_vars
  PROVE  StreamInv(c)'
<1>1. CASE Round
  BY <1>1, StreamAfterRound
<1>2. CASE Take(c)
  BY <1>2, StreamAfterTake
<1>3. CASE Write(c)
  BY <1>3, StreamAfterWrite
<1>4. ASSUME NEW chargers \in {{0, 1}, {0}}, Subscribe(c, chargers)
      PROVE  StreamInv(c)'
  <2>1. /\ handler[c] = "none" /\ handler'[c] = "waiting"
        /\ UNCHANGED <<channel, queued, peer, hand, got>>
    BY <1>4 DEF Subscribe, Move, TypeOK
  <2>2. queued[c] = {} /\ Range(Written(c)) = {} /\ hand[c] = <<>>
    BY <2>1 DEF StreamInv
  <2>3. Written(c)' = Written(c)
    BY <2>1 DEF Written
  <2> QED BY <2>1, <2>2, <2>3 DEF StreamInv
<1>5. ASSUME NEW to \in {"reading", "stalled", "gone"}, PeerChange(c, to)
      PROVE  StreamInv(c)'
  <2>1. /\ peer[c] # "gone"
        /\ UNCHANGED <<handler, channel, queued, filter, hand, got>>
    BY <1>5 DEF PeerChange
  <2> QED BY <2>1 DEF StreamInv, Written, Wanted
<1>6. CASE Unsubscribe(c) \/ CloseChannel(c)
  <2>1. /\ handler[c] \notin {"none", "writing"}
        /\ handler'[c] \notin {"none", "writing"}
        /\ UNCHANGED <<channel, queued, filter, peer, hand, got>>
    BY <1>6 DEF Unsubscribe, CloseChannel, Move, TypeOK
  <2> QED BY <2>1 DEF StreamInv, Written, Wanted
<1>7. ASSUME NEW d \in Subscribers, d # c,
             \/ \E chargers \in {{0, 1}, {0}} : Subscribe(d, chargers)
             \/ \E to \in {"reading", "stalled", "gone"} : PeerChange(d, to)
             \/ Take(d) \/ Write(d) \/ Unsubscribe(d) \/ CloseChannel(d)
      PROVE  StreamInv(c)'
  <2>1. /\ handler'[c] = handler[c] /\ hand'[c] = hand[c] /\ got'[c] = got[c]
        /\ channel'[c] = channel[c] /\ queued'[c] = queued[c]
        /\ peer'[c] = peer[c] /\ filter'[c] = filter[c]
    BY <1>7 DEF Subscribe, PeerChange, Take, Write, Unsubscribe, CloseChannel,
                Move, TypeOK
  <2> QED BY <2>1, StreamUntouched
<1>8. CASE \/ Publish \/ Stop \/ Receive \/ Record \/ Stats \/ Second
           \/ UNCHANGED vars
  <2>1. UNCHANGED <<channel, queued, subVars>>
    BY <1>8 DEF Publish, Stop, Receive, Record, Stats, Second, vars
  <2> QED BY <2>1, StreamUntouched DEF subVars
<1> QED BY <1>1, <1>2, <1>3, <1>4, <1>5, <1>6, <1>7, <1>8 DEF Next

(* While its peer is there, a subscriber is written exactly the events that  *)
(* the hub queued for it and that it asked for, in order, none twice.        *)
THEOREM EventHubStreamIntact == Spec => []StreamIntact
<1> DEFINE Inv == /\ ChannelsOpen /\ HubOrder
                  /\ \A c \in Subscribers : QueuedBefore(c) /\ StreamInv(c)
<1>1. Init => Inv
  <2> SUFFICES ASSUME Init PROVE Inv
    OBVIOUS
  <2>1. ChannelsOpen
    BY DEF Init, ChannelsOpen
  <2>2. HubOrder /\ \A c \in Subscribers : QueuedBefore(c)
    BY EmptyAscends DEF Init, HubOrder, QueuedBefore, Busy
  <2>3. ASSUME NEW c \in Subscribers PROVE StreamInv(c)
    <3>1. Written(c) = <<>>
      BY DEF Init, Written
    <3> QED BY <3>1, EmptyAscends DEF Init, StreamInv
  <2> QED BY <2>1, <2>2, <2>3
<1>2. TypeOK /\ Inv /\ [Next]_vars => Inv'
  <2> SUFFICES ASSUME TypeOK, Inv, [Next]_vars PROVE Inv'
    OBVIOUS
  <2>1. ChannelsOpen'
    BY ChannelsOpenNext
  <2>2. HubOrder' /\ \A c \in Subscribers : QueuedBefore(c)'
    BY HubOrderNext
  <2>3. ASSUME NEW c \in Subscribers PROVE StreamInv(c)'
    BY StreamNext
  <2> QED BY <2>1, <2>2, <2>3
<1>3. Inv => StreamIntact
  BY DEF StreamInv, Written, StreamIntact
<1> QED BY <1>1, <1>2, <1>3, EventHubTypeOK, PTL DEF Spec
=============================================================================
