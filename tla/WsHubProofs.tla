---------------------------- MODULE WsHubProofs ----------------------------
(* Theorems about WsHub.tla, for any number of clients and events and any    *)
(* capacities.                                                               *)
EXTENDS WsHub, SequenceTheorems, TLAPS

(* A client is in the hub's map only between its registration and the first  *)
(* of its unregistrations, and only the hub closes it: one that has yet to   *)
(* be registered is open and not in the map.                                 *)
Waiting(c) == reader[c] \in {"none", "register"}

MapOpen ==
  hub = "running" =>
    /\ \A c \in clients : open[c] /\ ~Waiting(c)
    /\ \A c \in Clients : Waiting(c) => open[c]

(* Events are numbered from 1; the frame in hand is 0 exactly when the       *)
(* writing goroutine has nothing to write.                                   *)
FrameOK(c) ==
  /\ Waiting(c) => writer[c] = "none"
  /\ writer[c] \in {"none", "waiting"} => frame[c] = 0
  /\ writer[c] = "writing" => frame[c] # 0

Numbered(c) == \A i \in DOMAIN send[c] : send[c][i] # 0

InHandOK == \A c \in Clients : FrameOK(c) /\ Numbered(c)

(* What has been queued for a client is older than what is still with the    *)
(* hub, and that is in order too.                                            *)
OldestFirst ==
  /\ Increasing(broadcast)
  /\ \A i \in DOMAIN broadcast : broadcast[i] \in 1..events
  /\ \A c \in Clients :
       /\ Increasing(queued[c])
       /\ \A i \in DOMAIN queued[c] :
            /\ queued[c][i] <= events
            /\ \A j \in DOMAIN broadcast : queued[c][i] < broadcast[j]

-----------------------------------------------------------------------------
(* Types.                                                                    *)

(* The initial state is well typed.                                          *)
LEMMA TypeInit == Init => TypeOK
<1> SUFFICES ASSUME Init PROVE TypeOK
  OBVIOUS
<1>1. /\ [c \in Clients |-> <<>>] \in [Clients -> Seq(Nat)]
      /\ <<>> \in Seq(Nat) /\ Len(<<>>) = 0
  OBVIOUS
<1>2. /\ broadcast \in Seq(Nat) /\ Len(broadcast) <= BroadcastCap
      /\ send \in [Clients -> Seq(Nat)]
      /\ \A c \in Clients : Len(send[c]) <= SendCap
      /\ queued \in [Clients -> Seq(Nat)] /\ got \in [Clients -> Seq(Nat)]
  BY <1>1, WsHubAssumption DEF Init
<1>3. /\ frame \in [Clients -> Nat]
      /\ open \in [Clients -> BOOLEAN] /\ link \in [Clients -> BOOLEAN]
      /\ garbled \in [Clients -> BOOLEAN] /\ failed \in [Clients -> BOOLEAN]
  BY DEF Init
<1>4. /\ hub \in {"running", "done"} /\ cancelled \in BOOLEAN
      /\ clients \in SUBSET Clients /\ events \in Nat
  BY DEF Init
<1>5. /\ reader \in [Clients -> {"none", "register", "reading", "ponging",
                                "leaving", "done"}]
      /\ writer \in [Clients -> {"none", "waiting", "writing", "leaving", "done"}]
  BY DEF Init
<1> QED BY <1>2, <1>3, <1>4, <1>5 DEF TypeOK

(* Every step keeps the types.                                               *)
LEMMA TypeNext == TypeOK /\ [Next]_vars => TypeOK'
<1> SUFFICES ASSUME TypeOK, [Next]_vars PROVE TypeOK'
  OBVIOUS
<1> USE WsHubAssumption
<1>1. ASSUME Broadcast PROVE TypeOK'
  <2>1. events + 1 \in Nat /\ broadcast \in Seq(Nat) /\ Len(broadcast) \in Nat
    BY DEF TypeOK
  <2>2. Append(broadcast, events + 1) \in Seq(Nat)
        /\ Len(Append(broadcast, events + 1)) = Len(broadcast) + 1
    BY <2>1
  <2>3. broadcast' \in Seq(Nat) /\ Len(broadcast') <= BroadcastCap
    BY <1>1, <2>1, <2>2 DEF Broadcast, TypeOK
  <2> QED BY <1>1, <2>1, <2>3 DEF Broadcast, TypeOK, chanVars, connVars, bufVars
<1>2. ASSUME Cancel PROVE TypeOK'
  BY <1>2 DEF Cancel, TypeOK, chanVars, connVars, bufVars
<1>3. ASSUME HubDone PROVE TypeOK'
  BY <1>3 DEF HubDone, Close, TypeOK, bufVars
<1>4. ASSUME HubBroadcast PROVE TypeOK'
  <2> DEFINE e == Head(broadcast)
             room == {c \in clients : Len(send[c]) < SendCap}
  <2>1. e \in Nat /\ Tail(broadcast) \in Seq(Nat)
        /\ Len(Tail(broadcast)) <= BroadcastCap
    BY <1>4, HeadTailProperties DEF HubBroadcast, TypeOK
  <2>2. \A q \in Seq(Nat) : Append(q, e) \in Seq(Nat)
                            /\ Len(Append(q, e)) = Len(q) + 1
    BY <2>1
  <2>3. /\ send' = [c \in Clients |-> IF c \in room THEN Append(send[c], e)
                                                    ELSE send[c]]
        /\ queued' = [c \in Clients |-> IF c \in room THEN Append(queued[c], e)
                                                      ELSE queued[c]]
        /\ broadcast' = Tail(broadcast)
        /\ UNCHANGED <<hub, cancelled, clients, events, open, connVars>>
    BY <1>4 DEF HubBroadcast
  <2> HIDE DEF e
  <2>4. \A c \in Clients : send'[c] \in Seq(Nat) /\ queued'[c] \in Seq(Nat)
                           /\ Len(send'[c]) <= SendCap
    BY <2>2, <2>3 DEF TypeOK
  <2>5. send' \in [Clients -> Seq(Nat)] /\ queued' \in [Clients -> Seq(Nat)]
    BY <2>3, <2>4
  <2> QED BY <2>1, <2>3, <2>4, <2>5 DEF TypeOK, connVars, bufVars
<1>5. ASSUME NEW c \in Clients, HubRegister(c) PROVE TypeOK'
  BY <1>5 DEF HubRegister, TypeOK, chanVars, bufVars
<1>6. ASSUME NEW c \in Clients, HubUnregister(c) PROVE TypeOK'
  BY <1>6 DEF HubUnregister, Drop, Close, TypeOK, bufVars
<1>7. ASSUME NEW c \in Clients, \/ Connect(c) \/ PeerGone(c) \/ ReadPing(c)
                               \/ ReadClose(c)
      PROVE  TypeOK'
  BY <1>7 DEF Connect, PeerGone, ReadPing, ReadClose, TypeOK, hubVars, chanVars,
              bufVars
<1>8. ASSUME NEW c \in Clients, Pong(c) PROVE TypeOK'
  BY <1>8 DEF Pong, MayGarble, TypeOK, hubVars, chanVars
<1>9. ASSUME NEW c \in Clients, Take(c) PROVE TypeOK'
  <2>1. Head(send[c]) \in Nat /\ Tail(send[c]) \in Seq(Nat)
        /\ Len(Tail(send[c])) <= SendCap
    BY <1>9, HeadTailProperties DEF Take, TypeOK
  <2> QED BY <1>9, <2>1 DEF Take, TypeOK, hubVars, bufVars
<1>10. ASSUME NEW c \in Clients, WriteOk(c) PROVE TypeOK'
  <2>1. got' \in [Clients -> Seq(Nat)]
    BY <1>10 DEF WriteOk, Written, TypeOK
  <2> QED BY <1>10, <2>1 DEF WriteOk, Written, MayGarble, TypeOK, hubVars, chanVars
<1>11. ASSUME NEW c \in Clients, Leave(c) \/ WriteRefused(c) PROVE TypeOK'
  BY <1>11 DEF Leave, ReadFail, WriteFail, SendClosed, WriteRefused, TypeOK, hubVars,
               chanVars, bufVars
<1>12. ASSUME NEW c \in Clients, ShortWrite(c) PROVE TypeOK'
  <2>1. Append(got[c], frame[c]) \in Seq(Nat)
    BY DEF TypeOK
  <2>2. /\ got' \in [Clients -> Seq(Nat)] /\ frame' \in [Clients -> Nat]
        /\ writer' \in [Clients -> {"none", "waiting", "writing", "leaving", "done"}]
    <3>1. CASE Written(c)
      BY <2>1, <3>1 DEF Written, TypeOK
    <3>2. CASE UNCHANGED <<frame, got>>
               /\ (UNCHANGED writer \/ writer' = [writer EXCEPT ![c] = "leaving"])
      BY <3>2 DEF TypeOK
    <3> QED BY <1>12, <3>1, <3>2 DEF ShortWrite
  <2>3. /\ reader' \in [Clients -> {"none", "register", "reading", "ponging",
                                   "leaving", "done"}]
        /\ garbled' \in [Clients -> BOOLEAN] /\ failed' \in [Clients -> BOOLEAN]
    BY <1>12 DEF ShortWrite, MayGarble, TypeOK
  <2> QED BY <1>12, <2>2, <2>3 DEF ShortWrite, TypeOK, hubVars, chanVars
<1>13. CASE UNCHANGED vars
  BY <1>13 DEF vars, hubVars, chanVars, connVars, bufVars, TypeOK
<1> QED BY <1>1, <1>2, <1>3, <1>4, <1>5, <1>6, <1>7, <1>8, <1>9, <1>10, <1>11,
           <1>12, <1>13 DEF Next

(* The state is well typed, and no buffer exceeds its capacity.              *)
THEOREM WsHubTypeOK == Spec => []TypeOK
BY TypeInit, TypeNext, PTL DEF Spec

-----------------------------------------------------------------------------
(* No send on a closed channel.                                              *)

(* MapOpen is inductive relative to the type invariant.                      *)
LEMMA MapOpenNext == TypeOK /\ MapOpen /\ [Next]_vars => MapOpen'
<1> SUFFICES ASSUME TypeOK, MapOpen, [Next]_vars PROVE MapOpen'
  OBVIOUS
<1> USE DEF MapOpen, Waiting, TypeOK
<1>1. CASE Broadcast \/ Cancel \/ HubBroadcast \/ UNCHANGED vars
  BY <1>1 DEF Broadcast, Cancel, HubBroadcast, vars, hubVars, chanVars, connVars
<1>2. CASE HubDone
  BY <1>2 DEF HubDone
<1>3. ASSUME NEW c \in Clients, HubRegister(c) PROVE MapOpen'
  BY <1>3 DEF HubRegister, chanVars
<1>4. ASSUME NEW c \in Clients, HubUnregister(c) PROVE MapOpen'
  <2>1. hub = "running" /\ hub' = hub
    BY <1>4 DEF HubUnregister
  <2>2. \A d \in Clients : reader'[d] # reader[d] =>
          reader[d] = "leaving" /\ reader'[d] = "done"
    BY <1>4 DEF HubUnregister
  <2>3. clients' \subseteq clients
    BY <1>4 DEF HubUnregister, Drop
  <2>4. \A d \in Clients : d \in clients' \/ Waiting(d) => open'[d] = open[d]
    <3>1. Drop(c)
      BY <1>4 DEF HubUnregister
    <3>2. \A d \in Clients : Waiting(d) => d \notin clients
      BY <2>1
    <3> QED BY <2>1, <3>1, <3>2 DEF Drop, Close
  <2> QED BY <2>1, <2>2, <2>3, <2>4
<1>5. ASSUME NEW c \in Clients,
             \/ Connect(c) \/ PeerGone(c) \/ ReadPing(c) \/ Pong(c)
             \/ ReadClose(c) \/ Take(c) \/ WriteOk(c) \/ Leave(c)
      PROVE  MapOpen'
  BY <1>5 DEF Connect, PeerGone, ReadPing, Pong, ReadClose, Take, WriteOk, Leave,
              ReadFail, WriteFail, SendClosed, hubVars, chanVars
<1>6. ASSUME NEW c \in Clients, ShortWrite(c) \/ WriteRefused(c)
      PROVE  MapOpen'
  <2>1. UNCHANGED <<hub, clients, open>>
    <3>1. CASE ShortWrite(c)
      <4>1. UNCHANGED hubVars /\ UNCHANGED chanVars
        BY <3>1 DEF ShortWrite
      <4> QED BY <4>1 DEF hubVars, chanVars
    <3>2. CASE WriteRefused(c)
      BY <3>2 DEF WriteRefused, hubVars, chanVars
    <3> QED BY <1>6, <3>1, <3>2
  <2>2. \/ UNCHANGED reader
        \/ /\ reader[c] = "ponging"
           /\ \E r \in {"leaving", "reading", "ponging"} :
                reader' = [reader EXCEPT ![c] = r]
    BY <1>6 DEF ShortWrite, Clash, WriteRefused
  <2>3. \A d \in Clients : Waiting(d)' <=> Waiting(d)
    BY <2>2
  <2> QED BY <2>1, <2>3
<1> QED BY <1>1, <1>2, <1>3, <1>4, <1>5, <1>6 DEF Next

(* The hub never sends on a closed channel, whoever unregisters a client,    *)
(* and when: hub.go:27-41 cannot panic.                                      *)
THEOREM WsHubSendsToOpen == Spec => []HubSendsToOpen
<1>1. Init => MapOpen
  BY DEF Init, MapOpen, Waiting
<1>2. MapOpen => HubSendsToOpen
  BY DEF MapOpen, HubSendsToOpen
<1> QED BY <1>1, <1>2, MapOpenNext, WsHubTypeOK, PTL DEF Spec

-----------------------------------------------------------------------------
(* What each step does to the events of one client.                          *)
Untouched(c) == /\ queued'[c] = queued[c] /\ send'[c] = send[c]
                /\ got'[c] = got[c] /\ frame'[c] = frame[c]

Offered(c) == /\ broadcast # <<>>
              /\ queued'[c] = Append(queued[c], Head(broadcast))
              /\ send'[c] = Append(send[c], Head(broadcast))
              /\ got'[c] = got[c] /\ frame'[c] = frame[c]

Taken(c) == /\ send[c] # <<>> /\ writer[c] = "waiting"
            /\ frame'[c] = Head(send[c]) /\ send'[c] = Tail(send[c])
            /\ queued'[c] = queued[c] /\ got'[c] = got[c]

Sent(c) == /\ writer[c] = "writing"
           /\ got'[c] = Append(got[c], frame[c]) /\ frame'[c] = 0
           /\ queued'[c] = queued[c] /\ send'[c] = send[c]

(* A step hands one event to the client, takes one out of its buffer, writes *)
(* one, or leaves its events alone; queues only grow in the first case, and  *)
(* then the event leaves the hub.                                            *)
LEMMA EventSteps ==
  ASSUME TypeOK, [Next]_vars
  PROVE  /\ \/ broadcast' = Tail(broadcast) /\ events' = events
            \/ \A c \in Clients : queued'[c] = queued[c]
         /\ \A c \in Clients :
              \/ Untouched(c) \/ Taken(c) \/ Sent(c)
              \/ Offered(c) /\ broadcast' = Tail(broadcast)
<1> USE DEF TypeOK, Untouched
<1>1. CASE Broadcast \/ Cancel \/ HubDone \/ UNCHANGED vars
  BY <1>1 DEF Broadcast, Cancel, HubDone, vars, hubVars, chanVars, connVars
<1>2. CASE HubBroadcast
  BY <1>2 DEF HubBroadcast, Offered, connVars
<1>3. ASSUME NEW c \in Clients,
             \/ HubRegister(c) \/ HubUnregister(c) \/ Connect(c) \/ PeerGone(c)
             \/ ReadPing(c) \/ Pong(c) \/ ReadClose(c) \/ WriteRefused(c)
             \/ Leave(c)
      PROVE  \A d \in Clients : Untouched(d)
  BY <1>3 DEF HubRegister, HubUnregister, Connect, PeerGone, ReadPing, Pong,
              ReadClose, WriteRefused, Leave, ReadFail, WriteFail, SendClosed,
              chanVars
<1>4. ASSUME NEW c \in Clients, Take(c)
      PROVE  \A d \in Clients : Untouched(d) \/ Taken(d)
  BY <1>4 DEF Take, Taken
<1>5. ASSUME NEW c \in Clients, WriteOk(c) \/ ShortWrite(c)
      PROVE  \A d \in Clients : Untouched(d) \/ Sent(d)
  BY <1>5 DEF WriteOk, ShortWrite, Clash, Written, Sent, chanVars
<1>6. \A c \in Clients : Untouched(c) \/ Taken(c) \/ Sent(c)
        => queued'[c] = queued[c]
  BY DEF Taken, Sent
<1> QED BY <1>1, <1>2, <1>3, <1>4, <1>5, <1>6 DEF Next, HubBroadcast

-----------------------------------------------------------------------------
(* Nothing is lost or repeated between the hub and the connection.           *)

(* The elements of a sequence to which one was appended.                     *)
LEMMA AppendFacts ==
  ASSUME NEW q \in Seq(Nat), NEW e \in Nat
  PROVE  /\ DOMAIN Append(q, e) = 1..(Len(q) + 1)
         /\ \A i \in 1..Len(q) : Append(q, e)[i] = q[i]
         /\ Append(q, e)[Len(q) + 1] = e
OBVIOUS

(* The first element of a sequence and the elements after it.                *)
LEMMA TailFacts ==
  ASSUME NEW q \in Seq(Nat), q # <<>>
  PROVE  /\ Len(q) \in Nat \ {0} /\ DOMAIN q = 1..Len(q)
         /\ Head(q) = q[1]
         /\ DOMAIN Tail(q) = 1..(Len(q) - 1)
         /\ \A i \in 1..(Len(q) - 1) : Tail(q)[i] = q[i + 1]
BY HeadTailProperties, EmptySeq

(* Concatenation is associative.                                             *)
LEMMA Associative ==
  ASSUME NEW p \in Seq(Nat), NEW q \in Seq(Nat), NEW r \in Seq(Nat)
  PROVE  (p \o q) \o r = p \o (q \o r)
BY ConcatAssociative

(* Append is a concatenation.                                               *)
LEMMA AppendConcat ==
  ASSUME NEW q \in Seq(Nat), NEW e \in Nat
  PROVE  /\ Append(q, e) = q \o <<e>>
         /\ Append(q, e) \in Seq(Nat) /\ <<e>> \in Seq(Nat)
<1>1. Append(q, e) = q \o <<e>>
  BY AppendIsConcat
<1>2. Append(q, e) \in Seq(Nat) /\ <<e>> \in Seq(Nat)
  OBVIOUS
<1> QED BY <1>1, <1>2

(* InHandOK is inductive relative to the type invariant and OldestFirst,     *)
(* which keeps 0 from being broadcast.                                       *)
LEMMA InHandNext ==
  TypeOK /\ OldestFirst /\ InHandOK /\ [Next]_vars => InHandOK'
<1> SUFFICES ASSUME TypeOK, OldestFirst, InHandOK, [Next]_vars PROVE InHandOK'
  OBVIOUS
<1>1. \A c \in Clients : FrameOK(c)'
  <2> USE DEF InHandOK, FrameOK, Waiting, TypeOK
  <2>1. CASE Broadcast \/ Cancel \/ HubDone \/ HubBroadcast \/ UNCHANGED vars
    BY <2>1 DEF Broadcast, Cancel, HubDone, HubBroadcast, vars, hubVars, chanVars,
                connVars
  <2>2. ASSUME NEW c \in Clients,
               \/ HubRegister(c) \/ HubUnregister(c) \/ Connect(c) \/ PeerGone(c)
               \/ ReadPing(c) \/ Pong(c) \/ ReadClose(c) \/ WriteRefused(c)
               \/ Leave(c) \/ WriteOk(c)
        PROVE  \A d \in Clients : FrameOK(d)'
    BY <2>2 DEF HubRegister, HubUnregister, Connect, PeerGone, ReadPing, Pong,
                ReadClose, WriteRefused, Leave, ReadFail, WriteFail, SendClosed,
                WriteOk, Written
  <2>3. ASSUME NEW c \in Clients, Take(c)
        PROVE  \A d \in Clients : FrameOK(d)'
    <3>1. Head(send[c]) # 0
      BY <2>3, TailFacts DEF Take, Numbered
    <3> QED BY <2>3, <3>1 DEF Take
  <2>4. ASSUME NEW c \in Clients, ShortWrite(c)
        PROVE  \A d \in Clients : FrameOK(d)'
    BY <2>4 DEF ShortWrite, Clash, Written
  <2> QED BY <2>1, <2>2, <2>3, <2>4 DEF Next
<1>2. ASSUME NEW c \in Clients PROVE Numbered(c)'
  <2>1. CASE send'[c] = send[c]
    BY <2>1 DEF InHandOK, Numbered
  <2>2. CASE Taken(c)
    BY <2>2, TailFacts, send[c] \in Seq(Nat) DEF Taken, InHandOK, Numbered, TypeOK
  <2>3. CASE Offered(c)
    <3>1. Head(broadcast) \in Nat \ {0}
      BY <2>3, TailFacts DEF Offered, OldestFirst, TypeOK
    <3> QED BY <2>3, <3>1, AppendFacts DEF Offered, InHandOK, Numbered, TypeOK
  <2> QED BY <2>1, <2>2, <2>3, EventSteps DEF Untouched, Sent
<1> QED BY <1>1, <1>2 DEF InHandOK

(* One step of a client's events keeps them together.                        *)
LEMMA QueueNext ==
  TypeOK /\ InHandOK /\ QueueIntact /\ [Next]_vars => QueueIntact'
<1> SUFFICES ASSUME TypeOK, InHandOK, QueueIntact, [Next]_vars,
                    NEW c \in Clients
             PROVE  queued'[c] = got'[c] \o InHand(c)' \o send'[c]
  BY DEF QueueIntact
<1>1. /\ queued[c] \in Seq(Nat) /\ send[c] \in Seq(Nat) /\ got[c] \in Seq(Nat)
      /\ frame[c] \in Nat /\ InHand(c) \in Seq(Nat)
      /\ got[c] \o InHand(c) \in Seq(Nat)
  BY DEF TypeOK, InHand
<1>2. queued[c] = got[c] \o InHand(c) \o send[c]
  BY DEF QueueIntact
<1>3. CASE Untouched(c)
  BY <1>2, <1>3 DEF Untouched, InHand
<1>4. CASE Offered(c)
  <2> DEFINE e == Head(broadcast)
  <2>1. e \in Nat
    BY <1>4, HeadTailProperties DEF Offered, TypeOK
  <2>2. InHand(c)' = InHand(c)
    BY <1>4 DEF Offered, InHand
  <2> HIDE DEF e
  <2>3. ASSUME NEW p \in Seq(Nat), NEW q \in Seq(Nat)
        PROVE  Append(p \o q, e) = p \o Append(q, e)
    <3>1. p \o q \in Seq(Nat)
      OBVIOUS
    <3>2. Append(p \o q, e) = (p \o q) \o <<e>> /\ Append(q, e) = q \o <<e>>
      BY <2>1, <3>1, AppendConcat
    <3>3. (p \o q) \o <<e>> = p \o (q \o <<e>>)
      BY <2>1, AppendConcat, Associative
    <3> QED BY <3>2, <3>3
  <2> QED BY <1>1, <1>2, <1>4, <2>2, <2>3 DEF Offered, e
<1>5. CASE Taken(c)
  <2> DEFINE e == Head(send[c])
  <2>1. frame[c] = 0 /\ e # 0
    BY <1>5, TailFacts DEF Taken, InHandOK, FrameOK, Numbered, TypeOK
  <2>2. InHand(c) = <<>> /\ InHand(c)' = <<e>>
    BY <1>5, <2>1 DEF Taken, InHand
  <2>3. e \in Nat /\ Tail(send[c]) \in Seq(Nat) /\ send[c] = <<e>> \o Tail(send[c])
    BY <1>1, <1>5, HeadTailProperties DEF Taken
  <2>4. got[c] \o InHand(c) = got[c]
    BY <1>1, <2>2, ConcatEmptySeq
  <2>5. got[c] \o (<<e>> \o Tail(send[c])) = (got[c] \o <<e>>) \o Tail(send[c])
    <3>1. <<e>> \in Seq(Nat)
      BY <2>3
    <3> HIDE DEF e
    <3> QED BY <1>1, <2>3, <3>1, Associative
  <2> QED BY <1>2, <1>5, <2>2, <2>3, <2>4, <2>5 DEF Taken
<1>6. CASE Sent(c)
  <2>1. frame[c] # 0
    BY <1>6 DEF Sent, InHandOK, FrameOK
  <2>2. InHand(c) = <<frame[c]>> /\ InHand(c)' = <<>>
    BY <1>6, <2>1 DEF Sent, InHand
  <2>3. Append(got[c], frame[c]) = got[c] \o <<frame[c]>>
        /\ Append(got[c], frame[c]) \in Seq(Nat)
    BY <1>1, AppendConcat
  <2>4. got'[c] \o InHand(c)' = got'[c]
    BY <1>6, <2>2, <2>3, ConcatEmptySeq DEF Sent
  <2> QED BY <1>2, <1>6, <2>2, <2>3, <2>4 DEF Sent
<1> QED BY <1>3, <1>4, <1>5, <1>6, EventSteps

-----------------------------------------------------------------------------
(* Order.                                                                    *)

(* The hub's buffer stays in order and within the events broadcast.          *)
LEMMA BroadcastNext ==
  ASSUME TypeOK, OldestFirst, [Next]_vars
  PROVE  /\ Increasing(broadcast')
         /\ \A i \in DOMAIN broadcast' : broadcast'[i] \in 1..events'
         /\ events' \in Nat /\ events <= events'
         /\ \A k \in 0..events :
              (\A j \in DOMAIN broadcast : k < broadcast[j])
                => \A j \in DOMAIN broadcast' : k < broadcast'[j]
<1> USE DEF TypeOK, OldestFirst, Increasing
<1>1. CASE broadcast' = broadcast /\ events' = events
  BY <1>1
<1>2. CASE HubBroadcast
  <2>1. broadcast # <<>> /\ broadcast' = Tail(broadcast) /\ events' = events
    BY <1>2 DEF HubBroadcast
  <2> QED BY <2>1, TailFacts
<1>3. CASE Broadcast /\ broadcast' # broadcast
  <2>1. broadcast' = Append(broadcast, events + 1) /\ events' = events + 1
    BY <1>3 DEF Broadcast
  <2>2. DOMAIN broadcast = 1..Len(broadcast) /\ Len(broadcast) \in Nat
    BY LenProperties
  <2> QED BY <2>1, <2>2, AppendFacts
<1>4. CASE Broadcast /\ broadcast' = broadcast
  BY <1>4 DEF Broadcast
<1>5. Broadcast \/ HubBroadcast \/ (broadcast' = broadcast /\ events' = events)
  BY DEF Next, Cancel, HubDone, HubRegister, HubUnregister, Connect, PeerGone,
         ReadPing, Pong, ReadClose, ShortWrite, WriteRefused, Take, WriteOk, Leave,
         ReadFail, WriteFail, SendClosed, vars, hubVars
<1> QED BY <1>1, <1>2, <1>3, <1>4, <1>5

(* OldestFirst is inductive relative to the type invariant.                  *)
LEMMA OldestFirstNext == TypeOK /\ OldestFirst /\ [Next]_vars => OldestFirst'
<1> SUFFICES ASSUME TypeOK, OldestFirst, [Next]_vars PROVE OldestFirst'
  OBVIOUS
<1>1. ASSUME NEW c \in Clients
      PROVE  /\ Increasing(queued'[c])
             /\ \A i \in DOMAIN queued'[c] :
                  /\ queued'[c][i] <= events'
                  /\ \A j \in DOMAIN broadcast' : queued'[c][i] < broadcast'[j]
  <2>1. /\ queued[c] \in Seq(Nat) /\ broadcast \in Seq(Nat) /\ events \in Nat
        /\ DOMAIN queued[c] = 1..Len(queued[c]) /\ Len(queued[c]) \in Nat
        /\ \A i \in DOMAIN queued[c] : queued[c][i] \in 0..events
    BY LenProperties DEF TypeOK, OldestFirst
  <2>2. CASE queued'[c] = queued[c]
    <3>1. /\ Increasing(queued[c])
          /\ \A i \in DOMAIN queued[c], j \in DOMAIN broadcast :
               queued[c][i] < broadcast[j]
      BY DEF OldestFirst
    <3>2. events' \in Nat /\ events <= events'
      BY BroadcastNext
    <3>3. \A i \in DOMAIN queued[c], j \in DOMAIN broadcast' :
            queued[c][i] < broadcast'[j]
      <4>1. ASSUME NEW i \in DOMAIN queued[c]
            PROVE  /\ queued[c][i] \in 0..events
                   /\ \A j \in DOMAIN broadcast : queued[c][i] < broadcast[j]
        BY <2>1, <3>1
      <4>2. \A k \in 0..events :
              (\A j \in DOMAIN broadcast : k < broadcast[j])
                => \A j \in DOMAIN broadcast' : k < broadcast'[j]
        BY BroadcastNext
      <4> QED BY <4>1, <4>2
    <3>4. \A i \in DOMAIN queued[c] : queued[c][i] <= events'
      BY <2>1, <3>2
    <3>5. Increasing(queued'[c])
      BY <2>2, <3>1
    <3> QED BY <2>2, <3>3, <3>4, <3>5
  <2>3. CASE Offered(c) /\ broadcast' = Tail(broadcast)
    <3> DEFINE e == Head(broadcast)
    <3>1. /\ e \in 1..events /\ e = broadcast[1] /\ 1 \in DOMAIN broadcast
          /\ \A i \in DOMAIN queued[c] : queued[c][i] < e
      BY <2>1, <2>3, TailFacts DEF Offered, OldestFirst
    <3>2. \A j \in DOMAIN broadcast' : e < broadcast'[j]
      BY <2>1, <2>3, <3>1, TailFacts DEF Offered, OldestFirst, Increasing
    <3>3. queued'[c] = Append(queued[c], e)
      BY <2>3 DEF Offered
    <3>4. \A i \in DOMAIN queued[c], j \in DOMAIN broadcast' :
            queued[c][i] < broadcast'[j]
      BY <2>1, BroadcastNext DEF OldestFirst
    <3>5. events' \in Nat /\ events <= events'
      BY BroadcastNext
    <3> HIDE DEF e
    <3>6. e \in Nat /\ e <= events
      BY <2>1, <3>1
    <3>7. /\ DOMAIN queued'[c] = 1..(Len(queued[c]) + 1)
          /\ \A i \in 1..Len(queued[c]) : queued'[c][i] = queued[c][i]
          /\ queued'[c][Len(queued[c]) + 1] = e
      BY <2>1, <3>3, <3>6, AppendFacts
    <3>8. Increasing(queued[c])
      BY DEF OldestFirst
    <3>9. \A i \in 1..Len(queued[c]) :
            queued[c][i] \in Nat /\ queued[c][i] < e
      <4>1. DOMAIN queued[c] = 1..Len(queued[c])
        BY <2>1
      <4>2. \A i \in 1..Len(queued[c]) : queued[c][i] < e
        BY <3>1, <4>1
      <4>3. \A i \in 1..Len(queued[c]) : queued[c][i] \in Nat
        BY <2>1
      <4> QED BY <4>2, <4>3
    <3>10. Increasing(queued'[c])
      <4>1. SUFFICES ASSUME NEW i \in DOMAIN queued'[c],
                            NEW j \in DOMAIN queued'[c], i < j
                     PROVE  queued'[c][i] < queued'[c][j]
        BY DEF Increasing
      <4>2. i \in 1..Len(queued[c]) /\ queued'[c][i] = queued[c][i]
        BY <2>1, <3>7, <4>1
      <4>3. CASE j = Len(queued[c]) + 1
        BY <3>7, <3>9, <4>2, <4>3
      <4>4. CASE j \in 1..Len(queued[c])
        BY <2>1, <3>7, <3>8, <4>1, <4>2, <4>4 DEF Increasing
      <4> QED BY <2>1, <3>7, <4>3, <4>4
    <3>11. ASSUME NEW i \in DOMAIN queued'[c]
           PROVE  \/ i \in DOMAIN queued[c] /\ queued'[c][i] = queued[c][i]
                  \/ queued'[c][i] = e
      BY <2>1, <3>7
    <3>12. \A i \in DOMAIN queued'[c] :
             /\ queued'[c][i] <= events'
             /\ \A j \in DOMAIN broadcast' : queued'[c][i] < broadcast'[j]
      BY <2>1, <3>2, <3>4, <3>5, <3>6, <3>11
    <3> QED BY <3>10, <3>12
  <2> QED BY <2>2, <2>3, EventSteps DEF Untouched, Taken, Sent
<1> QED BY <1>1, BroadcastNext DEF OldestFirst

(* The invariants about events hold initially.                               *)
LEMMA EventsInit == Init => InHandOK /\ OldestFirst /\ QueueIntact
BY DEF Init, InHandOK, FrameOK, Numbered, Waiting, OldestFirst, Increasing,
       QueueIntact, InHand

(* Every event the hub has put into a client's buffer is written once, in    *)
(* hand or still in the buffer, in that order.                               *)
THEOREM WsHubQueueIntact == Spec => []QueueIntact
BY EventsInit, OldestFirstNext, InHandNext, QueueNext, WsHubTypeOK, PTL DEF Spec

(* A client sees events in broadcast order and none twice.                   *)
THEOREM WsHubEventsInOrder == Spec => []EventsInOrder
<1>1. TypeOK /\ OldestFirst /\ QueueIntact => EventsInOrder
  <2> SUFFICES ASSUME TypeOK, OldestFirst, QueueIntact, NEW c \in Clients
               PROVE  Increasing(got[c])
    BY DEF EventsInOrder
  <2> DEFINE rest == InHand(c) \o send[c]
  <2>1. /\ got[c] \in Seq(Nat) /\ InHand(c) \in Seq(Nat) /\ send[c] \in Seq(Nat)
        /\ rest \in Seq(Nat)
    BY DEF TypeOK, InHand
  <2>2. queued[c] = got[c] \o rest
    <3>1. queued[c] = (got[c] \o InHand(c)) \o send[c]
      BY DEF QueueIntact
    <3> QED BY <2>1, <3>1, Associative
  <2>3. Increasing(queued[c])
    BY DEF OldestFirst
  <2> HIDE DEF rest
  <2>4. /\ DOMAIN got[c] \subseteq DOMAIN queued[c]
        /\ \A i \in DOMAIN got[c] : queued[c][i] = got[c][i]
    BY <2>1, <2>2, LenProperties, ConcatProperties
  <2> QED BY <2>3, <2>4 DEF Increasing
<1> QED BY <1>1, EventsInit, OldestFirstNext, WsHubTypeOK, WsHubQueueIntact, PTL
        DEF Spec
=============================================================================
