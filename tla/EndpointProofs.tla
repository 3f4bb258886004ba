--------------------------- MODULE EndpointProofs ----------------------------
(* Theorems about the OCPP endpoint and the lengths of its frames, for any   *)
(* number of connections, chargers and identities.                           *)
EXTENDS OcppEndpoint, FiniteSetTheorems, TLAPS

-----------------------------------------------------------------------------
(* Lengths.                                                                  *)

(* A 16-bit length is the number its two bytes stand for.                    *)
LEMMA Octets16 ==
  ASSUME NEW n \in Nat, n <= 65535
  PROVE  /\ Octet(n, 256) \in Nat /\ Octet(n, 1) \in Nat
         /\ 256 * Octet(n, 256) + Octet(n, 1) = n
  BY SMT DEF Octet

(* So is a longer one: byte by byte from the lowest.                         *)
LEMMA Octets32 ==
  ASSUME NEW n \in Nat, n <= 2147483647
  PROVE  /\ \A unit \in {16777216, 65536, 256, 1} : Octet(n, unit) \in Nat
         /\ 65536 * (256 * Octet(n, 16777216) + Octet(n, 65536))
              + (256 * Octet(n, 256) + Octet(n, 1)) = n
<1> DEFINE a == n \div 256
           b == n \div 65536
           c == n \div 16777216
<1>1. n = 256 * a + (n % 256) /\ a \in Nat /\ a <= 8388607
  BY SMT
<1>2. a = 256 * b + (a % 256) /\ b \in Nat /\ b <= 32767
  <2>1. b = a \div 256
    BY SMT
  <2> QED
    BY SMT, <1>1, <2>1
<1>3. b = 256 * c + (b % 256) /\ c \in Nat /\ c <= 127
  <2>1. c = b \div 256
    BY SMT
  <2> QED
    BY SMT, <1>2, <2>1
<1>4. c % 256 = c /\ n \div 1 = n
  BY SMT, <1>3
<1> QED
  BY SMT, <1>1, <1>2, <1>3, <1>4 DEF Octet

(* Whatever the length, the frame is read with the length it was written:    *)
(* the three forms of writeTextFrame, masked or not, and the control frames. *)
THEOREM LengthReadsBack ==
  ASSUME NEW n \in Nat, n <= 2147483647
  PROVE  ReadsBack(n)
<1>1. ReadLength(ControlLength(n)) = ControlPayload(n)
  BY SMT DEF ReadLength, ControlLength, ControlPayload
<1>2. CASE n <= 125
  <2>1. TextLength(n) = <<n>> /\ Masked(TextLength(n)) = <<n + 128>>
    BY SMT, <1>2 DEF TextLength, Masked
  <2> QED
    BY SMT, <1>1, <1>2, <2>1 DEF ReadsBack, ReadLength
<1>3. CASE n > 125 /\ n <= 65535
  <2> DEFINE b == Octet(n, 256)
             a == Octet(n, 1)
  <2>1. TextLength(n) = <<126, b, a>>
    BY SMT, <1>3 DEF TextLength, Fits16
  <2>2. a \in Nat /\ b \in Nat /\ 256 * b + a = n
    BY SMT, <1>3, Octets16
  <2> HIDE DEF a, b
  <2>3. Masked(TextLength(n)) = <<254, b, a>>
    BY SMT, <2>1 DEF Masked
  <2> QED
    BY SMT, <1>1, <2>1, <2>2, <2>3 DEF ReadsBack, ReadLength, Uint16
<1>4. CASE n > 65535
  <2> DEFINE d == Octet(n, 16777216)
             c == Octet(n, 65536)
             b == Octet(n, 256)
             a == Octet(n, 1)
  <2>1. TextLength(n) = <<127, 0, 0, 0, 0, d, c, b, a>>
    BY SMT, <1>4 DEF TextLength, Fits16
  <2>2. /\ a \in Nat /\ b \in Nat /\ c \in Nat /\ d \in Nat
        /\ 65536 * (256 * d + c) + (256 * b + a) = n
    BY SMT, Octets32
  <2> HIDE DEF a, b, c, d
  <2>3. Masked(TextLength(n)) = <<255, 0, 0, 0, 0, d, c, b, a>>
    BY SMT, <2>1 DEF Masked
  <2> QED
    BY SMT, <1>1, <2>1, <2>2, <2>3 DEF ReadsBack, ReadLength, Uint16, Uint64
<1> QED
  BY SMT, <1>2, <1>3, <1>4

-----------------------------------------------------------------------------
(* Types.                                                                    *)

(* Initially nobody is known and no connection is open.                      *)
LEMMA TypeInit == Init => TypeOK
  BY DEF Init, TypeOK

(* What other requests do to the registries keeps the types.                 *)
LEMMA TypeRegistries ==
  ASSUME TypeOK,
         NEW newFleet \in [FleetIds -> Identities \cup {Nobody}],
         NEW newLegacy \in [LegacyIds -> Identities \cup {Nobody}],
         Registries(newFleet, newLegacy)
  PROVE  TypeOK'
  BY DEF Registries, TypeOK, peerVars, Fleet, Legacy

(* The peer's steps keep the types.                                          *)
LEMMA TypePeer ==
  ASSUME TypeOK, NEW k \in Conns,
         \/ \E frame \in Frame : Send(k, frame)
         \/ PeerGone(k)
  PROVE  TypeOK'
<1>1. CASE PeerGone(k)
  BY <1>1 DEF PeerGone, TypeOK, registries
<1>2. ASSUME NEW frame \in Frame, Send(k, frame)
      PROVE  TypeOK'
  BY <1>2 DEF Send, TypeOK, registries
<1> QED
  BY <1>1, <1>2

(* A frame is read off a non-empty inbox.                                    *)
LEMMA TypeRead ==
  ASSUME TypeOK, NEW k \in Conns,
         ReadBoot(k) \/ Ignore(k) \/ ReadPing(k) \/ ReadClose(k) \/ ReadFail(k)
  PROVE  TypeOK'
<1>1. inbox[k] # <<>> => Tail(inbox[k]) \in Seq(Frame)
  BY DEF TypeOK
<1>2. CASE ReadBoot(k)
  BY <1>1, <1>2 DEF ReadBoot, Read, Goto, TypeOK, Fleet, Legacy, Busy
<1>3. CASE Ignore(k)
  BY <1>1, <1>3 DEF Ignore, Read, TypeOK
<1>4. CASE ReadPing(k)
  BY <1>1, <1>4 DEF ReadPing, Read, Goto, TypeOK, Busy
<1>5. CASE ReadClose(k)
  BY <1>1, <1>5 DEF ReadClose, Read, Return, Goto, TypeOK
<1>6. CASE ReadFail(k)
  BY <1>6 DEF ReadFail, Return, Goto, TypeOK, registries
<1> QED
  BY <1>2, <1>3, <1>4, <1>5, <1>6

(* A charger found, or the identity in its place, is a name.                 *)
LEMMA TypeFound ==
  ASSUME TypeOK, NEW k \in Conns,
         NEW id \in FleetIds \cup LegacyIds \cup Identities \cup {Nobody},
         NEW point \in {"legacy", "reply"}, Found(k, id, point), at[k] # "closed"
  PROVE  TypeOK'
  BY DEF Found, Goto, TypeOK, registries, peerVars, Busy

(* The other steps of a connection's goroutine keep the types.               *)
LEMMA TypeAnswer ==
  ASSUME TypeOK, NEW k \in Conns,
         \/ Upgrade(k) \/ FindByOCPPIdentity(k) \/ FindChargerByChargePointID(k)
         \/ EmitEvent(k) \/ WriteText(k) \/ Pong(k)
  PROVE  TypeOK'
<1>1. CASE Upgrade(k)
  BY <1>1 DEF Upgrade, Goto, TypeOK, registries, peerVars
<1>2. CASE FindByOCPPIdentity(k)
  BY <1>2, TypeFound DEF FindByOCPPIdentity, Fleet
<1>3. CASE FindChargerByChargePointID(k)
  BY <1>3, TypeFound DEF FindChargerByChargePointID, Legacy, TypeOK
<1>4. CASE EmitEvent(k)
  BY <1>4 DEF EmitEvent, Goto, TypeOK, peerVars
<1>5. CASE WriteText(k)
  BY <1>5 DEF WriteText, Written, Goto, TypeOK, registries, peerVars
<1>6. CASE Pong(k)
  <2>1. at[k] = "pong" /\ UNCHANGED <<registries, inbox, sent, identity, name, said>>
    BY <1>6 DEF Pong
  <2>2. CASE Written(k, "pong") /\ Goto(k, "read") /\ UNCHANGED link
    BY <2>1, <2>2 DEF Written, Goto, TypeOK, registries
  <2>3. CASE Return(k) /\ UNCHANGED out
    BY <2>1, <2>3 DEF Return, Goto, TypeOK, registries
  <2> QED
    BY <1>6, <2>2, <2>3 DEF Pong
<1> QED
  BY <1>1, <1>2, <1>3, <1>4, <1>5, <1>6

(* Every step keeps the types.                                               *)
LEMMA TypeNext == TypeOK /\ [Next]_vars => TypeOK'
<1> SUFFICES ASSUME TypeOK, [Next]_vars
             PROVE  TypeOK'
  OBVIOUS
<1>1. ASSUME NEW f \in FleetIds, ChangeFleet(f)
      PROVE  TypeOK'
  <2>1. PICK id \in Identities \cup {Nobody} :
          Registries([fleet EXCEPT ![f] = id], legacy)
    BY <1>1 DEF ChangeFleet
  <2> QED
    BY <2>1, TypeRegistries DEF TypeOK
<1>2. ASSUME NEW l \in LegacyIds, ChangeLegacy(l)
      PROVE  TypeOK'
  <2>1. PICK id \in Identities \cup {Nobody} :
          Registries(fleet, [legacy EXCEPT ![l] = id])
    BY <1>2 DEF ChangeLegacy
  <2> QED
    BY <2>1, TypeRegistries DEF TypeOK
<1>3. CASE UNCHANGED vars
  BY <1>3 DEF vars, registries, peerVars, TypeOK
<1>4. ASSUME NEW k \in Conns,
             Upgrade(k) \/ Handle(k) \/ WriteFrame(k)
      PROVE  TypeOK'
  BY <1>4, TypeRead, TypeAnswer DEF Handle, WriteFrame
<1>5. ASSUME NEW k \in Conns,
             (\E frame \in Frame : Send(k, frame)) \/ PeerGone(k)
      PROVE  TypeOK'
  BY <1>5, TypePeer
<1> QED
  BY <1>1, <1>2, <1>3, <1>4, <1>5 DEF Next

(* The endpoint's state stays well typed, and a handler that has returned    *)
(* has closed its connection.                                                *)
THEOREM EndpointTypeOK == Spec => []TypeOK
  BY TypeInit, TypeNext, PTL DEF Spec

(* Whatever a handler is about to write is read back with its length, for    *)
(* every length an instance allows.                                          *)
THEOREM EndpointFrames == Spec => []FramesReadBack
<1>1. FramesReadBack
  BY LengthReadsBack, EndpointAssumption DEF FramesReadBack
<1> QED
  BY <1>1, PTL
-----------------------------------------------------------------------------
(* Whom a boot names.                                                        *)

Booting(k) == at[k] \in {"find", "legacy", "reply", "emit"}
Holders(k) == Fleet(fleet, identity[k])

(* While a boot is at hand, whoever has its identity is among the bearers;   *)
(* "always" means that a fleet charger has it now; and a handler that goes   *)
(* on to the legacy registry has met a moment when none had.                 *)
BootOK(k) ==
  /\ always[k] => Holders(k) # {}
  /\ at[k] = "legacy" => ~always[k]
  /\ Booting(k) => Holders(k) \cup Legacy(legacy, identity[k]) \subseteq bearers[k]
  /\ at[k] \in {"reply", "emit"} =>
       /\ name[k] \in bearers[k] \cup {identity[k]}
       /\ always[k] => name[k] \in bearers[k] \cap FleetIds

(* What other requests do to the registries is followed by the bearers.      *)
LEMMA BootRegistries ==
  ASSUME TypeOK, NEW newFleet, NEW newLegacy, Registries(newFleet, newLegacy),
         NEW k \in Conns, BootOK(k)
  PROVE  BootOK(k)'
<1>1. /\ at' = at /\ identity' = identity /\ name' = name
      /\ Holders(k)' = Fleet(newFleet, identity[k])
      /\ Legacy(legacy, identity[k])' = Legacy(newLegacy, identity[k])
  BY DEF Registries, Holders, Fleet, Legacy
<1>2. always'[k] = (always[k] /\ Fleet(newFleet, identity[k]) # {})
  BY DEF Registries
<1>3. Booting(k) => bearers'[k] = bearers[k] \cup Fleet(newFleet, identity[k])
                                    \cup Legacy(newLegacy, identity[k])
  BY DEF Registries, Booting
<1> QED
  BY <1>1, <1>2, <1>3 DEF BootOK, Booting

(* A step that leaves the registries alone and concerns another connection,  *)
(* or only the link or the frames of this one, disturbs nothing.             *)
LEMMA BootKept ==
  ASSUME NEW k \in Conns, BootOK(k), fleet' = fleet, legacy' = legacy,
         identity' = identity, at'[k] = at[k], name'[k] = name[k],
         always'[k] = always[k], bearers'[k] = bearers[k]
  PROVE  BootOK(k)'
  BY DEF BootOK, Booting, Holders, Fleet, Legacy

(* Nor does one after which no boot is at hand.                              *)
LEMMA BootOver ==
  ASSUME NEW k \in Conns, BootOK(k), UNCHANGED <<fleet, legacy, identity>>,
         ~Booting(k)', always'[k] => always[k]
  PROVE  BootOK(k)'
  BY DEF BootOK, Booting, Holders, Fleet, Legacy

(* The goroutine's own steps.                                                *)
LEMMA BootStep ==
  ASSUME TypeOK, NEW k \in Conns, Handle(k) \/ WriteFrame(k), BootOK(k)
  PROVE  BootOK(k)'
<1>1. CASE ReadBoot(k)
  BY <1>1 DEF ReadBoot, Read, Goto, TypeOK, BootOK, Booting, Holders, Fleet, Legacy
<1>2. CASE Ignore(k)
  BY <1>2, BootKept DEF Ignore, Read
<1>3. CASE ReadPing(k)
  BY <1>3, BootOver DEF ReadPing, Read, Goto, TypeOK, Booting
<1>4. CASE ReadClose(k)
  BY <1>4, BootOver DEF ReadClose, Read, Return, Goto, TypeOK, Booting
<1>5. CASE ReadFail(k)
  BY <1>5, BootOver DEF ReadFail, Return, Goto, TypeOK, Booting, registries
<1>6. CASE FindByOCPPIdentity(k)
  <2>1. UNCHANGED registries /\ identity' = identity
    BY <1>6 DEF FindByOCPPIdentity, Found
  <2>2. CASE \E f \in Fleet(fleet, identity[k]) : Found(k, f, "reply")
    BY <1>6, <2>1, <2>2
    DEF FindByOCPPIdentity, Found, Goto, TypeOK, BootOK, Booting, Holders, Fleet, Legacy,
        registries
  <2>3. CASE Fleet(fleet, identity[k]) = {} /\ Found(k, Nobody, "legacy")
    BY <1>6, <2>1, <2>3
    DEF FindByOCPPIdentity, Found, Goto, TypeOK, BootOK, Booting, Holders, Fleet, Legacy,
        registries
  <2> QED
    BY <1>6, <2>2, <2>3 DEF FindByOCPPIdentity
<1>7. CASE FindChargerByChargePointID(k)
  <2>1. PICK id \in Legacy(legacy, identity[k]) \cup {identity[k]} :
          Found(k, id, "reply")
    BY <1>7 DEF FindChargerByChargePointID
  <2>2. at[k] = "legacy" /\ ~always[k]
    BY <1>7 DEF FindChargerByChargePointID, BootOK
  <2>3. /\ UNCHANGED <<fleet, legacy, always, bearers, identity>>
        /\ at'[k] = "reply" /\ name'[k] = id
    BY <2>1 DEF Found, Goto, TypeOK, registries
  <2> QED
    BY <2>1, <2>2, <2>3 DEF BootOK, Booting, Holders, Fleet, Legacy
<1>8. CASE EmitEvent(k)
  BY <1>8, BootOver DEF EmitEvent, Goto, TypeOK, Booting
<1>9. CASE WriteText(k)
  BY <1>9 DEF WriteText, Goto, TypeOK, BootOK, Booting, Holders, Fleet, Legacy, registries
<1>10. CASE Pong(k)
  BY <1>10, BootOver DEF Pong, Return, Goto, TypeOK, Booting, registries
<1> QED
  BY <1>1, <1>2, <1>3, <1>4, <1>5, <1>6, <1>7, <1>8, <1>9, <1>10 DEF Handle, WriteFrame

(* No step of one connection touches what the boot of another one rests on.  *)
LEMMA OtherConnection ==
  ASSUME TypeOK, NEW k \in Conns, NEW j \in Conns \ {k}, BootOK(j),
         \/ Upgrade(k) \/ Handle(k) \/ WriteFrame(k)
         \/ \E frame \in Frame : Send(k, frame)
         \/ PeerGone(k)
  PROVE  BootOK(j)'
<1>1. /\ fleet' = fleet /\ legacy' = legacy /\ identity' = identity
      /\ at'[j] = at[j] /\ name'[j] = name[j]
      /\ always'[j] = always[j] /\ bearers'[j] = bearers[j]
  <2>1. CASE Upgrade(k) \/ PeerGone(k) \/ \E frame \in Frame : Send(k, frame)
    BY <2>1 DEF Upgrade, PeerGone, Send, Goto, TypeOK, registries
  <2>2. CASE WriteFrame(k)
    BY <2>2 DEF WriteFrame, WriteText, Pong, Return, Goto, TypeOK, registries
  <2>3. CASE FindByOCPPIdentity(k) \/ FindChargerByChargePointID(k) \/ EmitEvent(k)
    BY <2>3 DEF FindByOCPPIdentity, FindChargerByChargePointID, Found, EmitEvent, Goto,
                TypeOK, registries
  <2>4. CASE ReadBoot(k) \/ Ignore(k) \/ ReadPing(k) \/ ReadClose(k) \/ ReadFail(k)
    BY <2>4 DEF ReadBoot, Ignore, ReadPing, ReadClose, ReadFail, Read, Return, Goto,
                TypeOK, registries
  <2> QED
    BY <2>1, <2>2, <2>3, <2>4 DEF Handle
<1> QED
  BY <1>1, BootKept

(* A new connection, or what the peer of one does, is not about a boot.      *)
LEMMA BootPeer ==
  ASSUME TypeOK, NEW k \in Conns, BootOK(k),
         \/ Upgrade(k)
         \/ \E frame \in Frame : Send(k, frame)
         \/ PeerGone(k)
  PROVE  BootOK(k)'
<1>1. CASE Upgrade(k)
  BY <1>1, BootOver DEF Upgrade, Goto, TypeOK, Booting, registries
<1>2. CASE PeerGone(k) \/ \E frame \in Frame : Send(k, frame)
  BY <1>2, BootKept DEF PeerGone, Send, registries
<1> QED
  BY <1>1, <1>2

BootInv == \A k \in Conns : BootOK(k)

(* BootInv is inductive relative to the type invariant.                      *)
LEMMA BootNext == TypeOK /\ BootInv /\ [Next]_vars => BootInv'
<1> SUFFICES ASSUME TypeOK, BootInv, [Next]_vars, NEW j \in Conns
             PROVE  BootOK(j)'
  BY DEF BootInv
<1>1. ASSUME NEW f \in FleetIds, ChangeFleet(f)
      PROVE  BootOK(j)'
  BY <1>1, BootRegistries DEF ChangeFleet, BootInv
<1>2. ASSUME NEW l \in LegacyIds, ChangeLegacy(l)
      PROVE  BootOK(j)'
  BY <1>2, BootRegistries DEF ChangeLegacy, BootInv
<1>3. ASSUME NEW k \in Conns,
             \/ Upgrade(k) \/ Handle(k) \/ WriteFrame(k)
             \/ \E frame \in Frame : Send(k, frame)
             \/ PeerGone(k)
      PROVE  BootOK(j)'
  <2>1. CASE j = k
    BY <1>3, <2>1, BootStep, BootPeer DEF BootInv
  <2>2. CASE j # k
    BY <1>3, <2>2, OtherConnection DEF BootInv
  <2> QED
    BY <2>1, <2>2
<1>4. CASE UNCHANGED vars
  BY <1>4, BootKept DEF vars, registries, peerVars, BootInv
<1> QED
  BY <1>1, <1>2, <1>3, <1>4 DEF Next

(* A boot is announced for a charger that had the identity while it was      *)
(* handled, and for one of the fleet if there was one all the time.          *)
THEOREM EndpointBearer == Spec => []BootNamesBearer
<1>1. Init => BootInv
  BY DEF Init, BootInv, BootOK, Booting
<1>2. BootInv => BootNamesBearer
  BY DEF BootInv, BootOK, BootNamesBearer
<1> QED
  BY <1>1, <1>2, EndpointTypeOK, BootNext, PTL DEF Spec
-----------------------------------------------------------------------------
(* Answers in order.                                                         *)

(* The positions of some kinds among the first n frames, and among one more. *)
LEMMA PositionFacts ==
  ASSUME NEW frames, NEW kinds, NEW n \in Nat
  PROVE  /\ Cardinality(Positions(frames, kinds, n)) \in Nat
         /\ frames[n + 1] \in kinds =>
              /\ Positions(frames, kinds, n + 1)
                   = Positions(frames, kinds, n) \cup {n + 1}
              /\ Cardinality(Positions(frames, kinds, n + 1))
                   = Cardinality(Positions(frames, kinds, n)) + 1
         /\ frames[n + 1] \notin kinds =>
              Positions(frames, kinds, n + 1) = Positions(frames, kinds, n)
<1> DEFINE old == Positions(frames, kinds, n)
<1>1. IsFiniteSet(old) /\ n + 1 \notin old
  <2>1. IsFiniteSet(1..n)
    BY FS_Interval
  <2>2. old \subseteq 1..n
    BY DEF Positions
  <2> QED BY <2>1, <2>2, FS_Subset
<1>2. 1..(n + 1) = (1..n) \cup {n + 1}
  OBVIOUS
<1>3. frames[n + 1] \in kinds =>
        Positions(frames, kinds, n + 1) = old \cup {n + 1}
  BY <1>2 DEF Positions
<1>4. frames[n + 1] \notin kinds => Positions(frames, kinds, n + 1) = old
  BY <1>2 DEF Positions
<1> HIDE DEF old
<1>5. /\ Cardinality(old) \in Nat
      /\ Cardinality(old \cup {n + 1}) = Cardinality(old) + 1
  BY <1>1, FS_CardinalityType, FS_AddElement
<1> QED BY <1>3, <1>4, <1>5 DEF old

(* Nothing is asked, and nothing answered, in no frames.                     *)
LEMMA AnsweredNothing ==
  ASSUME NEW frames
  PROVE  Answered(frames, 0, <<>>) /\ \A kinds : Positions(frames, kinds, 0) = {}
<1>1. \A kinds : Positions(frames, kinds, 0) = {}
  BY DEF Positions
<1>2. Cardinality({}) = 0 /\ Len(<<>>) = 0
  BY FS_EmptySet
<1> QED BY <1>1, <1>2 DEF Answered

(* A frame sent later changes nothing.                                       *)
LEMMA AnsweredSend ==
  ASSUME NEW frames \in Seq(Frame), NEW frame \in Frame, NEW n \in Nat,
         n <= Len(frames)
  PROVE  /\ \A answers : Answered(frames, n, answers)
                          => Answered(Append(frames, frame), n, answers)
         /\ \A kinds : Positions(Append(frames, frame), kinds, n)
                        = Positions(frames, kinds, n)
<1> DEFINE more == Append(frames, frame)
<1>1. \A i \in 1..n : more[i] = frames[i]
  OBVIOUS
<1> HIDE DEF more
<1>2. ASSUME NEW kinds, NEW m \in 0..n
      PROVE  Positions(more, kinds, m) = Positions(frames, kinds, m)
  <2>1. \A i \in 1..m : more[i] = frames[i]
    BY <1>1
  <2> QED BY <2>1 DEF Positions
<1>3. n \in 0..n /\ \A i \in Positions(frames, Asking, n) : i \in 0..n /\ i \in 1..n
  BY DEF Positions
<1> QED BY <1>1, <1>2, <1>3 DEF Answered, more

(* Nor does a frame that asks for nothing.                                   *)
LEMMA AnsweredIgnored ==
  ASSUME NEW frames, NEW n \in Nat, NEW answers,
         frames[n + 1] \notin Asking, Answered(frames, n, answers)
  PROVE  Answered(frames, n + 1, answers)
<1>1. Positions(frames, Asking, n + 1) = Positions(frames, Asking, n)
  BY PositionFacts
<1> QED BY <1>1 DEF Answered

(* The answer to the next frame comes next.                                  *)
LEMMA AnsweredNext ==
  ASSUME NEW frames, NEW n \in Nat, NEW answers \in Seq({"accepted", "pong"}),
         Answered(frames, n, answers), frames[n + 1] \in Asking
  PROVE  /\ frames[n + 1] = "boot" =>
              Answered(frames, n + 1, Append(answers, "accepted"))
         /\ frames[n + 1] = "ping" =>
              Answered(frames, n + 1, Append(answers, "pong"))
<1> DEFINE Asked(i) == Positions(frames, Asking, i)
           answer == IF frames[n + 1] = "boot" THEN "accepted" ELSE "pong"
           new == Append(answers, answer)
<1>1. /\ Asked(n + 1) = Asked(n) \cup {n + 1}
      /\ Cardinality(Asked(n + 1)) = Cardinality(Asked(n)) + 1
  BY PositionFacts
<1>2. /\ Len(answers) = Cardinality(Asked(n)) /\ Len(answers) \in Nat
      /\ Len(new) = Len(answers) + 1 /\ new[Len(answers) + 1] = answer
      /\ \A m \in 1..Len(answers) : new[m] = answers[m]
  <2>1. answer \in {"accepted", "pong"}
    OBVIOUS
  <2> HIDE DEF answer
  <2> QED BY <2>1 DEF Answered
<1>3. ASSUME NEW i \in Asked(n)
      PROVE  Cardinality(Asked(i)) \in 1..Len(answers)
  <2>1. i \in 1..n /\ i \in Asked(i) /\ Asked(i) \subseteq Asked(n)
    BY DEF Positions
  <2>2. IsFiniteSet(Asked(n))
    <3>1. IsFiniteSet(1..n) /\ Asked(n) \subseteq 1..n
      BY FS_Interval DEF Positions
    <3> QED BY <3>1, FS_Subset
  <2> HIDE DEF Asked
  <2>3. IsFiniteSet(Asked(i)) /\ Cardinality(Asked(i)) <= Cardinality(Asked(n))
    BY <2>1, <2>2, FS_Subset
  <2>4. Cardinality(Asked(i)) \in Nat /\ Cardinality(Asked(i)) # 0
    BY <2>1, <2>3, FS_CardinalityType, FS_EmptySet
  <2> QED BY <1>2, <2>3, <2>4
<1>4. \A i \in Asked(n) : answers[Cardinality(Asked(i))]
                            = IF frames[i] = "boot" THEN "accepted" ELSE "pong"
  BY DEF Answered
<1> HIDE DEF Asked, new, answer
<1>5. ASSUME NEW i \in Asked(n + 1)
      PROVE  new[Cardinality(Asked(i))]
               = IF frames[i] = "boot" THEN "accepted" ELSE "pong"
  <2>1. CASE i \in Asked(n)
    BY <1>2, <1>3, <1>4, <2>1
  <2>2. CASE i = n + 1
    BY <1>1, <1>2, <2>2 DEF answer
  <2> QED BY <1>1, <2>1, <2>2
<1>6. Len(new) = Cardinality(Asked(n + 1))
  BY <1>1, <1>2
<1>7. /\ frames[n + 1] = "boot" => new = Append(answers, "accepted")
      /\ frames[n + 1] = "ping" => new = Append(answers, "pong")
  BY DEF new, answer
<1>8. Answered(frames, n + 1, new)
  BY <1>5, <1>6 DEF Answered, Asked
<1> QED BY <1>7, <1>8

(* The frames of k that were read, the one at hand included.                 *)
Taken(k) == Len(sent[k]) - Len(inbox[k])

(* The inbox is the rest of what was sent, and the frame at hand is the last *)
(* one that was read.                                                        *)
InboxOK(k) ==
  /\ Len(inbox[k]) <= Len(sent[k])
  /\ \A i \in 1..Len(inbox[k]) : inbox[k][i] = sent[k][Taken(k) + i]
  /\ at[k] \in Busy => Taken(k) > 0
  /\ at[k] \in {"find", "legacy", "reply"} => sent[k][Taken(k)] = "boot"
  /\ at[k] = "pong" => sent[k][Taken(k)] = "ping"

AnsweredSoFar(k) ==
  link[k] = "up" => Answered(sent[k], Handled(k), out[k])

(* The counts of a connection are numbers.                                   *)
LEMMA CountTypes ==
  ASSUME TypeOK, NEW k \in Conns, InboxOK(k)
  PROVE  /\ Taken(k) \in Nat /\ Taken(k) <= Len(sent[k]) /\ said[k] \in Nat
         /\ Handled(k) = IF at[k] \in Busy THEN Taken(k) - 1 ELSE Taken(k)
         /\ Handled(k) \in Nat /\ Handled(k) <= Len(sent[k])
         /\ at[k] = "emit" => at[k] \notin Busy
<1>1. Len(inbox[k]) \in Nat /\ Len(sent[k]) \in Nat /\ said[k] \in Nat
  BY DEF TypeOK
<1>2. at[k] = "emit" => at[k] \notin Busy
  BY DEF Busy
<1>3. Taken(k) \in Nat /\ Taken(k) <= Len(sent[k])
  <2>1. PICK m \in Nat, n \in Nat : m = Len(inbox[k]) /\ n = Len(sent[k])
    BY <1>1
  <2>2. m <= n /\ Taken(k) = n - m
    BY <2>1 DEF InboxOK, Taken
  <2>3. n - m \in Nat /\ n - m <= n
    BY <2>2
  <2> QED BY <2>1, <2>2, <2>3
<1>4. Handled(k) = Taken(k) - IF at[k] \in Busy THEN 1 ELSE 0
  BY DEF Handled, Taken
<1>5. at[k] \in Busy => Taken(k) > 0
  BY DEF InboxOK
<1> HIDE DEF Taken, Handled
<1>6. CASE at[k] \in Busy
  BY <1>1, <1>2, <1>3, <1>4, <1>5, <1>6
<1>7. CASE at[k] \notin Busy
  BY <1>1, <1>2, <1>3, <1>4, <1>7
<1> QED BY <1>6, <1>7

(* Steps that leave the frames alone.                                        *)
LEMMA InboxKept ==
  ASSUME NEW k \in Conns, InboxOK(k), sent'[k] = sent[k], inbox'[k] = inbox[k],
         at'[k] \in Busy => at[k] \in Busy,
         at'[k] \in {"legacy", "reply"} => at[k] \in {"find", "legacy", "reply"},
         at'[k] = "find" => at[k] = "find", at'[k] = "pong" => at[k] = "pong"
  PROVE  InboxOK(k)' /\ Taken(k)' = Taken(k)
BY DEF InboxOK, Taken

(* Steps that leave the frames and the answers alone.                        *)
LEMMA AnswersKept ==
  ASSUME NEW k \in Conns, AnsweredSoFar(k), sent'[k] = sent[k],
         inbox'[k] = inbox[k], out'[k] = out[k], said'[k] = said[k],
         link'[k] = "up" => link[k] = "up",
         link'[k] = "up" => (at'[k] \in Busy <=> at[k] \in Busy),
         link'[k] = "up" => (at'[k] = "emit" <=> at[k] = "emit")
  PROVE  AnsweredSoFar(k)'
BY DEF AnsweredSoFar, Handled

(* What was read is the next frame sent.                                     *)
LEMMA ReadFrame ==
  ASSUME TypeOK, NEW k \in Conns, InboxOK(k), NEW frame, Read(k, frame)
  PROVE  /\ Taken(k)' = Taken(k) + 1 /\ sent' = sent
         /\ sent[k][Taken(k) + 1] = frame /\ at[k] = "read"
         /\ Len(inbox'[k]) <= Len(sent'[k])
         /\ \A i \in 1..Len(inbox'[k]) :
              inbox'[k][i] = sent'[k][Taken(k)' + i]
<1>1. PICK q \in Seq(Frame) : q = inbox[k]
  BY DEF TypeOK
<1>2. /\ q # <<>> /\ Head(q) = frame /\ inbox'[k] = Tail(q) /\ sent' = sent
      /\ at[k] = "read"
  BY <1>1 DEF Read, TypeOK
<1>3. /\ Len(q) \in Nat \ {0} /\ Head(q) = q[1] /\ Len(Tail(q)) = Len(q) - 1
      /\ \A i \in 1..(Len(q) - 1) : Tail(q)[i] = q[i + 1]
  BY <1>2
<1>4. Len(sent[k]) \in Nat
  BY DEF TypeOK
<1>5. /\ Len(q) <= Len(sent[k])
      /\ \A i \in 1..Len(q) : q[i] = sent[k][Taken(k) + i]
  BY <1>1 DEF InboxOK
<1>6. Taken(k) = Len(sent[k]) - Len(q)
  BY <1>1 DEF Taken
<1>7. Taken(k)' = Taken(k) + 1 /\ Taken(k) \in Int
  <2>1. Taken(k)' = Len(sent[k]) - Len(Tail(q))
    BY <1>2 DEF Taken
  <2> QED BY <1>3, <1>4, <1>6, <2>1
<1>8. sent[k][Taken(k) + 1] = frame
  BY <1>2, <1>3, <1>5
<1>9. ASSUME NEW i \in 1..(Len(q) - 1)
      PROVE  Tail(q)[i] = sent[k][Taken(k)' + i]
  <2>1. PICK t \in Int : t = Taken(k)
    BY <1>7
  <2>2. i + 1 \in 1..Len(q) /\ t + (i + 1) = (t + 1) + i
    BY <1>3, <2>1
  <2>3. q[i + 1] = sent[k][t + (i + 1)]
    BY <1>5, <2>1, <2>2
  <2> QED BY <1>3, <1>7, <2>1, <2>2, <2>3
<1> QED BY <1>2, <1>3, <1>4, <1>5, <1>7, <1>8, <1>9

(* Reading takes a frame in hand; one that asks for nothing is dealt with.   *)
LEMMA AnswersAfterRead ==
  ASSUME TypeOK, NEW k \in Conns, InboxOK(k), AnsweredSoFar(k),
         ReadBoot(k) \/ Ignore(k) \/ ReadPing(k) \/ ReadClose(k)
  PROVE  InboxOK(k)' /\ AnsweredSoFar(k)'
<1>1. PICK frame \in {"boot", "other", "skip", "ping", "close"} :
        /\ Read(k, frame)
        /\ \/ frame = "boot" /\ ReadBoot(k)
           \/ frame \in {"other", "skip"} /\ Ignore(k)
           \/ frame = "ping" /\ ReadPing(k)
           \/ frame = "close" /\ ReadClose(k)
  BY DEF ReadBoot, Ignore, ReadPing, ReadClose
<1>2. /\ Taken(k)' = Taken(k) + 1 /\ sent' = sent
      /\ sent[k][Taken(k) + 1] = frame /\ at[k] = "read"
      /\ Len(inbox'[k]) <= Len(sent'[k])
      /\ \A i \in 1..Len(inbox'[k]) : inbox'[k][i] = sent'[k][Taken(k)' + i]
  BY <1>1, ReadFrame
<1>3. /\ at'[k] = IF frame = "boot" THEN "find" ELSE IF frame = "ping" THEN "pong"
                  ELSE IF frame = "close" THEN "closed" ELSE "read"
      /\ link'[k] = IF frame = "close" THEN "down" ELSE link[k]
      /\ UNCHANGED <<out, said>>
  BY <1>1, <1>2 DEF Read, ReadBoot, Ignore, ReadPing, ReadClose, Return, Goto, TypeOK
<1>4. Taken(k) \in Nat /\ Handled(k) = Taken(k)
  BY <1>2, CountTypes DEF Busy
<1>5. at'[k] \in Busy <=> frame \in {"boot", "ping"}
  BY <1>3 DEF Busy
<1>6. InboxOK(k)'
  BY <1>2, <1>3, <1>4, <1>5 DEF InboxOK
<1>7. CASE frame \in {"boot", "ping"}
  <2>1. Handled(k)' = Taken(k)
    <3>1. Handled(k)' = Taken(k)' - 1
      BY <1>5, <1>7 DEF Handled, Taken
    <3> QED BY <1>2, <1>4, <3>1
  <2>2. at[k] # "emit" /\ at'[k] # "emit" /\ link'[k] = link[k]
    BY <1>2, <1>3, <1>7
  <2>3. link[k] = "up" => Answered(sent[k], Taken(k), out[k])
    BY <1>4, <2>2 DEF AnsweredSoFar
  <2>4. link'[k] = "up" => Answered(sent'[k], Handled(k)', out'[k])
    BY <1>2, <1>3, <2>1, <2>2, <2>3
  <2> QED BY <1>6, <2>2, <2>4 DEF AnsweredSoFar
<1>8. CASE frame \in {"other", "skip"}
  <2>1. Handled(k)' = Taken(k) + 1
    <3>1. Handled(k)' = Taken(k)' - 0
      BY <1>5, <1>8 DEF Handled, Taken
    <3> QED BY <1>2, <1>4, <3>1
  <2>2. sent[k][Taken(k) + 1] \notin Asking
    BY <1>2, <1>8 DEF Asking
  <2>3. ASSUME Answered(sent[k], Taken(k), out[k])
        PROVE  Answered(sent[k], Taken(k) + 1, out[k])
    BY <1>4, <2>2, <2>3, AnsweredIgnored
  <2>4. at[k] # "emit" /\ at'[k] # "emit" /\ link'[k] = link[k]
    BY <1>2, <1>3, <1>8
  <2>5. link[k] = "up" => Answered(sent[k], Taken(k), out[k])
    BY <1>4, <2>4 DEF AnsweredSoFar
  <2>6. link'[k] = "up" => Answered(sent'[k], Handled(k)', out'[k])
    BY <1>2, <1>3, <2>1, <2>3, <2>4, <2>5
  <2> QED BY <1>6, <2>4, <2>6 DEF AnsweredSoFar
<1>9. CASE frame = "close"
  BY <1>3, <1>6, <1>9 DEF AnsweredSoFar
<1> QED BY <1>7, <1>8, <1>9

(* Writing adds the answer to the frame at hand, or the link is down.        *)
LEMMA AnswersAfterWrite ==
  ASSUME TypeOK, NEW k \in Conns, InboxOK(k), AnsweredSoFar(k), WriteFrame(k)
  PROVE  InboxOK(k)' /\ AnsweredSoFar(k)'
<1>1. Taken(k) \in Nat /\ said[k] \in Nat /\ out[k] \in Seq({"accepted", "pong"})
  BY CountTypes DEF TypeOK
<1>2. CASE WriteText(k)
  <2>1. /\ at[k] = "reply" /\ at'[k] = "emit"
        /\ UNCHANGED <<inbox, link, sent, said>>
        /\ link[k] = "up" => out'[k] = Append(out[k], "accepted")
    BY <1>2 DEF WriteText, Written, Goto, peerVars, TypeOK
  <2>2. InboxOK(k)' /\ Taken(k)' = Taken(k)
    BY <2>1, InboxKept DEF Busy
  <2>3. Taken(k) > 0 /\ sent[k][Taken(k)] = "boot"
    BY <2>1 DEF InboxOK, Busy
  <2>4. Handled(k) = Taken(k) - 1
    BY <2>1, CountTypes DEF Busy
  <2>5. Handled(k)' = Taken(k)
    <3>1. Handled(k)' = Taken(k)' - 0
      BY <2>1 DEF Handled, Taken, Busy
    <3> QED BY <1>1, <2>2, <3>1
  <2>6. PICK n \in Nat : n = Taken(k) - 1 /\ n + 1 = Taken(k)
    BY <1>1, <2>3
  <2>7. ASSUME link[k] = "up"
        PROVE  Answered(sent[k], n + 1, Append(out[k], "accepted"))
    <3>1. Answered(sent[k], n, out[k])
      BY <2>4, <2>6, <2>7 DEF AnsweredSoFar
    <3>2. sent[k][n + 1] = "boot"
      BY <2>3, <2>6
    <3> QED BY <1>1, <3>1, <3>2, AnsweredNext DEF Asking
  <2> QED BY <2>1, <2>2, <2>5, <2>6, <2>7 DEF AnsweredSoFar
<1>3. CASE Pong(k)
  <2>1. at[k] = "pong" /\ UNCHANGED <<inbox, sent, said>>
    BY <1>3 DEF Pong
  <2>2. CASE Written(k, "pong") /\ Goto(k, "read") /\ UNCHANGED link
    <3>1. /\ at'[k] = "read" /\ link' = link
          /\ link[k] = "up" => out'[k] = Append(out[k], "pong")
      BY <2>2 DEF Written, Goto, TypeOK
    <3>2. InboxOK(k)' /\ Taken(k)' = Taken(k)
      BY <2>1, <3>1, InboxKept DEF Busy
    <3>3. Taken(k) > 0 /\ sent[k][Taken(k)] = "ping"
      BY <2>1 DEF InboxOK, Busy
    <3>4. Handled(k) = Taken(k) - 1
      BY <2>1, CountTypes DEF Busy
    <3>5. Handled(k)' = Taken(k)
      <4>1. Handled(k)' = Taken(k)' - 0
        BY <3>1 DEF Handled, Taken, Busy
      <4> QED BY <1>1, <3>2, <4>1
    <3>6. PICK n \in Nat : n = Taken(k) - 1 /\ n + 1 = Taken(k)
      BY <1>1, <3>3
    <3>7. ASSUME link[k] = "up"
          PROVE  Answered(sent[k], n + 1, Append(out[k], "pong"))
      <4>1. Answered(sent[k], n, out[k])
        BY <3>4, <3>6, <3>7 DEF AnsweredSoFar
      <4>2. sent[k][n + 1] = "ping"
        BY <3>3, <3>6
      <4> QED BY <1>1, <4>1, <4>2, AnsweredNext DEF Asking
    <3> QED BY <2>1, <3>1, <3>2, <3>5, <3>6, <3>7 DEF AnsweredSoFar
  <2>3. CASE link[k] = "down" /\ Return(k) /\ UNCHANGED out
    <3>1. at'[k] = "closed" /\ link'[k] = "down"
      BY <2>3 DEF Return, Goto, TypeOK
    <3>2. InboxOK(k)'
      BY <2>1, <3>1, InboxKept DEF Busy
    <3> QED BY <3>1, <3>2 DEF AnsweredSoFar
  <2> QED BY <1>3, <2>2, <2>3 DEF Pong
<1> QED BY <1>2, <1>3 DEF WriteFrame

(* The handler's other steps answer nothing.                                 *)
LEMMA AnswersAfterRest ==
  ASSUME TypeOK, NEW k \in Conns, InboxOK(k), AnsweredSoFar(k),
         \/ Upgrade(k) \/ ReadFail(k) \/ PeerGone(k) \/ FindByOCPPIdentity(k)
         \/ FindChargerByChargePointID(k) \/ EmitEvent(k)
  PROVE  InboxOK(k)' /\ AnsweredSoFar(k)'
<1>1. CASE Upgrade(k)
  <2>1. /\ at[k] = "none" /\ at'[k] = "read"
        /\ UNCHANGED <<inbox, link, sent, out, said>>
    BY <1>1 DEF Upgrade, Goto, peerVars, TypeOK
  <2> QED BY <2>1, InboxKept, AnswersKept DEF Busy
<1>2. CASE ReadFail(k)
  <2>1. /\ at[k] = "read" /\ at'[k] = "closed" /\ link'[k] = "down"
        /\ UNCHANGED <<inbox, sent, out, said>>
    BY <1>2 DEF ReadFail, Return, Goto, TypeOK
  <2> QED BY <2>1, InboxKept, AnswersKept DEF Busy
<1>3. CASE PeerGone(k)
  <2>1. /\ link'[k] = "down" /\ UNCHANGED <<inbox, sent, at, out, said>>
    BY <1>3 DEF PeerGone, TypeOK
  <2> QED BY <2>1, InboxKept, AnswersKept
<1>4. CASE FindByOCPPIdentity(k) \/ FindChargerByChargePointID(k)
  <2>1. /\ at[k] \in {"find", "legacy"} /\ at'[k] \in {"legacy", "reply"}
        /\ UNCHANGED <<inbox, link, sent, out, said>>
    BY <1>4 DEF FindByOCPPIdentity, FindChargerByChargePointID, Found, Goto,
                peerVars, TypeOK
  <2> QED BY <2>1, InboxKept, AnswersKept DEF Busy
<1>5. CASE EmitEvent(k)
  <2>1. /\ at[k] = "emit" /\ at'[k] = "read" /\ said'[k] = said[k] + 1
        /\ UNCHANGED <<inbox, link, sent, out>> /\ said[k] \in Nat
    BY <1>5 DEF EmitEvent, Goto, peerVars, TypeOK
  <2>2. InboxOK(k)'
    BY <2>1, InboxKept DEF Busy
  <2>3. Handled(k)' = Handled(k)
    BY <2>1 DEF Handled, Busy
  <2> QED BY <2>1, <2>2, <2>3 DEF AnsweredSoFar
<1> QED BY <1>1, <1>2, <1>3, <1>4, <1>5

(* A frame that the peer sends comes after all that were answered.           *)
LEMMA AnswersAfterSend ==
  ASSUME TypeOK, NEW k \in Conns, InboxOK(k), AnsweredSoFar(k),
         NEW frame \in Frame, Send(k, frame)
  PROVE  InboxOK(k)' /\ AnsweredSoFar(k)'
<1>1. PICK s \in Seq(Frame), q \in Seq(Frame) : s = sent[k] /\ q = inbox[k]
  BY DEF TypeOK
<1>2. /\ sent'[k] = Append(s, frame) /\ inbox'[k] = Append(q, frame)
      /\ UNCHANGED <<link, at, out, said>>
  BY <1>1 DEF Send, TypeOK
<1>3. /\ Len(s) \in Nat /\ Len(sent'[k]) = Len(s) + 1
      /\ Len(q) \in Nat /\ Len(inbox'[k]) = Len(q) + 1
      /\ sent'[k][Len(s) + 1] = frame /\ \A i \in 1..Len(s) : sent'[k][i] = s[i]
      /\ inbox'[k][Len(q) + 1] = frame /\ \A i \in 1..Len(q) : inbox'[k][i] = q[i]
  BY <1>2
<1>4. Taken(k) = Len(s) - Len(q) /\ Taken(k)' = Taken(k)
      /\ Handled(k)' = Handled(k)
  <2>1. Taken(k) = Len(s) - Len(q) /\ Taken(k)' = (Len(s) + 1) - (Len(q) + 1)
    BY <1>1, <1>3 DEF Taken
  <2>2. Taken(k)' = Taken(k)
    BY <1>3, <2>1
  <2> QED BY <1>2, <2>1, <2>2 DEF Handled, Taken
<1>5. Taken(k) \in Nat /\ Taken(k) <= Len(s)
  BY <1>1, CountTypes
<1>6. ASSUME NEW i \in 1..(Len(q) + 1)
      PROVE  inbox'[k][i] = sent'[k][Taken(k) + i]
  <2>1. CASE i = Len(q) + 1
    <3>1. Taken(k) + i = Len(s) + 1
      BY <1>3, <1>4, <2>1
    <3> QED BY <1>3, <2>1, <3>1
  <2>2. CASE i # Len(q) + 1
    <3>1. i \in 1..Len(q) /\ Taken(k) + i \in 1..Len(s)
      BY <1>3, <1>4, <1>5, <2>2
    <3>2. q[i] = s[Taken(k) + i]
      BY <1>1, <3>1 DEF InboxOK
    <3> QED BY <1>3, <3>1, <3>2
  <2> QED BY <2>1, <2>2
<1>7. at[k] \in Busy => Taken(k) \in 1..Len(s)
  BY <1>5 DEF InboxOK
<1>8. at[k] \in {"find", "legacy", "reply", "pong"} => at[k] \in Busy
  BY DEF Busy
<1>9. InboxOK(k)'
  <2>1. Len(q) + 1 <= Len(s) + 1
    BY <1>3, <1>4, <1>5
  <2>2. at[k] \in Busy => sent'[k][Taken(k)] = sent[k][Taken(k)] /\ Taken(k) > 0
    BY <1>1, <1>3, <1>5, <1>7
  <2>3. /\ at[k] \in {"find", "legacy", "reply"} => sent[k][Taken(k)] = "boot"
        /\ at[k] = "pong" => sent[k][Taken(k)] = "ping"
    BY DEF InboxOK
  <2> QED BY <1>2, <1>3, <1>4, <1>6, <1>8, <2>1, <2>2, <2>3 DEF InboxOK
<1>10. AnsweredSoFar(k)'
  <2>1. Handled(k) \in Nat /\ Handled(k) <= Len(s)
    BY <1>1, CountTypes
  <2> QED BY <1>1, <1>2, <1>4, <2>1, AnsweredSend DEF AnsweredSoFar
<1> QED BY <1>9, <1>10

(* No step of another connection, and no change of the registries, touches   *)
(* the frames of this one.                                                   *)
LEMMA AnswersUntouched ==
  ASSUME TypeOK, NEW j \in Conns, InboxOK(j), AnsweredSoFar(j),
         \/ \E f \in FleetIds : ChangeFleet(f)
         \/ \E l \in LegacyIds : ChangeLegacy(l)
         \/ UNCHANGED vars
         \/ \E k \in Conns \ {j} :
              \/ Upgrade(k) \/ Handle(k) \/ WriteFrame(k)
              \/ \E frame \in Frame : Send(k, frame)
              \/ PeerGone(k)
  PROVE  /\ InboxOK(j)' /\ AnsweredSoFar(j)'
         /\ said'[j] = said[j] /\ at'[j] = at[j]
         /\ sent'[j] = sent[j] /\ inbox'[j] = inbox[j]
<1> DEFINE Same ==
      /\ sent'[j] = sent[j] /\ inbox'[j] = inbox[j] /\ at'[j] = at[j]
      /\ link'[j] = link[j] /\ out'[j] = out[j] /\ said'[j] = said[j]
<1>1. Same
  <2>1. CASE \/ \E f \in FleetIds : ChangeFleet(f)
             \/ \E l \in LegacyIds : ChangeLegacy(l)
             \/ UNCHANGED vars
    BY <2>1 DEF ChangeFleet, ChangeLegacy, Registries, peerVars, vars
  <2>2. ASSUME NEW k \in Conns \ {j},
               \/ Upgrade(k) \/ PeerGone(k) \/ \E frame \in Frame : Send(k, frame)
               \/ WriteFrame(k)
        PROVE  Same
    BY <2>2 DEF Upgrade, PeerGone, Send, WriteFrame, WriteText, Pong, Written,
                Return, Goto, peerVars, TypeOK
  <2>3. ASSUME NEW k \in Conns \ {j}, Handle(k)
        PROVE  Same
    BY <2>3 DEF Handle, ReadBoot, Ignore, ReadPing, ReadClose, ReadFail, Read,
                FindByOCPPIdentity, FindChargerByChargePointID, Found, EmitEvent,
                Return, Goto, peerVars, TypeOK
  <2> QED BY <2>1, <2>2, <2>3
<1> QED BY <1>1, InboxKept, AnswersKept

(* Announcing what was read: as many boots are announced, or about to be, as *)
(* were dealt with.                                                          *)
AnnouncedSoFar(k) == Announced(k) = Boots(k)

(* Steps that deal with no boot, of any connection.                          *)
LEMMA AnnouncedKept ==
  ASSUME NEW k \in Conns, AnnouncedSoFar(k), said'[k] = said[k],
         at'[k] = "emit" <=> at[k] = "emit", Boots(k)' = Boots(k)
  PROVE  AnnouncedSoFar(k)'
BY DEF AnnouncedSoFar, Announced

(* Reading a frame: a boot is at hand, not dealt with, anything else is none.*)
LEMMA AnnouncedAfterRead ==
  ASSUME TypeOK, NEW k \in Conns, InboxOK(k), AnnouncedSoFar(k),
         ReadBoot(k) \/ Ignore(k) \/ ReadPing(k) \/ ReadClose(k)
  PROVE  AnnouncedSoFar(k)'
<1>1. PICK frame \in {"boot", "other", "skip", "ping", "close"} :
        /\ Read(k, frame)
        /\ at'[k] = IF frame = "boot" THEN "find" ELSE IF frame = "ping" THEN "pong"
                    ELSE IF frame = "close" THEN "closed" ELSE "read"
  BY DEF ReadBoot, Ignore, ReadPing, ReadClose, Read, Return, Goto, TypeOK
<1>2. /\ Taken(k)' = Taken(k) + 1 /\ sent' = sent
      /\ sent[k][Taken(k) + 1] = frame /\ at[k] = "read"
  BY <1>1, ReadFrame
<1>3. Taken(k) \in Nat /\ Handled(k) = Taken(k) /\ said' = said
  BY <1>1, <1>2, CountTypes DEF Busy, Read
<1>4. Handled(k)' = Taken(k)' - IF at'[k] \in Busy THEN 1 ELSE 0
  BY DEF Handled, Taken
<1>5. CASE frame \in {"boot", "ping"}
  <2>1. Handled(k)' = Taken(k)
    BY <1>1, <1>2, <1>3, <1>4, <1>5 DEF Busy
  <2>2. Boots(k)' = Boots(k)
    BY <1>2, <1>3, <2>1 DEF Boots
  <2> QED BY <1>1, <1>2, <1>3, <1>5, <2>2, AnnouncedKept
<1>6. CASE frame \in {"other", "skip", "close"}
  <2>1. Handled(k)' = Taken(k) + 1
    BY <1>1, <1>2, <1>3, <1>4, <1>6 DEF Busy
  <2>2. sent[k][Taken(k) + 1] \notin {"boot"}
    BY <1>2, <1>6
  <2>3. Boots(k)' = Boots(k)
    BY <1>2, <1>3, <2>1, <2>2, PositionFacts DEF Boots
  <2> QED BY <1>1, <1>2, <1>3, <1>6, <2>3, AnnouncedKept
<1> QED BY <1>5, <1>6

(* Writing deals with the frame at hand, whatever becomes of the answer.     *)
LEMMA AnnouncedAfterWrite ==
  ASSUME TypeOK, NEW k \in Conns, InboxOK(k), AnnouncedSoFar(k), WriteFrame(k)
  PROVE  AnnouncedSoFar(k)'
<1>1. Taken(k) \in Nat /\ said[k] \in Nat /\ Handled(k) \in Nat
  BY CountTypes
<1>2. /\ UNCHANGED <<inbox, sent, said>>
      /\ \/ at[k] = "reply" /\ at'[k] = "emit"
         \/ at[k] = "pong" /\ at'[k] \in {"read", "closed"}
  BY DEF WriteFrame, WriteText, Pong, Return, Goto, peerVars, TypeOK
<1>3. Taken(k)' = Taken(k) /\ Handled(k) = Taken(k) - 1 /\ Taken(k) > 0
  BY <1>2, CountTypes DEF InboxOK, Taken, Busy
<1>4. Handled(k)' = Handled(k) + 1 /\ Handled(k) + 1 = Taken(k)
  <2>1. Handled(k)' = Taken(k)' - 0
    BY <1>2 DEF Handled, Taken, Busy
  <2> QED BY <1>1, <1>3, <2>1
<1>5. CASE at[k] = "reply" /\ at'[k] = "emit"
  <2>1. sent[k][Handled(k) + 1] \in {"boot"}
    BY <1>4, <1>5 DEF InboxOK
  <2>2. Boots(k)' = Boots(k) + 1
    BY <1>1, <1>2, <1>4, <2>1, PositionFacts DEF Boots
  <2>3. Announced(k)' = said[k] + 1 /\ Announced(k) = said[k] + 0
    BY <1>2, <1>5 DEF Announced
  <2>4. Announced(k)' = Announced(k) + 1
    BY <1>1, <2>3
  <2> QED BY <2>2, <2>4 DEF AnnouncedSoFar
<1>6. CASE at[k] = "pong" /\ at'[k] \in {"read", "closed"}
  <2>1. sent[k][Handled(k) + 1] \notin {"boot"}
    BY <1>4, <1>6 DEF InboxOK
  <2>2. Boots(k)' = Boots(k)
    BY <1>1, <1>2, <1>4, <2>1, PositionFacts DEF Boots
  <2> QED BY <1>2, <1>6, <2>2, AnnouncedKept
<1> QED BY <1>2, <1>5, <1>6

(* The handler's other steps deal with no frame.                             *)
LEMMA AnnouncedAfterRest ==
  ASSUME TypeOK, NEW k \in Conns, AnnouncedSoFar(k),
         \/ Upgrade(k) \/ ReadFail(k) \/ PeerGone(k) \/ FindByOCPPIdentity(k)
         \/ FindChargerByChargePointID(k) \/ EmitEvent(k)
  PROVE  AnnouncedSoFar(k)'
<1>1. /\ UNCHANGED <<inbox, sent>>
      /\ at[k] \in Busy <=> at'[k] \in Busy
  BY DEF Upgrade, ReadFail, PeerGone, FindByOCPPIdentity, FindChargerByChargePointID,
         Found, EmitEvent, Return, Goto, peerVars, TypeOK, Busy
<1>2. Boots(k)' = Boots(k)
  BY <1>1 DEF Boots, Handled
<1>3. CASE EmitEvent(k)
  <2>1. at[k] = "emit" /\ at'[k] = "read" /\ said'[k] = said[k] + 1
    BY <1>3 DEF EmitEvent, Goto, TypeOK
  <2>2. Announced(k)' = said[k] + 1 + 0 /\ Announced(k) = said[k] + 1
    BY <2>1 DEF Announced
  <2>3. said[k] \in Nat
    BY DEF TypeOK
  <2> QED BY <1>2, <2>2, <2>3 DEF AnnouncedSoFar
<1>4. CASE ~EmitEvent(k)
  <2>1. said' = said /\ (at'[k] = "emit" <=> at[k] = "emit")
    BY <1>4 DEF Upgrade, ReadFail, PeerGone, FindByOCPPIdentity,
                FindChargerByChargePointID, Found, Return, Goto, TypeOK
  <2> QED BY <1>2, <2>1, AnnouncedKept
<1> QED BY <1>3, <1>4

(* Nor does a frame that the peer sends.                                     *)
LEMMA AnnouncedAfterSend ==
  ASSUME TypeOK, NEW k \in Conns, InboxOK(k), AnnouncedSoFar(k),
         NEW frame \in Frame, Send(k, frame)
  PROVE  AnnouncedSoFar(k)'
<1>1. PICK s \in Seq(Frame), q \in Seq(Frame) : s = sent[k] /\ q = inbox[k]
  BY DEF TypeOK
<1>2. /\ sent'[k] = Append(s, frame) /\ inbox'[k] = Append(q, frame)
      /\ UNCHANGED <<at, said>>
  BY <1>1 DEF Send, TypeOK
<1>3. /\ Len(s) \in Nat /\ Len(sent'[k]) = Len(s) + 1
      /\ Len(q) \in Nat /\ Len(inbox'[k]) = Len(q) + 1
  BY <1>2
<1>4. (Len(s) + 1) - (Len(q) + 1) = Len(s) - Len(q)
  BY <1>3
<1>5. Handled(k)' = Handled(k)
  BY <1>1, <1>2, <1>3, <1>4 DEF Handled
<1>6. Handled(k) \in Nat /\ Handled(k) <= Len(s)
  BY <1>1, CountTypes
<1>7. Boots(k)' = Boots(k)
  BY <1>1, <1>2, <1>5, <1>6, AnsweredSend DEF Boots
<1> QED BY <1>2, <1>7, AnnouncedKept

(* As long as a connection lasts, each boot and each ping on it is answered  *)
(* once, in order; each boot is announced once, after its answer, whatever   *)
(* has become of the connection.                                             *)
THEOREM EndpointAnswersInOrder == Spec => []AnswersInOrder
<1> DEFINE Inv == \A k \in Conns : InboxOK(k) /\ AnsweredSoFar(k) /\ AnnouncedSoFar(k)
<1>1. Init => Inv
  <2> SUFFICES ASSUME Init, NEW k \in Conns
               PROVE  InboxOK(k) /\ AnsweredSoFar(k) /\ AnnouncedSoFar(k)
    OBVIOUS
  <2>1. /\ sent[k] = <<>> /\ inbox[k] = <<>> /\ out[k] = <<>>
        /\ at[k] = "none" /\ said[k] = 0
    BY DEF Init
  <2>2. Handled(k) = 0 /\ InboxOK(k)
    <3>1. Len(sent[k]) = 0 /\ Len(inbox[k]) = 0 /\ at[k] \notin Busy
      BY <2>1 DEF Busy
    <3>2. Handled(k) = (0 - 0) - 0
      BY <3>1 DEF Handled
    <3>3. InboxOK(k)
      BY <2>1, <3>1 DEF InboxOK
    <3> QED BY <3>2, <3>3
  <2>3. AnnouncedSoFar(k)
    <3>1. Boots(k) = 0
      BY <2>2, AnsweredNothing, FS_EmptySet DEF Boots
    <3>2. Announced(k) = 0
      BY <2>1 DEF Announced
    <3> QED BY <3>1, <3>2 DEF AnnouncedSoFar
  <2>4. AnsweredSoFar(k)
    BY <2>1, <2>2, AnsweredNothing DEF AnsweredSoFar
  <2> QED BY <2>2, <2>3, <2>4
<1>2. TypeOK /\ Inv /\ [Next]_vars => Inv'
  <2> SUFFICES ASSUME TypeOK, Inv, [Next]_vars, NEW j \in Conns
               PROVE  InboxOK(j)' /\ AnsweredSoFar(j)' /\ AnnouncedSoFar(j)'
    OBVIOUS
  <2>1. CASE \/ \E f \in FleetIds : ChangeFleet(f)
             \/ \E l \in LegacyIds : ChangeLegacy(l)
             \/ UNCHANGED vars
             \/ \E k \in Conns \ {j} :
                  \/ Upgrade(k) \/ Handle(k) \/ WriteFrame(k)
                  \/ \E frame \in Frame : Send(k, frame)
                  \/ PeerGone(k)
    <3>1. /\ InboxOK(j)' /\ AnsweredSoFar(j)'
          /\ said'[j] = said[j] /\ at'[j] = at[j]
          /\ sent'[j] = sent[j] /\ inbox'[j] = inbox[j]
      BY <2>1, AnswersUntouched
    <3>2. Boots(j)' = Boots(j)
      BY <3>1 DEF Boots, Handled
    <3> QED BY <3>1, <3>2, AnnouncedKept
  <2>2. ASSUME NEW frame \in Frame, Send(j, frame)
        PROVE  InboxOK(j)' /\ AnsweredSoFar(j)' /\ AnnouncedSoFar(j)'
    BY <2>2, AnswersAfterSend, AnnouncedAfterSend
  <2>3. CASE Upgrade(j) \/ Handle(j) \/ WriteFrame(j) \/ PeerGone(j)
    BY <2>3, AnswersAfterRead, AnswersAfterWrite, AnswersAfterRest,
       AnnouncedAfterRead, AnnouncedAfterWrite, AnnouncedAfterRest DEF Handle
  <2> QED BY <2>1, <2>2, <2>3 DEF Next
<1>3. Inv => AnswersInOrder
  BY DEF AnsweredSoFar, AnnouncedSoFar, AnswersInOrder
<1> QED BY <1>1, <1>2, <1>3, EndpointTypeOK, PTL DEF Spec
=============================================================================
