------------------------------- MODULE Metrics -------------------------------
(* The counters behind msgRateOutPerSec: Metrics of internal/fleet/events.go,*)
(* a ring with one slot per second of the last Window seconds (60 in the     *)
(* code).  Slots are cleared lazily, by whoever next records or reads, and   *)
(* any number of seconds may have passed since.                              *)
EXTENDS Integers

CONSTANTS
  Window,    \* len(seconds)
  MaxSec     \* bound: the last second of an instance

ASSUME MetricsAssumption ==
  /\ Window \in Nat \ {0}
  /\ MaxSec \in Nat /\ MaxSec >= 2 * Window

VARIABLES
  now,       \* time.Now().Unix(); taken not to be set back
  seconds,   \* the ring
  lastSec,   \* the second up to which slots are cleared
  out        \* history: what was recorded in each second

metricsVars == <<now, seconds, lastSec, out>>

Slots == 0..(Window - 1)
Slot(sec) == sec % Window

(* The process may start at any phase of the ring.                           *)
NewMetrics ==
  /\ now \in Window..(2 * Window - 1)
  /\ seconds = [i \in Slots |-> 0]
  /\ lastSec = now
  /\ out = [s \in 0..MaxSec |-> 0]

(* Mutant: the slot of the new second is not cleared.                        *)
AdvancedShort(sec) ==
  IF sec - lastSec >= Window THEN [i \in Slots |-> 0]
  ELSE [i \in Slots |-> IF \E s \in (lastSec + 1)..(sec - 1) : Slot(s) = i
                        THEN 0 ELSE seconds[i]]

(* The ring brought up to sec.                                               *)
Advanced(sec) ==
  IF sec - lastSec >= Window THEN [i \in Slots |-> 0]
  ELSE [i \in Slots |-> IF \E s \in (lastSec + 1)..sec : Slot(s) = i
                        THEN 0 ELSE seconds[i]]

RecordOut ==
  /\ seconds' = [Advanced(now) EXCEPT ![Slot(now)] = @ + 1]
  /\ lastSec' = now
  /\ out' = [out EXCEPT ![now] = @ + 1]
  /\ UNCHANGED now

(* GET /stats; the answer is the sum of seconds' divided by Window.          *)
RatePerSec ==
  /\ seconds' = Advanced(now)
  /\ lastSec' = now
  /\ UNCHANGED <<now, out>>

(* Any number of seconds passes.                                             *)
Pass ==
  /\ now' \in (now + 1)..MaxSec
  /\ UNCHANGED <<seconds, lastSec, out>>

-----------------------------------------------------------------------------
MetricsTypeOK ==
  /\ now \in Nat /\ lastSec \in 0..now
  /\ seconds \in [Slots -> Nat]
  /\ out \in [0..MaxSec -> Nat]

(* The slots hold exactly what was recorded in the last Window seconds, each *)
(* second in its own slot, however the lazy clearing of recorders and        *)
(* readers and gaps shorter, equal to or longer than the window follow one   *)
(* another (events.go:83-102, 109-116).                                      *)
RingShowsWindow ==
  \A s \in (lastSec - Window + 1)..lastSec : seconds[Slot(s)] = out[s]
=============================================================================
