------------------------------- MODULE Frames --------------------------------
(* The length of a WebSocket frame as internal/ws/frame.go writes and reads  *)
(* it: the bytes between the opcode and the mask or the payload.  Lengths    *)
(* are below 2^31, so the upper four bytes of a 64-bit length are 0 and its  *)
(* conversion to int64 does not matter.                                      *)
EXTENDS Integers, Sequences

(* binary.BigEndian: a byte of what is written; what is read at i.           *)
Octet(n, unit) == (n \div unit) % 256
Uint16(b, i) == 256 * b[i] + b[i + 1]
Uint64(b, i) == 65536 * Uint16(b, i + 4) + Uint16(b, i + 6)

(* Mutant: 65536 is written in 16 bits.                                      *)
Fits16Inclusive(n) == n <= 65536

Fits16(n) == n <= 65535

(* writeTextFrame: short, 16-bit or 64-bit form.                             *)
TextLength(n) ==
  IF n <= 125 THEN <<n>>
  ELSE IF Fits16(n) THEN <<126, Octet(n, 256), Octet(n, 1)>>
  ELSE <<127, 0, 0, 0, 0, Octet(n, 16777216), Octet(n, 65536), Octet(n, 256), Octet(n, 1)>>

(* writeControlFrame: a longer payload is cut off.                           *)
ControlPayload(n) == IF n > 125 THEN 125 ELSE n
ControlLength(n) == <<ControlPayload(n)>>

(* A client sets the mask bit of the first byte.                             *)
Masked(header) == [header EXCEPT ![1] = @ + 128]

(* readFrame.                                                                *)
ReadLength(header) ==
  LET payloadLen == header[1] % 128 IN
  IF payloadLen = 126 THEN Uint16(header, 2)
  ELSE IF payloadLen = 127 THEN Uint64(header, 2) ELSE payloadLen

(* Whoever reads a frame of length n, masked or not, reads n bytes of        *)
(* payload: no length of a text is mistaken for another form, and the length *)
(* of a control frame is that of the part of the payload that was written    *)
(* (frame.go:20-36, 68-90, 105-112).                                         *)
ReadsBack(n) ==
  /\ ReadLength(TextLength(n)) = n
  /\ ReadLength(Masked(TextLength(n))) = n
  /\ ReadLength(ControlLength(n)) = ControlPayload(n)
=============================================================================
