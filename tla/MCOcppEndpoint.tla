-------------------------- MODULE MCOcppEndpoint ---------------------------
(* A model-checking instance of the OCPP endpoint; the lengths are those     *)
(* around each change of form and of each byte.                              *)
EXTENDS OcppEndpoint

MCLengths ==
  {0, 1, 124, 125, 126, 127, 128, 255, 256, 257, 32767, 32768, 65534, 65535,
   65536, 65537, 16777215, 16777216, 2147483647}
=============================================================================
