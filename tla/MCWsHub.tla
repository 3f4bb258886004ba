------------------------------- MODULE MCWsHub -------------------------------
(* A model-checking instance of the WebSocket hub.                           *)
EXTENDS WsHub
=============================================================================
