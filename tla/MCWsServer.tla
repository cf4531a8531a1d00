----------------------------- MODULE MCWsServer -----------------------------
(* Small instances of WsServer for TLC. *)
EXTENDS WsServer

CONSTANTS f1, f2
=============================================================================
