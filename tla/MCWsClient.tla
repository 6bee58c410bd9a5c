------------------------------ MODULE MCWsClient -----------------------------
(* The event bus client with two groups. *)
EXTENDS WsClient
=============================================================================
