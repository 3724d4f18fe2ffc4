----------------------------- MODULE MCWebSocket -----------------------------
(* Connections and handles as model values: the bounds are in the           *)
(* configuration.                                                           *)
EXTENDS WebSocket
=============================================================================
