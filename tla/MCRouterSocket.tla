--------------------------- MODULE MCRouterSocket ---------------------------
(* Two servers as model values: the bounds are in the configuration.       *)
EXTENDS RouterSocket
=============================================================================
