--------------------------- MODULE MCSocketConfig ---------------------------
(* Every string of options: the model has no constants.                    *)
EXTENDS SocketConfig
=============================================================================
