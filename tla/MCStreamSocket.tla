--------------------------- MODULE MCStreamSocket ---------------------------
(* Connections, handles and threads as model values.                       *)
EXTENDS StreamSocket, TLC

Symmetry ==
  Permutations(Conn) \union Permutations(Handle) \union Permutations(Thread)
=============================================================================
