---------------------------- MODULE MessageStream ----------------------------
(***************************************************************************)
(* What a session promises of the stream of one client: its messages come  *)
(* out whole, once and in order, a few at a time and in the end all of     *)
(* them, unless the session is disconnected, after which none does.        *)
(***************************************************************************)
EXTENDS Naturals, Sequences

CONSTANT
  Streams  (* the sequences of messages a client may send                  *)

VARIABLES
  sent,  (* the messages the client sends                                  *)
  out,   (* those of them onReceived has pushed to _recvBuffer             *)
  live   (* the session has not been disconnected                          *)

streamVars == <<sent, out, live>>

Init ==
  /\ sent \in Streams
  /\ out = <<>>
  /\ live = TRUE

Deliver ==
  /\ live
  /\ \E n \in Len(out) + 1..Len(sent) : out' = SubSeq(sent, 1, n)
  /\ UNCHANGED <<sent, live>>

Fail ==
  /\ live
  /\ live' = FALSE
  /\ UNCHANGED <<sent, out>>

Next == Deliver \/ Fail

Spec == Init /\ [][Next]_streamVars
FairSpec == Spec /\ WF_streamVars(Deliver)

=============================================================================
