----------------------------- MODULE SessionFeed -----------------------------
(***************************************************************************)
(* What StreamSocket promises the application that calls recv(): one queue *)
(* of messages, in which each session, named by the handle of its socket,  *)
(* announces itself with CONNECT, delivers its messages in order, and ends *)
(* with DISCONNECT, after which the handle may be announced again.         *)
(***************************************************************************)
EXTENDS Naturals, Sequences

CONSTANTS
  Handle  (* the native handles of sockets: the session ids                *)

VARIABLES
  feed,      (* _recvBuffer: the messages recv() has not returned yet      *)
  announced, (* the handles of the sessions announced and not ended        *)
  count      (* the number of messages the session of a handle delivered   *)

feedVars == <<feed, announced, count>>

Connect(h) == [sid |-> h, type |-> "CONNECT", num |-> 0]
Disconnect(h) == [sid |-> h, type |-> "DISCONNECT", num |-> 0]
Normal(h, n) == [sid |-> h, type |-> "NORMAL", num |-> n]

Init ==
  /\ feed = <<>>
  /\ announced = {}
  /\ count = [h \in Handle |-> 0]

Announce(h) ==
  /\ h \notin announced
  /\ announced' = announced \union {h}
  /\ count' = [count EXCEPT ![h] = 0]
  /\ feed' = Append(feed, Connect(h))

Deliver(h) ==
  /\ h \in announced
  /\ count' = [count EXCEPT ![h] = @ + 1]
  /\ feed' = Append(feed, Normal(h, count[h] + 1))
  /\ UNCHANGED announced

End(h) ==
  /\ h \in announced
  /\ announced' = announced \ {h}
  /\ count' = [count EXCEPT ![h] = 0]
  /\ feed' = Append(feed, Disconnect(h))

Take ==
  /\ feed # <<>>
  /\ feed' = Tail(feed)
  /\ UNCHANGED <<announced, count>>

Next == (\E h \in Handle : Announce(h) \/ Deliver(h) \/ End(h)) \/ Take

Spec == Init /\ [][Next]_feedVars

=============================================================================
