---------------------------- MODULE RouterSocket ----------------------------
(***************************************************************************)
(* Play::RouterSocket and RouterMessage (router_socket.cpp:38-91,          *)
(* router_message.cpp): servers that send each other messages by the       *)
(* routing id of a zmq ROUTER socket, which is the endpoint it binds.      *)
(*                                                                         *)
(* Each node has one RouterSocket, used by one thread (a zmq socket must   *)
(* not be shared), with one RouterMessage at hand.  zmq is external, as    *)
(* the code uses it: a peer can be addressed once both sides have          *)
(* exchanged their ids, which takes a while after connect; send blocks, as *)
(* it is given no flags; recv blocks until there is a message.             *)
(***************************************************************************)
EXTENDS Naturals, Sequences

CONSTANTS
  Node,       (* the servers, by their endpoint                            *)
  MaxMade,    (* messages the applications make: bounds the model          *)
  Mandatories,(* the sets of nodes that may have the option router_mandatory *)
  Foreign,    (* the nodes of other programs, which send not three frames  *)
  Hwm,        (* messages a pipe holds, both high watermarks together      *)
  NoNode, Idle

(* Header and body of a message, numbered as the messages are made.        *)
Body == 1..MaxMade
NoBody == 0

ASSUME RouterAssumption ==
  /\ Mandatories \subseteq SUBSET Node /\ Foreign \subseteq Node
  /\ Hwm \in Nat \ {0} /\ MaxMade \in Nat
  /\ NoNode \notin Node
  /\ Idle \notin [target : Node \union {NoNode}, body : Body \union {NoBody}]

VARIABLES
  mandatory, (* the nodes whose options have router_mandatory on           *)
  bound,     (* the nodes that called bind                                 *)
  connects,  (* the endpoints each node is connected to                    *)
  peers,     (* the routing ids each socket knows                          *)
  pipe,      (* pipe[<<a, b>>]: what a has sent to b on the link they have *)
  left,      (* what a node had in its queue when the link was lost        *)
  object,    (* the RouterMessage each application has at hand             *)
  sending,   (* the parts in the multipart of a send in progress           *)
  made,      (* the last body an application has made                      *)
  over       (* the bodies destroyed, at either side or between            *)

linkVars == <<mandatory, bound, connects, peers>>
messageVars == <<pipe, left, object, sending, made, over>>
vars == <<mandatory, bound, connects, peers, pipe, left, object, sending, made,
          over>>

Emptied == [target |-> NoNode, body |-> NoBody]
Destroy(bodies) == over' = over \union (bodies \ {NoBody})

(* The constructors have parsed the options of every socket.               *)
Init ==
  /\ mandatory \in Mandatories
  /\ bound = {}
  /\ connects = [n \in Node |-> {}]
  /\ peers = [n \in Node |-> {}]
  /\ pipe = [l \in Node \X Node |-> <<>>]
  /\ left = [n \in Node |-> <<>>]
  /\ object = [n \in Node |-> Emptied]
  /\ sending = [n \in Node |-> Idle]
  /\ made = 0
  /\ over = {}

-----------------------------------------------------------------------------
Bind(n) ==
  /\ sending[n] = Idle
  /\ n \notin bound
  /\ bound' = bound \union {n}
  /\ UNCHANGED <<mandatory, connects, peers, messageVars>>

Connect(n, p) ==
  /\ sending[n] = Idle
  /\ p \notin connects[n]
  /\ connects' = [connects EXCEPT ![n] = @ \union {p}]
  /\ UNCHANGED <<mandatory, bound, peers, messageVars>>

(* The connection between two nodes is up, and n has learned the id of p.  *)
Linked(n, p) == (p \in connects[n] /\ p \in bound) \/ (n \in connects[p] /\ n \in bound)
Identified(n, p) ==
  /\ Linked(n, p)
  /\ p \notin peers[n]
  /\ peers' = [peers EXCEPT ![n] = @ \union {p}]
  /\ UNCHANGED <<mandatory, bound, connects, messageVars>>

(* The link between a and b ends, and with it the last messages on it; the *)
(* first have arrived, and stay in the queues of their receivers.          *)
From(a, bodies) == [i \in 1..Len(bodies) |-> [target |-> a, body |-> bodies[i]]]
Cut(a, b) ==
  /\ peers' = [peers EXCEPT ![a] = @ \ {b}, ![b] = @ \ {a}]
  /\ pipe' = [pipe EXCEPT ![<<a, b>>] = <<>>, ![<<b, a>>] = <<>>]
  /\ \E i \in 0..Len(pipe[<<a, b>>]), j \in 0..Len(pipe[<<b, a>>]) :
       /\ left' = [n \in Node |->
            left[n] \o (IF n = b THEN From(a, SubSeq(pipe[<<a, b>>], 1, i))
                        ELSE IF n = a THEN From(b, SubSeq(pipe[<<b, a>>], 1, j)) ELSE <<>>)]
       /\ Destroy({pipe[<<a, b>>][k] : k \in i+1..Len(pipe[<<a, b>>])}
                    \union {pipe[<<b, a>>][k] : k \in j+1..Len(pipe[<<b, a>>])})
  /\ UNCHANGED <<mandatory, bound, object, sending, made>>

LinkLost(a, b) ==
  /\ b \in peers[a]
  /\ Cut(a, b)
  /\ UNCHANGED connects

Disconnect(n, p) ==
  /\ sending[n] = Idle
  /\ p \in connects[n]
  /\ connects' = [connects EXCEPT ![n] = @ \ {p}]
  /\ Cut(n, p)

-----------------------------------------------------------------------------
(* The application makes a message, and deletes the one it had.            *)
Make(n, t) ==
  /\ sending[n] = Idle
  /\ made < MaxMade
  /\ made' = made + 1
  /\ object' = [object EXCEPT ![n] = [target |-> t, body |-> made']]
  /\ Destroy({object[n].body})
  /\ UNCHANGED <<linkVars, pipe, left, sending>>

(* Mutants: the parts are copied; the target is.                           *)
StartSendCopied(n) ==
  /\ sending[n] = Idle
  /\ sending' = [sending EXCEPT ![n] = object[n]]
  /\ UNCHANGED <<linkVars, pipe, left, object, made, over>>
StartSendTargetKept(n) ==
  /\ sending[n] = Idle
  /\ sending' = [sending EXCEPT ![n] = object[n]]
  /\ object' = [object EXCEPT ![n].body = NoBody]
  /\ UNCHANGED <<linkVars, pipe, left, made, over>>

(* send(message): the parts are moved out of the message, which may be one *)
(* that was sent before ...                                                *)
StartSend(n) ==
  /\ sending[n] = Idle
  /\ sending' = [sending EXCEPT ![n] = object[n]]
  /\ object' = [object EXCEPT ![n] = Emptied]
  /\ UNCHANGED <<linkVars, pipe, left, made, over>>

HasRoom(n, t) == Len(pipe[<<n, t>>]) < Hwm

(* ... and queued for the peer: true is returned ...                       *)
SendQueued(n) ==
  /\ sending[n] # Idle
  /\ sending[n].target \in peers[n]
  /\ HasRoom(n, sending[n].target)
  /\ pipe' = [pipe EXCEPT ![<<n, sending[n].target>>] = Append(@, sending[n].body)]
  /\ sending' = [sending EXCEPT ![n] = Idle]
  /\ UNCHANGED <<linkVars, left, object, made, over>>

(* ... or zmq throws, and they are destroyed with the multipart ...        *)
SendThrows(n) ==
  /\ sending[n] # Idle
  /\ n \in mandatory
  /\ sending[n].target \notin peers[n]
  /\ Destroy({sending[n].body})
  /\ sending' = [sending EXCEPT ![n] = Idle]
  /\ UNCHANGED <<linkVars, pipe, left, object, made>>

(* ... or, without router_mandatory, zmq drops them, and true is returned. *)
(* With it a send to a full pipe goes on waiting, so false never is.       *)
SendDropped(n) ==
  /\ sending[n] # Idle
  /\ n \notin mandatory
  /\ sending[n].target \in peers[n] => ~HasRoom(n, sending[n].target)
  /\ Destroy({sending[n].body})
  /\ sending' = [sending EXCEPT ![n] = Idle]
  /\ UNCHANGED <<linkVars, pipe, left, object, made>>

(* The next message of the queue: of a link that is up, or was.            *)
Dequeue(n, p, b) ==
  \/ /\ p \in peers[n]
     /\ pipe[<<p, n>>] # <<>>
     /\ b = Head(pipe[<<p, n>>])
     /\ pipe' = [pipe EXCEPT ![<<p, n>>] = Tail(@)]
     /\ UNCHANGED left
  \/ /\ left[n] # <<>>
     /\ Head(left[n]) = [target |-> p, body |-> b]
     /\ left' = [left EXCEPT ![n] = Tail(@)]
     /\ UNCHANGED pipe

(* Mutant: a message with another number of frames is left in the queue.   *)
RecvLeaves(n) ==
  /\ sending[n] = Idle
  /\ \E p \in Node \ Foreign, b \in Body :
       /\ Dequeue(n, p, b)
       /\ object' = [object EXCEPT ![n] = [target |-> p, body |-> b]]
       /\ Destroy({object[n].body})
  /\ UNCHANGED <<linkVars, sending, made>>

(* Mutant: the frames of a message received are taken in the wrong order.  *)
RecvSwapped(n) ==
  /\ sending[n] = Idle
  /\ \E p \in Node, b \in Body \union {NoBody} :
       /\ Dequeue(n, p, b)
       /\ object' = [object EXCEPT ![n] = [target |-> b, body |-> p]]
       /\ Destroy({object[n].body})
  /\ UNCHANGED <<linkVars, sending, made>>

(***************************************************************************)
(* recv(): the target of the message received is the id of its sender.  A  *)
(* message that has not three frames is dropped and null returned.         *)
(***************************************************************************)
Recv(n) ==
  /\ sending[n] = Idle
  /\ \E p \in Node, b \in Body \union {NoBody} :
       /\ Dequeue(n, p, b)
       /\ IF p \in Foreign
          THEN Destroy({b}) /\ UNCHANGED object
          ELSE /\ object' = [object EXCEPT ![n] = [target |-> p, body |-> b]]
               /\ Destroy({object[n].body})
  /\ UNCHANGED <<linkVars, sending, made>>

-----------------------------------------------------------------------------
SendReturns(n) == SendQueued(n) \/ SendThrows(n) \/ SendDropped(n)

Next ==
  \/ \E n \in Node : Bind(n) \/ StartSend(n) \/ SendReturns(n) \/ Recv(n)
  \/ \E n, p \in Node :
       /\ n # p
       /\ Connect(n, p) \/ Identified(n, p) \/ LinkLost(n, p) \/ Disconnect(n, p)
            \/ Make(n, p)

Spec == Init /\ [][Next]_vars

(* zmq completes the exchange of ids and a send it can complete.  Nothing   *)
(* in the classes makes an application call recv, nor keeps a link up.      *)
FairSpec ==
  /\ Spec
  /\ \A n \in Node : WF_vars(SendReturns(n))
  /\ \A n \in Node : \A p \in Node \ {n} : WF_vars(Identified(n, p))

-----------------------------------------------------------------------------
Parts == [target : Node \union {NoNode}, body : Body \union {NoBody}]

TypeOK ==
  /\ mandatory \subseteq Node
  /\ bound \subseteq Node
  /\ connects \in [Node -> SUBSET Node]
  /\ peers \in [Node -> SUBSET Node]
  /\ pipe \in [Node \X Node -> Seq(Body \union {NoBody})]
  /\ left \in [Node -> Seq(Parts)]
  /\ object \in [Node -> Parts]
  /\ sending \in [Node -> Parts \union {Idle}]
  /\ made \in 0..MaxMade
  /\ over \subseteq Body

(***************************************************************************)
(* A message is in one place: in the RouterMessage of one application, in  *)
(* one send, on its way once, or destroyed.  A refused send does not leave *)
(* a copy that a retry could send again, and none is received twice.       *)
(***************************************************************************)
Where(b) ==
  {<<"object", n>> : n \in {m \in Node : object[m].body = b}}
    \union {<<"send", n>> : n \in {m \in Node : sending[m] # Idle /\ sending[m].body = b}}
    \union (UNION {{<<"pipe", l, i>> : i \in {j \in DOMAIN pipe[l] : pipe[l][j] = b}} :
                    l \in Node \X Node})
    \union (UNION {{<<"left", n, i>> : i \in {j \in DOMAIN left[n] : left[n][j].body = b}} :
                    n \in Node})
    \union {<<"over">> : x \in over \intersect {b}}
Accounted ==
  \A b \in Body : IF b <= made THEN \E w \in Where(b) : Where(b) = {w}
                                ELSE Where(b) = {}

(***************************************************************************)
(* Sending a message again that a send has emptied delivers nothing: its   *)
(* target has gone with its body, so zmq finds no peer.                    *)
(***************************************************************************)
OnlyWholeArrive ==
  /\ \A l \in Node \X Node : \A i \in 1..Len(pipe[l]) : pipe[l][i] # NoBody
  /\ \A n \in Node : \A i \in 1..Len(left[n]) : left[n][i].body # NoBody

(***************************************************************************)
(* If applications that are in no call go on to call recv, a send returns  *)
(* or its target is in a send itself: two servers that fill each other's   *)
(* pipes may wait for ever, but a server never does that for one which     *)
(* still receives, whatever other programs send it.                        *)
(***************************************************************************)
Blocked(n) == sending[n] # Idle
BlockedOnlyByBlocked ==
  (\A n \in Node : WF_vars(Recv(n))) =>
    \A n \in Node : \A t \in Node \ {n} :
      Blocked(n) /\ sending[n].target = t ~> (~Blocked(n) \/ Blocked(t))

=============================================================================
